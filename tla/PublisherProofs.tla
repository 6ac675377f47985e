-------------------------- MODULE PublisherProofs --------------------------
(***************************************************************************)
(* Theorems about Publisher, for any callers, snapshots and pushes of      *)
(* others and for any number of commits and failed requests.               *)
(***************************************************************************)
EXTENDS Publisher, SequenceTheorems, TLAPS

(* The time each prover may take for a leaf that names none, in seconds.   *)
USE SMTT(30), ZenonT(30)

(* What is known of commit c: its history; that one pushed by others has   *)
(* none of the snapshots; and that one of a publisher was made on top of a *)
(* managed commit that the branch has, and changes it.                     *)
HistoryOK(c) ==
    /\ c \in History(c)
    /\ History(c) \subseteq 1..c
    /\ \A d \in History(c) : History(d) \subseteq History(c)

OursOK(c) ==
    LET b == commits[c].parent
    IN  /\ b \in History(head)
        /\ History(c) = {c} \cup History(b)
        /\ Managed(Tree(b))
        /\ Tree(c) # Tree(b)
        /\ \E s \in asked : Tree(c) = TreeOf(s)
        /\ ordered => Tree(b).files < Tree(c).files

CommitsOK ==
    /\ \A c \in DOMAIN commits : HistoryOK(c)
    /\ \A c \in DOMAIN commits : c \notin Ours => Tree(c) \in Foreign
    /\ \A c \in Ours : OursOK(c)
    /\ inflight \subseteq Ours

(* What is known of a call at each of its stages.                          *)
AfterHead == Stages \ {"idle", "head"}

OpenOK(k) ==
    /\ k.snapshot \in asked
    /\ k.answer = "none"
    /\ Tree(head).files = k.snapshot => k.held
    /\ ordered => \A a \in asked : a <= k.snapshot

HeadOK(k) ==
    /\ k.head \in History(head)
    /\ Tree(k.head).files = k.snapshot => k.held

CommitOK(p, k) ==
    /\ k.commit \in Ours
    /\ Tree(k.commit) = TreeOf(k.snapshot)
    /\ commits[k.commit].by = p

CallOK(p, k) ==
    /\ k.stage = "idle" /\ k.answer = "none" => k = NoCall
    /\ k.stage # "idle" => OpenOK(k)
    /\ k.stage \in AfterHead => HeadOK(k)
    /\ k.stage \in {"blobs", "newtree", "commit"} => Managed(Tree(k.head))
    /\ k.stage = "commit" => Tree(k.head) # TreeOf(k.snapshot)
    /\ k.stage \in {"update", "updating"} => CommitOK(p, k)
    /\ k.reply = "ok" => k.stage = "updating" /\ k.held /\ k.commit \in History(head)
    /\ k.answer \in {"changed", "unchanged"} =>
           /\ k.held
           /\ k.sha \in History(head)
           /\ Tree(k.sha) = TreeOf(k.snapshot)
           /\ k.answer = "changed" => commits[k.sha].by = p

CallsOK == \A p \in Callers : CallOK(p, call[p])

PublisherInv == TypeOK /\ CommitsOK /\ CallsOK

-----------------------------------------------------------------------------
(* Types.                                                                  *)

(* Steps that only add commits keep the calls well typed.                  *)
LEMMA CallsKeepType ==
    ASSUME TypeOK, commits' \in Seq(Commit), Len(commits) <= Len(commits')
    PROVE  Call \subseteq Call'
BY DEF TypeOK, Call

LEMMA NoCallType == TypeOK => NoCall \in Call
BY DEF TypeOK, Call, NoCall, Stages, Answers

(* A new commit.                                                           *)
LEMMA ChildType ==
    ASSUME TypeOK, NEW t \in Foreign \cup {TreeOf(s) : s \in Snapshots},
           NEW b \in DOMAIN commits, NEW by \in Callers \cup {"other"},
           commits' = Append(commits, Child(t, b, by))
    PROVE  /\ Child(t, b, by) \in Commit
           /\ commits' \in Seq(Commit)
           /\ Len(commits') = Len(commits) + 1
           /\ commits'[Len(commits) + 1] = Child(t, b, by)
           /\ \A c \in DOMAIN commits : c \in DOMAIN commits' /\ commits'[c] = commits[c]
           /\ \A c \in DOMAIN commits' : c \in DOMAIN commits \/ c = Len(commits) + 1
           /\ \A c \in DOMAIN commits' : commits'[c].parent \in 0..(c - 1)
<1>1. commits \in Seq(Commit) /\ Len(commits) \in Nat /\ DOMAIN commits = 1..Len(commits)
  BY DEF TypeOK
<1>2. Child(t, b, by) \in Commit
  <2>1. b \in Nat /\ commits[b] \in Commit
    BY <1>1, ElementOfSeq
  <2>2. History(b) \in SUBSET Nat
    BY <2>1 DEF History, Commit
  <2> QED
    BY <1>1, <2>1, <2>2 DEF Child, Commit
<1>3. /\ commits' \in Seq(Commit)
      /\ Len(commits') = Len(commits) + 1
      /\ commits'[Len(commits) + 1] = Child(t, b, by)
      /\ \A c \in 1..Len(commits) : commits'[c] = commits[c]
  BY <1>1, <1>2, AppendProperties
<1>4. DOMAIN commits' = 1..(Len(commits) + 1)
  BY <1>3
<1>5. Child(t, b, by).parent = b
  BY DEF Child
<1>6. \A c \in DOMAIN commits' : commits'[c].parent \in 0..(c - 1)
  BY <1>1, <1>3, <1>4, <1>5 DEF TypeOK
<1> QED
  BY <1>1, <1>2, <1>3, <1>4, <1>6

(* The steps of a call that leave GitHub alone.                            *)
Local(p) ==
    \/ CurrentHead(p) \/ CommitTree(p) \/ VerifySentinel(p) \/ CreateBlobs(p)
    \/ CreateTree(p) \/ UpdateReply(p) \/ UpdateTimeout(p)
    \/ ReconcileHead(p) \/ ReconcileTree(p) \/ RequestFails(p)

(* The new state of the call after such a step, one by one.                *)
LocalTo(k, new) ==
    \/ k.stage = "head" /\ new = [k EXCEPT !.head = head, !.stage = "tree"]
    \/ k.stage = "tree" /\ new = [k EXCEPT !.stage = "sentinel"]
    \/ /\ k.stage = "sentinel" /\ Managed(Tree(k.head))
       /\ new = [k EXCEPT !.stage = "blobs"]
    \/ k.stage = "blobs" /\ new = [k EXCEPT !.stage = "newtree"]
    \/ /\ k.stage = "newtree" /\ Tree(k.head) # TreeOf(k.snapshot)
       /\ new = [k EXCEPT !.stage = "commit"]
    \/ /\ k.stage \in {"newtree", "retree"} /\ Tree(k.head) = TreeOf(k.snapshot)
       /\ new = Returned(k, "unchanged", k.head)
    \/ /\ k.stage = "updating" /\ k.reply = "ok"
       /\ new = Returned(k, "changed", k.commit)
    \/ /\ k.stage = "updating" /\ k.reply = "conflict"
       /\ new = [k EXCEPT !.stage = "rehead"]
    \/ k.stage = "rehead" /\ new = [k EXCEPT !.head = head, !.stage = "retree"]
    \/ /\ k.stage # "idle"
       /\ \E answer \in {"unsafe", "conflict", "failed"} :
             new = Returned(k, answer, 0)

LEMMA LocalStep ==
    ASSUME TypeOK, NEW p \in Callers, Local(p)
    PROVE  /\ UNCHANGED <<commits, head, inflight, asked, ordered>>
           /\ faults' \in 0..MaxFaults
           /\ \E new : LocalTo(call[p], new) /\ call' = [call EXCEPT ![p] = new]
<1> DEFINE k == call[p]
<1>1. k \in Call /\ call \in [Callers -> Call]
  BY DEF TypeOK
<1>2. /\ UNCHANGED <<commits, head, inflight, asked, ordered>>
      /\ faults' \in 0..MaxFaults
  BY PublisherAssumption DEF Local, CurrentHead, CommitTree, VerifySentinel, CreateBlobs,
     CreateTree, UpdateReply, UpdateTimeout, ReconcileHead, ReconcileTree, RequestFails,
     GitHub, history, TypeOK
<1>3. CASE CurrentHead(p)
  BY <1>2, <1>3, ZenonT(30) DEF CurrentHead, LocalTo
<1>4. CASE CommitTree(p)
  BY <1>2, <1>4, ZenonT(30) DEF CommitTree, Goto, LocalTo
<1>5. CASE VerifySentinel(p)
  BY <1>2, <1>5 DEF VerifySentinel, SentinelVerified, Goto, Return, LocalTo
<1>6. CASE CreateBlobs(p)
  BY <1>2, <1>6, ZenonT(30) DEF CreateBlobs, Goto, LocalTo
<1>7. CASE CreateTree(p)
  BY <1>2, <1>7 DEF CreateTree, Unchanged, Goto, Return, LocalTo
<1>8. CASE UpdateReply(p)
  <2>1. k.reply \in {"none", "ok", "conflict"}
    BY <1>1 DEF Call
  <2> QED
    BY <1>2, <1>8, <2>1 DEF UpdateReply, Goto, Return, LocalTo
<1>9. CASE UpdateTimeout(p)
  BY <1>2, <1>9, ZenonT(30) DEF UpdateTimeout, Return, LocalTo
<1>10. CASE ReconcileHead(p)
  BY <1>2, <1>10, ZenonT(30) DEF ReconcileHead, LocalTo
<1>11. CASE ReconcileTree(p)
  BY <1>2, <1>11 DEF ReconcileTree, Reconciled, Return, LocalTo
<1>12. CASE RequestFails(p)
  BY <1>2, <1>12, ZenonT(30) DEF RequestFails, Return, LocalTo
<1> QED
  BY <1>3, <1>4, <1>5, <1>6, <1>7, <1>8, <1>9, <1>10, <1>11, <1>12 DEF Local

(* A local step leaves a call well typed.                                  *)
LEMMA LocalType ==
    ASSUME TypeOK, NEW k \in Call, NEW new, LocalTo(k, new)
    PROVE  new \in Call
<1>1. /\ head \in 0..Len(commits) /\ 0 \in 0..Len(commits)
      /\ k.head \in 0..Len(commits) /\ k.commit \in 0..Len(commits)
  BY DEF TypeOK, Call
<1>2. ASSUME NEW stage \in Stages
      PROVE  /\ [k EXCEPT !.stage = stage] \in Call
             /\ [k EXCEPT !.head = head, !.stage = stage] \in Call
  BY <1>1, ZenonT(30) DEF Call
<1>3. ASSUME NEW answer \in Answers, NEW sha \in 0..Len(commits)
      PROVE  Returned(k, answer, sha) \in Call
  BY <1>1, ZenonT(30) DEF Call, Returned, NoCall, Stages
<1>4. /\ {"tree", "sentinel", "blobs", "newtree", "commit", "rehead", "retree"}
           \subseteq Stages
      /\ {"changed", "unchanged", "unsafe", "conflict", "failed"} \subseteq Answers
  BY DEF Stages, Answers
<1> HIDE DEF Call, Stages, Answers
<1> QED
  BY <1>1, <1>2, <1>3, <1>4, ZenonT(30) DEF LocalTo

(* The steps that are not local, one by one.                               *)
LEMMA StepCases ==
    ASSUME [Next]_vars
    PROVE  \/ UNCHANGED vars
           \/ \E p \in Callers : Local(p)
           \/ \E p \in Callers : \E s \in Snapshots \cup Invalid : Publish(p, s)
           \/ \E p \in Callers : CreateCommit(p)
           \/ \E p \in Callers : SendUpdate(p)
           \/ \E c \in inflight : HandleUpdate(c)
           \/ \E c \in inflight : LoseUpdate(c)
           \/ \E t \in Foreign : Push(t)
BY DEF Next, Step, Local

(* Calls that differ in what they heard of the branch only.                *)
SameCall(k, new) ==
    /\ new.stage = k.stage
    /\ new.snapshot = k.snapshot
    /\ new.head = k.head
    /\ new.commit = k.commit
    /\ new.answer = k.answer
    /\ new.sha = k.sha

(* What an open call sees of the branch.                                   *)
LEMMA SeenType ==
    ASSUME NEW k \in Call, NEW t
    PROVE  /\ Seen(k, t) \in Call
           /\ SameCall(k, Seen(k, t)) /\ Seen(k, t).reply = k.reply
           /\ Seen(k, t).held <=> k.held \/ (k.stage # "idle" /\ t.files = k.snapshot)
<1>1. k.held \in BOOLEAN
  BY DEF Call
<1>2. Seen(k, t).held = (k.held \/ (k.stage # "idle" /\ t.files = k.snapshot))
  BY DEF Seen, Call
<1>3. Seen(k, t).held \in BOOLEAN
  BY <1>2, Zenon
<1>4. Seen(k, t) = [k EXCEPT !.held = Seen(k, t).held]
  BY DEF Seen, Call
<1>5. ASSUME NEW b \in BOOLEAN
      PROVE  [k EXCEPT !.held = b] \in Call
  BY DEF Call
<1>6. SameCall(k, Seen(k, t)) /\ Seen(k, t).reply = k.reply
  BY <1>4 DEF Call, SameCall
<1> QED
  BY <1>2, <1>3, <1>4, <1>5, <1>6, Zenon

(* What an update that GitHub handles does to a call: it may get its       *)
(* reply, and it sees the branch.                                          *)
LEMMA HandleStep ==
    ASSUME TypeOK, NEW c \in inflight, HandleUpdate(c), NEW p \in Callers,
           NEW k, k = call[p], NEW new, new = call'[p]
    PROVE  /\ UNCHANGED <<commits, asked, ordered, faults>>
           /\ inflight' = inflight \ {c}
           /\ \/ FastForward(c) /\ head' = c
              \/ ~FastForward(c) /\ head' = head
           /\ call' \in [Callers -> Call]
           /\ SameCall(k, new)
           /\ \/ new.reply = k.reply
              \/ /\ k.stage = "updating" /\ k.commit = c
                 /\ new.reply = IF FastForward(c) THEN "ok" ELSE "conflict"
           /\ new.held <=> \/ k.held
                           \/ k.stage # "idle" /\ Tree(head').files = k.snapshot
<1> DEFINE Reply(q) == IF call[q].stage = "updating" /\ call[q].commit = c
                       THEN [call[q] EXCEPT !.reply = IF FastForward(c) THEN "ok"
                                                      ELSE "conflict"]
                       ELSE call[q]
<1>1. /\ call \in [Callers -> Call]
      /\ k \in Call
  BY DEF TypeOK
<1>2. /\ UNCHANGED <<commits, asked, ordered, faults>>
      /\ inflight' = inflight \ {c}
      /\ \/ FastForward(c) /\ head' = c
         \/ ~FastForward(c) /\ head' = head
      /\ call' = [q \in Callers |-> Seen(Reply(q), Tree(head'))]
  BY DEF HandleUpdate, history
<1>3. ASSUME NEW q \in Callers
      PROVE  /\ Reply(q) \in Call
             /\ SameCall(call[q], Reply(q)) /\ Reply(q).held = call[q].held
             /\ \/ Reply(q).reply = call[q].reply
                \/ /\ call[q].stage = "updating" /\ call[q].commit = c
                   /\ Reply(q).reply = IF FastForward(c) THEN "ok" ELSE "conflict"
  BY <1>1, ZenonT(30) DEF Call, SameCall
<1>4. PICK mid : mid = Reply(p)
  BY ZenonT(30)
<1>5. PICK t : t = Tree(head')
  OBVIOUS
<1>6. /\ mid \in Call
      /\ SameCall(k, mid) /\ mid.held = k.held
      /\ \/ mid.reply = k.reply
         \/ /\ k.stage = "updating" /\ k.commit = c
            /\ mid.reply = IF FastForward(c) THEN "ok" ELSE "conflict"
  BY <1>3, <1>4
<1>7. new = Seen(mid, t)
  BY <1>2, <1>4, <1>5
<1>8. /\ SameCall(mid, new) /\ new.reply = mid.reply
      /\ new.held <=> mid.held \/ (mid.stage # "idle" /\ t.files = mid.snapshot)
  <2>1. /\ SameCall(mid, Seen(mid, t)) /\ Seen(mid, t).reply = mid.reply
        /\ Seen(mid, t).held <=>
              mid.held \/ (mid.stage # "idle" /\ t.files = mid.snapshot)
    BY <1>6, SeenType, ZenonT(30)
  <2> QED
    BY <1>7, <2>1, Zenon
<1>9. mid.stage = k.stage /\ mid.snapshot = k.snapshot /\ mid.held = k.held
  BY <1>6 DEF SameCall
<1>10. SameCall(k, new) /\ new.reply = mid.reply
  BY <1>6, <1>8 DEF SameCall
<1>11. call' \in [Callers -> Call]
  BY <1>2, <1>3, SeenType
<1>12. new.held <=> k.held \/ (k.stage # "idle" /\ Tree(head').files = k.snapshot)
  BY <1>5, <1>8, <1>9, Zenon
<1> HIDE DEF Reply
<1> QED
  BY <1>2, <1>6, <1>10, <1>11, <1>12, Zenon

-----------------------------------------------------------------------------
(* Commits.                                                                *)

(* What the invariant says of commit numbers.                              *)
LEMMA Numbers ==
    ASSUME PublisherInv
    PROVE  /\ Len(commits) \in Nat /\ DOMAIN commits = 1..Len(commits)
           /\ head \in DOMAIN commits
           /\ \A c \in DOMAIN commits : commits[c] \in Commit
           /\ \A c \in DOMAIN commits : History(c) \subseteq DOMAIN commits
           /\ Ours \subseteq DOMAIN commits
           /\ \A p \in Callers :
                /\ call[p].stage \in AfterHead => call[p].head \in DOMAIN commits
                /\ call[p].stage \in {"update", "updating"}
                      => call[p].commit \in DOMAIN commits
<1>1. /\ Len(commits) \in Nat /\ DOMAIN commits = 1..Len(commits)
      /\ head \in DOMAIN commits
      /\ \A c \in DOMAIN commits : commits[c] \in Commit
  BY ElementOfSeq DEF PublisherInv, TypeOK
<1>2. \A c \in DOMAIN commits : History(c) \subseteq 1..c
  BY DEF PublisherInv, CommitsOK, HistoryOK
<1>3. \A c \in DOMAIN commits : History(c) \subseteq DOMAIN commits
  BY <1>1, <1>2
<1>4. Ours \subseteq DOMAIN commits
  BY DEF Ours
<1>5. ASSUME NEW p \in Callers
      PROVE  /\ call[p].stage \in AfterHead => call[p].head \in History(head)
             /\ call[p].stage \in {"update", "updating"} => call[p].commit \in Ours
  BY DEF PublisherInv, CallsOK, CallOK, HeadOK, CommitOK
<1> QED
  BY <1>1, <1>3, <1>4, <1>5

(* Commits are never changed, the branch never loses one, and calls do not *)
(* come to be in order again.                                              *)
Grows ==
    /\ \A c \in DOMAIN commits : c \in DOMAIN commits' /\ commits'[c] = commits[c]
    /\ head' \in DOMAIN commits'
    /\ History(head) \subseteq History(head)'
    /\ asked \subseteq asked'
    /\ ordered' => ordered

(* A push or a new commit of a publisher.                                  *)
LEMMA Appended ==
    ASSUME PublisherInv, NEW t \in Foreign \cup {TreeOf(s) : s \in Snapshots},
           NEW b \in DOMAIN commits, NEW by \in Callers \cup {"other"},
           commits' = Append(commits, Child(t, b, by))
    PROVE  LET n == Len(commits) + 1
           IN  /\ n \in DOMAIN commits' /\ n \notin DOMAIN commits /\ n \in Nat
               /\ commits' \in Seq(Commit)
               /\ Len(commits') = n
               /\ \A c \in DOMAIN commits : c \in DOMAIN commits' /\ commits'[c] = commits[c]
               /\ \A c \in DOMAIN commits' : c \in DOMAIN commits \/ c = n
               /\ \A c \in DOMAIN commits' : commits'[c].parent \in 0..(c - 1)
               /\ commits'[n].tree = t
               /\ commits'[n].parent = b
               /\ commits'[n].by = by
               /\ commits'[n].history = {n} \cup History(b)
<1>1. TypeOK
  BY DEF PublisherInv
<1>2. Len(commits) \in Nat /\ DOMAIN commits = 1..Len(commits)
  BY Numbers
<1> DEFINE n == Len(commits) + 1
<1>3. /\ commits' \in Seq(Commit)
      /\ Len(commits') = n
      /\ commits'[n] = Child(t, b, by)
      /\ \A c \in DOMAIN commits : c \in DOMAIN commits' /\ commits'[c] = commits[c]
      /\ \A c \in DOMAIN commits' : c \in DOMAIN commits \/ c = n
      /\ \A c \in DOMAIN commits' : commits'[c].parent \in 0..(c - 1)
  BY <1>1, ChildType, ZenonT(30)
<1>4. DOMAIN commits' = 1..n
  BY <1>3
<1>5. n \in DOMAIN commits' /\ n \notin DOMAIN commits /\ n \in Nat
  BY <1>2, <1>4
<1>6. /\ commits'[n].tree = t
      /\ commits'[n].parent = b
      /\ commits'[n].by = by
      /\ commits'[n].history = {n} \cup History(b)
  BY <1>3 DEF Child
<1> HIDE DEF n
<1> QED
  BY <1>3, <1>5, <1>6 DEF n

(* GitHub moves the branch to descendants only, and so do others.          *)
LEMMA StepGrows == PublisherInv /\ [Next]_vars => Grows
<1> SUFFICES ASSUME PublisherInv, [Next]_vars
             PROVE  Grows
  OBVIOUS
<1>0. TypeOK
  BY DEF PublisherInv
<1>1. CASE UNCHANGED vars
  BY <1>1, Numbers DEF vars, Grows, History
<1>2. ASSUME NEW p \in Callers, Local(p)
      PROVE  Grows
  BY <1>0, <1>2, Numbers, LocalStep DEF Grows, History
<1>3. ASSUME NEW p \in Callers, NEW s \in Snapshots \cup Invalid, Publish(p, s)
      PROVE  Grows
  <2>1. UNCHANGED <<commits, head>> /\ asked \subseteq asked' /\ (ordered' => ordered)
    BY <1>3 DEF Publish, GitHub
  <2> QED
    BY <2>1, Numbers DEF Grows, History
<1>4. ASSUME NEW p \in Callers, SendUpdate(p)
      PROVE  Grows
  BY <1>4, Numbers DEF SendUpdate, history, Grows, History
<1>5. ASSUME NEW c \in inflight, HandleUpdate(c)
      PROVE  Grows
  <2>1. /\ UNCHANGED <<commits, asked, ordered>>
        /\ \/ FastForward(c) /\ head' = c
           \/ head' = head
    BY <1>5 DEF HandleUpdate, history
  <2>2. c \in DOMAIN commits /\ HistoryOK(c)
    BY Numbers DEF PublisherInv, CommitsOK
  <2>3. FastForward(c) => History(head) \subseteq History(c)
    BY <2>2 DEF FastForward, HistoryOK
  <2> QED
    BY <2>1, <2>2, <2>3, Numbers DEF Grows, History
<1>6. ASSUME NEW c \in inflight, LoseUpdate(c)
      PROVE  Grows
  BY <1>6, Numbers DEF LoseUpdate, history, Grows, History
<1>7. ASSUME NEW t \in Foreign, Push(t)
      PROVE  Grows
  <2>1. /\ commits' = Append(commits, Child(t, head, "other"))
        /\ head' = Len(commits) + 1
        /\ UNCHANGED <<asked, ordered>>
    BY <1>7 DEF Push, history
  <2>2. head \in DOMAIN commits
    BY Numbers
  <2> QED
    BY <2>1, <2>2, Appended DEF Grows, History
<1>8. ASSUME NEW p \in Callers, CreateCommit(p)
      PROVE  Grows
  <2>1. /\ commits' = Append(commits, Child(TreeOf(call[p].snapshot), call[p].head, p))
        /\ UNCHANGED <<head, asked, ordered>>
        /\ call[p].stage = "commit"
    BY <1>8 DEF CreateCommit, history
  <2>2. call[p].head \in DOMAIN commits /\ head \in DOMAIN commits
    BY <2>1, Numbers DEF AfterHead, Stages
  <2>3. call[p].snapshot \in Snapshots
    BY <1>0, <2>1 DEF PublisherInv, CallsOK, CallOK, OpenOK, TypeOK
  <2>4. /\ head' = head
        /\ \A c \in DOMAIN commits : c \in DOMAIN commits' /\ commits'[c] = commits[c]
    BY <2>1, <2>2, <2>3, Appended
  <2> QED
    BY <2>1, <2>2, <2>4 DEF Grows, History
<1> QED
  BY <1>1, <1>2, <1>3, <1>4, <1>5, <1>6, <1>7, <1>8, StepCases

(* Every step keeps the types.                                             *)
LEMMA TypeStep == PublisherInv /\ [Next]_vars => TypeOK'
<1> SUFFICES ASSUME PublisherInv, [Next]_vars
             PROVE  TypeOK'
  OBVIOUS
<1>0. TypeOK
  BY DEF PublisherInv
<1> USE <1>0 DEF TypeOK
<1>1. CASE UNCHANGED vars
  BY <1>1 DEF vars, Call
<1>2. ASSUME NEW p \in Callers, Local(p)
      PROVE  TypeOK'
  <2>1. PICK new : LocalTo(call[p], new) /\ call' = [call EXCEPT ![p] = new]
    BY <1>0, <1>2, LocalStep
  <2>2. new \in Call
    BY <1>0, <2>1, LocalType
  <2>3. Call' = Call
    BY <1>0, <1>2, LocalStep, ZenonT(30) DEF Call
  <2> QED
    BY <1>2, <2>1, <2>2, <2>3, <1>0, LocalStep
<1>3. ASSUME NEW p \in Callers, NEW s \in Snapshots \cup Invalid, Publish(p, s)
      PROVE  TypeOK'
  <2>1. UNCHANGED <<commits, head, inflight, faults>>
    BY <1>3 DEF Publish, GitHub
  <2>2. asked' \subseteq Snapshots
    BY <1>3 DEF Publish, Refused
  <2>3. ordered' \in BOOLEAN
    BY <1>3, Zenon DEF Publish
  <2>4. PICK new : /\ call' = [call EXCEPT ![p] = new]
                   /\ \/ new = [NoCall EXCEPT !.snapshot = s, !.answer = "failed"]
                      \/ new = [NoCall EXCEPT !.stage = "head", !.snapshot = s,
                                              !.held = Tree(head).files = s]
    BY <1>3, ZenonT(30) DEF Publish
  <2>5. new \in Call
    <3>0. NoCall \in Call
      BY NoCallType
    <3>1. [NoCall EXCEPT !.snapshot = s, !.answer = "failed"] \in Call
      BY <3>0, ZenonT(30) DEF Call, Answers
    <3>2. ASSUME NEW b \in BOOLEAN
          PROVE  [NoCall EXCEPT !.stage = "head", !.snapshot = s, !.held = b] \in Call
      BY <3>0, ZenonT(30) DEF Call, Stages
    <3>3. (Tree(head).files = s) \in BOOLEAN
      BY Zenon
    <3> QED
      BY <2>4, <3>1, <3>2, <3>3, Zenon
  <2>6. Call' = Call
    BY <2>1 DEF Call
  <2> QED
    BY <2>1, <2>2, <2>3, <2>4, <2>5, <2>6
<1>4. ASSUME NEW p \in Callers, SendUpdate(p)
      PROVE  TypeOK'
  <2>1. UNCHANGED <<commits, head, asked, ordered, faults>>
    BY <1>4 DEF SendUpdate, history
  <2>2. /\ call[p].stage = "update"
        /\ inflight' = inflight \cup {call[p].commit}
        /\ call' = [call EXCEPT ![p].stage = "updating"]
    BY <1>4 DEF SendUpdate, Goto
  <2>3. call[p].commit \in DOMAIN commits
    BY <2>2, Numbers
  <2>4. Call' = Call
    BY <2>1 DEF Call
  <2>5. [call[p] EXCEPT !.stage = "updating"] \in Call
    BY ZenonT(30) DEF Call, Stages
  <2>6. call' \in [Callers -> Call]
    BY <2>2, <2>5
  <2> QED
    BY <2>1, <2>2, <2>3, <2>4, <2>6
<1>5. ASSUME NEW c \in inflight, HandleUpdate(c)
      PROVE  TypeOK'
  <2>1. CASE Callers = {}
    BY <1>5, <2>1 DEF HandleUpdate, history
  <2>2. CASE Callers # {}
    <3>1. PICK p : p \in Callers
      BY <2>2
    <3>2. /\ UNCHANGED <<commits, asked, ordered, faults>>
          /\ inflight' = inflight \ {c}
          /\ head' = c \/ head' = head
          /\ call' \in [Callers -> Call]
      BY <1>0, <1>5, <3>1, HandleStep
    <3>3. Call' = Call
      BY <3>2 DEF Call
    <3> QED
      BY <3>2, <3>3
  <2> QED
    BY <2>1, <2>2
<1>6. ASSUME NEW c \in inflight, LoseUpdate(c)
      PROVE  TypeOK'
  BY <1>6, PublisherAssumption DEF LoseUpdate, history, Call
<1>7. ASSUME NEW t \in Foreign, Push(t)
      PROVE  TypeOK'
  <2>1. /\ commits' = Append(commits, Child(t, head, "other"))
        /\ head' = Len(commits) + 1
        /\ call' = [p \in Callers |-> Seen(call[p], t)]
        /\ UNCHANGED <<inflight, asked, ordered, faults>>
    BY <1>7 DEF Push, history
  <2>2. head \in DOMAIN commits
    BY Numbers
  <2>3. /\ commits' \in Seq(Commit)
        /\ Len(commits') = Len(commits) + 1
        /\ Len(commits) + 1 \in DOMAIN commits'
        /\ DOMAIN commits \subseteq DOMAIN commits'
        /\ \A c \in DOMAIN commits' : commits'[c].parent \in 0..(c - 1)
    BY <2>1, <2>2, Appended
  <2>4. Call \subseteq Call'
    BY <2>3, Numbers, CallsKeepType
  <2>5. call' \in [Callers -> Call]
    BY <2>1, SeenType
  <2> QED
    BY <2>1, <2>3, <2>4, <2>5, ZenonT(30)
<1>8. ASSUME NEW p \in Callers, CreateCommit(p)
      PROVE  TypeOK'
  <2>1. /\ commits' = Append(commits, Child(TreeOf(call[p].snapshot), call[p].head, p))
        /\ UNCHANGED <<head, inflight, asked, ordered>>
        /\ faults' \in 0..MaxFaults
        /\ call[p].stage = "commit"
    BY <1>8, PublisherAssumption DEF CreateCommit, history
  <2>2. call[p].head \in DOMAIN commits
    BY <2>1, Numbers DEF AfterHead, Stages
  <2>3. call[p].snapshot \in Snapshots
    BY <2>1 DEF PublisherInv, CallsOK, CallOK, OpenOK
  <2>4. /\ commits' \in Seq(Commit)
        /\ Len(commits') = Len(commits) + 1
        /\ Len(commits) + 1 \in DOMAIN commits'
        /\ DOMAIN commits \subseteq DOMAIN commits'
        /\ \A c \in DOMAIN commits' : commits'[c].parent \in 0..(c - 1)
    BY <2>1, <2>2, <2>3, Appended, ZenonT(30)
  <2>5. Call \subseteq Call'
    BY <2>4, Numbers, CallsKeepType
  <2>6. PICK new : /\ call' = [call EXCEPT ![p] = new]
                   /\ \/ new = [call[p] EXCEPT !.stage = "update",
                                               !.commit = Len(commits) + 1]
                      \/ new = Returned(call[p], "failed", 0)
    BY <1>8, ZenonT(30) DEF CreateCommit, Return
  <2>7. new \in Call'
    <3>1. call[p] \in Call'
      BY <2>5
    <3>2. Len(commits') = Len(commits) + 1 /\ Len(commits) \in Nat
      BY <2>4, Numbers
    <3>3. [call[p] EXCEPT !.stage = "update", !.commit = Len(commits) + 1] \in Call'
      <4>1. PICK k, m : k = call[p] /\ m = Len(commits')
        BY ZenonT(30)
      <4>2. m \in Nat /\ m \in 0..m /\ m = Len(commits) + 1
        BY <3>2, <4>1
      <4>3. k \in Call'
        BY <3>1, <4>1
      <4>4. [k EXCEPT !.stage = "update", !.commit = m] \in Call'
        BY ONLY <4>1, <4>2, <4>3, ZenonT(30) DEF Call, Stages
      <4> QED
        BY ONLY <4>1, <4>2, <4>4
    <3>4. Returned(call[p], "failed", 0) \in Call
      <4>1. NoCall \in Call /\ 0 \in 0..Len(commits)
        BY <3>2, NoCallType
      <4> QED
        BY <4>1, ZenonT(30) DEF Call, Returned, Answers
    <3> QED
      BY <2>5, <2>6, <3>3, <3>4
  <2> QED
    BY <2>1, <2>4, <2>5, <2>6, <2>7
<1> QED
  BY <1>1, <1>2, <1>3, <1>4, <1>5, <1>6, <1>7, <1>8, StepCases

-----------------------------------------------------------------------------
(* What is known of a commit stays true.                                   *)
LEMMA CommitKept ==
    ASSUME PublisherInv, Grows, NEW c \in DOMAIN commits
    PROVE  /\ c \in DOMAIN commits' /\ commits'[c] = commits[c]
           /\ HistoryOK(c)'
           /\ c \in Ours' <=> c \in Ours
           /\ c \notin Ours' => Tree(c)' \in Foreign
           /\ c \in Ours => OursOK(c)'
<1>1. c \in DOMAIN commits' /\ commits'[c] = commits[c]
  BY DEF Grows
<1>2. HistoryOK(c) /\ (c \notin Ours => Tree(c) \in Foreign)
  BY DEF PublisherInv, CommitsOK
<1>3. History(c) \subseteq DOMAIN commits
  BY Numbers
<1>4. HistoryOK(c)'
  BY <1>1, <1>2, <1>3 DEF HistoryOK, History, Grows
<1>5. c \in Ours' <=> c \in Ours
  BY <1>1 DEF Ours
<1>6. ASSUME c \in Ours
      PROVE  OursOK(c)'
  <2>1. OursOK(c)
    BY <1>6 DEF PublisherInv, CommitsOK
  <2>2. PICK b : b = commits[c].parent
    OBVIOUS
  <2>3. /\ b \in History(head)
        /\ History(c) = {c} \cup History(b)
        /\ Managed(Tree(b))
        /\ Tree(c) # Tree(b)
        /\ \E s \in asked : Tree(c) = TreeOf(s)
        /\ ordered => Tree(b).files < Tree(c).files
    BY <2>1, <2>2 DEF OursOK
  <2>4. b \in DOMAIN commits /\ commits'[b] = commits[b]
    BY <2>3, Numbers DEF Grows
  <2>5. /\ b \in History(head)'
        /\ asked \subseteq asked'
        /\ ordered' => ordered
    BY <2>3 DEF Grows
  <2>6. b = commits'[c].parent
    BY <1>1, <2>2
  <2> QED
    BY <1>1, <2>3, <2>4, <2>5, <2>6 DEF OursOK, History, Tree
<1> QED
  BY <1>1, <1>2, <1>4, <1>5, <1>6 DEF Tree

(* The commit that a step adds.                                            *)
LEMMA NewHistory ==
    ASSUME PublisherInv, NEW t \in Foreign \cup {TreeOf(s) : s \in Snapshots},
           NEW b \in DOMAIN commits, NEW by \in Callers \cup {"other"},
           commits' = Append(commits, Child(t, b, by)),
           NEW n, n = Len(commits) + 1
    PROVE  HistoryOK(n)'
<1>1. HistoryOK(b) /\ History(b) \subseteq DOMAIN commits
  BY Numbers DEF PublisherInv, CommitsOK
<1>2. /\ \A c \in DOMAIN commits : commits'[c] = commits[c]
      /\ commits'[n].history = {n} \cup History(b)
      /\ n \in Nat /\ n \in 1..n
  <2>1. n \in Nat /\ n \in 1..n
    BY Numbers
  <2>2. \A c \in DOMAIN commits : commits'[c] = commits[c]
    BY Appended
  <2>3. commits'[n].history = {n} \cup History(b)
    BY Appended, ZenonT(30)
  <2> QED
    BY <2>1, <2>2, <2>3
<1>3. DOMAIN commits \subseteq 1..n
  BY Numbers
<1>4. \A d \in History(b) : commits'[d].history = History(d) /\ History(d) \subseteq History(b)
  BY <1>1, <1>2 DEF HistoryOK, History
<1>5. History(n)' = {n} \cup History(b)
  BY <1>2 DEF History
<1>6. ASSUME NEW d \in History(n)'
      PROVE  History(d)' \subseteq History(n)'
  <2>1. CASE d = n
    BY <2>1
  <2>2. CASE d \in History(b)
    BY <1>4, <1>5, <2>2, ZenonT(30) DEF History
  <2> QED
    BY <1>5, <1>6, <2>1, <2>2
<1>7. History(n)' \subseteq 1..n /\ n \in History(n)'
  BY <1>1, <1>2, <1>3, <1>5
<1> QED
  BY <1>6, <1>7 DEF HistoryOK

(* A publisher's commit changes what it is made on, and to something newer *)
(* as long as the calls are in order.                                      *)
LEMMA NewCommit ==
    ASSUME PublisherInv, Grows, NEW p \in Callers, CreateCommit(p),
           NEW n, n = Len(commits) + 1
    PROVE  HistoryOK(n)' /\ n \in Ours' /\ OursOK(n)'
<1>1. PICK k : k = call[p]
  OBVIOUS
<1>2. PICK t : t = TreeOf(k.snapshot)
  OBVIOUS
<1>3. /\ commits' = Append(commits, Child(t, k.head, p))
      /\ UNCHANGED <<head, asked, ordered>>
      /\ k.stage = "commit"
  BY <1>1, <1>2 DEF CreateCommit, history
<1>4. /\ CallOK(p, k) /\ k.head \in DOMAIN commits
      /\ asked \subseteq Snapshots
  BY <1>1, <1>3, Numbers DEF PublisherInv, CallsOK, AfterHead, Stages, TypeOK
<1>5. /\ k.snapshot \in asked
      /\ k.head \in History(head)
      /\ Managed(Tree(k.head))
      /\ Tree(k.head) # t
      /\ ordered => \A a \in asked : a <= k.snapshot
  BY <1>2, <1>3, <1>4 DEF CallOK, OpenOK, HeadOK, AfterHead, Stages
<1>6. t \in {TreeOf(s) : s \in Snapshots}
  BY <1>2, <1>4, <1>5
<1>7. /\ commits'[n].tree = t
      /\ commits'[n].parent = k.head
      /\ commits'[n].by = p
      /\ commits'[n].history = {n} \cup History(k.head)
      /\ n \in DOMAIN commits'
  BY <1>3, <1>4, <1>6, Appended, ZenonT(30)
<1>8. n \in Ours'
  BY <1>7 DEF Ours
<1>9. HistoryOK(n)'
  BY <1>3, <1>4, <1>6, NewHistory, ZenonT(30)
<1>10. t.files = k.snapshot
  BY <1>2 DEF TreeOf
<1>11. ordered => Tree(k.head).files < t.files
  <2>1. k.snapshot \in Nat /\ k.snapshot > 0
    <3>1. k.snapshot \in Nat \ {0}
      BY <1>4, <1>5, PublisherAssumption, ZenonT(30)
    <3> QED
      BY ONLY <3>1
  <2>2. CASE k.head \in Ours
    <3>1. PICK s \in asked : Tree(k.head) = TreeOf(s)
      BY <2>2 DEF PublisherInv, CommitsOK, OursOK
    <3>2. Tree(k.head).files = s
      BY <3>1 DEF TreeOf
    <3>3. s # k.snapshot
      BY <1>2, <1>5, <3>1
    <3>4. s \in Nat
      BY <1>4, PublisherAssumption, ZenonT(30)
    <3> QED
      BY <1>5, <1>10, <2>1, <3>2, <3>3, <3>4
  <2>3. CASE k.head \notin Ours
    <3>1. Tree(k.head) \in Foreign
      BY <1>4, <2>3 DEF PublisherInv, CommitsOK
    <3>2. Tree(k.head).files = 0
      BY <3>1, PublisherAssumption
    <3> QED
      BY <1>10, <2>1, <3>2
  <2> QED
    BY <2>2, <2>3
<1>12. commits'[k.head] = commits[k.head]
  BY <1>4 DEF Grows
<1>13. k.head \in History(head)'
  BY <1>5 DEF Grows
<1>14. \E s \in asked' : t = TreeOf(s)
  BY <1>2, <1>3, <1>5
<1>15. OursOK(n)'
  BY <1>3, <1>5, <1>7, <1>11, <1>12, <1>13, <1>14, ZenonT(30) DEF OursOK, History, Tree
<1> QED
  BY <1>8, <1>9, <1>15

(* The step keeps what is known of the commits.                            *)
LEMMA CommitsStep == PublisherInv /\ [Next]_vars => CommitsOK'
<1> SUFFICES ASSUME PublisherInv, [Next]_vars
             PROVE  CommitsOK'
  OBVIOUS
<1>0. Grows /\ TypeOK
  BY StepGrows DEF PublisherInv
<1>1. inflight \subseteq Ours /\ Ours \subseteq DOMAIN commits
  BY DEF PublisherInv, CommitsOK, Ours
<1>2. ASSUME commits' = commits, inflight' \subseteq Ours
      PROVE  CommitsOK'
  <2>1. Ours' = Ours
    BY <1>2 DEF Ours
  <2> QED
    BY <1>0, <1>1, <1>2, <2>1, CommitKept DEF CommitsOK
<1>3. ASSUME NEW p \in Callers, SendUpdate(p)
      PROVE  CommitsOK'
  <2>1. /\ call[p].stage = "update"
        /\ inflight' = inflight \cup {call[p].commit}
        /\ commits' = commits
    BY <1>3 DEF SendUpdate
  <2>2. call[p].commit \in Ours
    BY <2>1 DEF PublisherInv, CallsOK, CallOK, CommitOK
  <2> QED
    BY <1>1, <1>2, <2>1, <2>2
<1>4. ASSUME NEW c \in inflight, HandleUpdate(c) \/ LoseUpdate(c)
      PROVE  CommitsOK'
  <2>1. commits' = commits /\ inflight' = inflight \ {c}
    BY <1>4 DEF HandleUpdate, LoseUpdate
  <2> QED
    BY <1>1, <1>2, <2>1
<1>5. ASSUME NEW t \in Foreign, Push(t)
      PROVE  CommitsOK'
  <2>1. PICK n : n = Len(commits) + 1
    OBVIOUS
  <2>2. /\ commits' = Append(commits, Child(t, head, "other"))
        /\ inflight' = inflight
        /\ head \in DOMAIN commits
    BY <1>5, Numbers DEF Push
  <2>3. /\ \A c \in DOMAIN commits' : c \in DOMAIN commits \/ c = n
        /\ commits'[n].tree = t
        /\ commits'[n].by = "other"
        /\ n \notin DOMAIN commits
    BY <2>1, <2>2, Appended
  <2>4. HistoryOK(n)'
    BY <2>1, <2>2, NewHistory
  <2>5. n \notin Ours' /\ Tree(n)' \in Foreign
    BY <2>3, PublisherAssumption DEF Ours, Tree
  <2>6. Ours' \subseteq DOMAIN commits /\ inflight' \subseteq Ours'
    BY <1>0, <1>1, <2>2, <2>3, <2>5, CommitKept DEF Ours
  <2> QED
    BY <1>0, <2>3, <2>4, <2>5, <2>6, CommitKept DEF CommitsOK
<1>6. ASSUME NEW p \in Callers, CreateCommit(p)
      PROVE  CommitsOK'
  <2>1. PICK n : n = Len(commits) + 1
    OBVIOUS
  <2>2. HistoryOK(n)' /\ n \in Ours' /\ OursOK(n)'
    BY <1>0, <1>6, <2>1, NewCommit, ZenonT(30)
  <2>3. /\ inflight' = inflight
        /\ \A c \in DOMAIN commits' : c \in DOMAIN commits \/ c = n
    <3>1. /\ commits' = Append(commits, Child(TreeOf(call[p].snapshot), call[p].head, p))
          /\ inflight' = inflight
          /\ call[p].stage = "commit"
      BY <1>6 DEF CreateCommit
    <3>2. call[p].head \in DOMAIN commits
      BY <3>1, Numbers DEF AfterHead, Stages
    <3>3. call[p].snapshot \in Snapshots
      BY <1>0, <3>1 DEF PublisherInv, CallsOK, CallOK, OpenOK, TypeOK
    <3> QED
      BY <2>1, <3>1, <3>2, <3>3, Appended
  <2>4. inflight' \subseteq Ours' /\ Ours' \subseteq DOMAIN commits'
    BY <1>0, <1>1, <2>3, CommitKept DEF Ours
  <2> QED
    BY <1>0, <2>2, <2>3, <2>4, CommitKept DEF CommitsOK
<1>7. ASSUME NEW p \in Callers, Local(p)
      PROVE  CommitsOK'
  BY <1>0, <1>1, <1>2, <1>7, LocalStep
<1>8. ASSUME NEW p \in Callers, NEW s \in Snapshots \cup Invalid, Publish(p, s)
      PROVE  CommitsOK'
  BY <1>1, <1>2, <1>8 DEF Publish, GitHub
<1>9. CASE UNCHANGED vars
  BY <1>1, <1>2, <1>9, ZenonT(30) DEF vars
<1> QED
  BY <1>3, <1>4, <1>5, <1>6, <1>7, <1>8, <1>9, StepCases

-----------------------------------------------------------------------------
(* What is known of a call stays true while it does not move, if it notes  *)
(* its snapshot on the branch and nobody else asks for another.            *)
LEMMA CallKept ==
    ASSUME PublisherInv, Grows, NEW p \in Callers, NEW k, CallOK(p, k),
           k.stage # "idle" /\ Tree(head)'.files = k.snapshot => k.held,
           k.stage # "idle" /\ ordered' => asked' = asked
    PROVE  CallOK(p, k)'
<1>1. ASSUME NEW c \in History(head)
      PROVE  /\ c \in DOMAIN commits /\ commits'[c] = commits[c]
             /\ c \in History(head)'
  BY Numbers DEF Grows
<1>2. ASSUME NEW c \in Ours
      PROVE  commits'[c] = commits[c] /\ c \in Ours'
  BY Numbers, CommitKept
<1>3. asked \subseteq asked' /\ (ordered' => ordered)
  BY DEF Grows
<1>4. k.stage # "idle" => OpenOK(k)'
  BY <1>3 DEF CallOK, OpenOK
<1>5. k.stage \in AfterHead => HeadOK(k)'
  BY <1>1 DEF CallOK, HeadOK, Tree
<1>6. AfterHead' = AfterHead
  BY ZenonT(30) DEF AfterHead
<1>7. k.stage \in {"blobs", "newtree", "commit"} =>
        /\ Managed(Tree(k.head))'
        /\ k.stage = "commit" => (Tree(k.head) # TreeOf(k.snapshot))'
  <2>1. k.stage \in {"blobs", "newtree", "commit"} => k.head \in History(head)
    BY DEF CallOK, HeadOK, AfterHead, Stages
  <2> QED
    BY <1>1, <2>1, ZenonT(30) DEF CallOK, Tree
<1>8. k.stage \in {"update", "updating"} => CommitOK(p, k)'
  BY <1>2, ZenonT(30) DEF CallOK, CommitOK, Tree
<1>9. k.reply = "ok" => k.stage = "updating" /\ k.held /\ k.commit \in History(head)'
  BY <1>1, ZenonT(30) DEF CallOK
<1>10. k.answer \in {"changed", "unchanged"} =>
          /\ k.held
          /\ k.sha \in History(head)'
          /\ Tree(k.sha)' = TreeOf(k.snapshot)
          /\ k.answer = "changed" => commits'[k.sha].by = p
  BY <1>1 DEF CallOK, Tree
<1>11. k.stage = "idle" /\ k.answer = "none" => k = NoCall
  BY DEF CallOK
<1> QED
  BY <1>4, <1>5, <1>6, <1>7, <1>8, <1>9, <1>10, <1>11 DEF CallOK

(* A step of the call that leaves GitHub alone.                            *)
LEMMA CallMoves ==
    ASSUME PublisherInv, NEW p \in Callers, NEW k \in Call, CallOK(p, k),
           NEW new, LocalTo(k, new)
    PROVE  CallOK(p, new)
<1>1. head \in History(head)
  BY Numbers DEF PublisherInv, CommitsOK, HistoryOK
<1>2. k.stage # "idle" /\ OpenOK(k)
  BY ZenonT(30) DEF LocalTo, CallOK
<1>3. ASSUME NEW answer \in {"unchanged", "changed", "unsafe", "conflict", "failed"},
             NEW sha, new = Returned(k, answer, sha),
             answer \in {"changed", "unchanged"} =>
                 /\ k.held
                 /\ sha \in History(head)
                 /\ Tree(sha) = TreeOf(k.snapshot)
                 /\ answer = "changed" => commits[sha].by = p
      PROVE  CallOK(p, new)
  <2>1. /\ new.stage = "idle" /\ new.reply = "none" /\ new.answer = answer
        /\ new.sha = sha /\ new.snapshot = k.snapshot /\ new.held = k.held
    BY <1>3 DEF Returned, NoCall
  <2> QED
    BY <1>3, <2>1 DEF CallOK, AfterHead
<1>4. ASSUME NEW stage \in AfterHead \ {"update", "updating"},
             NEW h, new = [k EXCEPT !.head = h, !.stage = stage],
             k.reply # "ok",
             h = head \/ (h = k.head /\ k.stage \in AfterHead),
             stage \in {"blobs", "newtree", "commit"} => Managed(Tree(h)),
             stage = "commit" => Tree(h) # TreeOf(k.snapshot)
      PROVE  CallOK(p, new)
  <2>1. /\ new.stage = stage /\ new.head = h /\ new.snapshot = k.snapshot
        /\ new.answer = k.answer /\ new.reply = k.reply /\ new.held = k.held
    BY <1>4, ZenonT(30) DEF Call
  <2>2. OpenOK(new)
    BY <1>2, <2>1 DEF OpenOK
  <2>3. HeadOK(new)
    <3>1. CASE h = head
      BY <1>1, <1>2, <2>1, <3>1, ZenonT(30) DEF OpenOK, HeadOK
    <3>2. CASE h = k.head /\ k.stage \in AfterHead
      BY <2>1, <3>2 DEF CallOK, HeadOK
    <3> QED
      BY <1>4, <3>1, <3>2
  <2>4. stage # "idle" /\ stage \notin {"update", "updating"}
    BY DEF AfterHead, Stages
  <2>5. new.answer = "none"
    BY <2>2 DEF OpenOK
  <2> QED
    BY <1>4, <2>1, <2>2, <2>3, <2>4, <2>5 DEF CallOK
<1>5. \A stage : [k EXCEPT !.stage = stage] = [k EXCEPT !.head = k.head, !.stage = stage]
  BY ZenonT(30) DEF Call
<1>6. k.stage \in AfterHead => HeadOK(k)
  BY ZenonT(30) DEF CallOK
<1>7. k.reply = "ok" => /\ k.stage = "updating" /\ k.held
                        /\ k.commit \in History(head)
  BY DEF CallOK
<1>8. CASE k.stage = "head" /\ new = [k EXCEPT !.head = head, !.stage = "tree"]
  BY <1>4, <1>7, <1>8, ZenonT(30) DEF AfterHead, Stages
<1>9. CASE k.stage = "tree" /\ new = [k EXCEPT !.stage = "sentinel"]
  BY <1>4, <1>5, <1>7, <1>9, ZenonT(30) DEF AfterHead, Stages
<1>10. CASE /\ k.stage = "sentinel" /\ Managed(Tree(k.head))
            /\ new = [k EXCEPT !.stage = "blobs"]
  BY <1>4, <1>5, <1>7, <1>10, ZenonT(30) DEF AfterHead, Stages
<1>11. CASE k.stage = "blobs" /\ new = [k EXCEPT !.stage = "newtree"]
  <2>1. Managed(Tree(k.head))
    BY <1>11 DEF CallOK
  <2> QED
    BY <1>4, <1>5, <1>7, <1>11, <2>1, ZenonT(30) DEF AfterHead, Stages
<1>12. CASE /\ k.stage = "newtree" /\ Tree(k.head) # TreeOf(k.snapshot)
            /\ new = [k EXCEPT !.stage = "commit"]
  <2>1. Managed(Tree(k.head))
    BY <1>12 DEF CallOK
  <2> QED
    BY <1>4, <1>5, <1>7, <1>12, <2>1, ZenonT(30) DEF AfterHead, Stages
<1>13. CASE /\ k.stage \in {"newtree", "retree"} /\ Tree(k.head) = TreeOf(k.snapshot)
            /\ new = Returned(k, "unchanged", k.head)
  <2>1. k.stage \in AfterHead
    BY <1>13 DEF AfterHead, Stages
  <2>2. Tree(k.head).files = k.snapshot
    BY <1>13 DEF TreeOf
  <2> QED
    BY <1>3, <1>6, <1>13, <2>1, <2>2 DEF HeadOK
<1>14. CASE /\ k.stage = "updating" /\ k.reply = "ok"
            /\ new = Returned(k, "changed", k.commit)
  <2>1. CommitOK(p, k)
    BY <1>14 DEF CallOK
  <2> QED
    BY <1>3, <1>7, <1>14, <2>1, ZenonT(30) DEF CommitOK
<1>15. CASE /\ k.stage = "updating" /\ k.reply = "conflict"
            /\ new = [k EXCEPT !.stage = "rehead"]
  BY <1>4, <1>5, <1>15, ZenonT(30) DEF AfterHead, Stages
<1>16. CASE k.stage = "rehead" /\ new = [k EXCEPT !.head = head, !.stage = "retree"]
  BY <1>4, <1>7, <1>16, ZenonT(30) DEF AfterHead, Stages
<1>17. ASSUME NEW answer \in {"unsafe", "conflict", "failed"},
              new = Returned(k, answer, 0)
       PROVE  CallOK(p, new)
  BY <1>3, <1>17, ZenonT(30)
<1> QED
  BY <1>8, <1>9, <1>10, <1>11, <1>12, <1>13, <1>14, <1>15, <1>16,
     <1>17, ZenonT(30) DEF LocalTo

(* A call that has seen more.                                              *)
LEMMA CallSees ==
    ASSUME NEW p \in Callers, NEW k \in Call, CallOK(p, k), NEW new \in Call,
           SameCall(k, new), new.reply = k.reply,
           k.held => new.held, k.stage = "idle" => (new.held <=> k.held)
    PROVE  CallOK(p, new)
<1>1. k.stage = "idle" => new.held = k.held
  <2>1. new.held \in BOOLEAN /\ k.held \in BOOLEAN
    BY DEF Call
  <2> QED
    BY <2>1, Zenon
<1>2. k = NoCall => new = NoCall
  <2>1. SUFFICES ASSUME k = NoCall
                 PROVE  new = NoCall
    OBVIOUS
  <2>2. k.stage = "idle"
    BY <2>1 DEF NoCall
  <2>3. new.held = k.held
    BY <1>1, <2>2
  <2> QED
    BY <2>1, <2>3, ZenonT(30) DEF NoCall, SameCall, Call
<1>3. /\ new.stage = k.stage /\ new.snapshot = k.snapshot /\ new.head = k.head
      /\ new.commit = k.commit /\ new.answer = k.answer /\ new.sha = k.sha
  BY DEF SameCall
<1>4. OpenOK(k) => OpenOK(new)
  BY <1>3 DEF OpenOK
<1>5. HeadOK(k) => HeadOK(new)
  BY <1>3 DEF HeadOK
<1>6. CommitOK(p, k) => CommitOK(p, new)
  BY <1>3 DEF CommitOK
<1> QED
  BY <1>2, <1>3, <1>4, <1>5, <1>6 DEF CallOK

(* The step keeps what is known of the calls.                              *)
LEMMA CallsStep == PublisherInv /\ [Next]_vars => CallsOK'
<1> SUFFICES ASSUME PublisherInv, [Next]_vars, NEW p \in Callers
             PROVE  CallOK(p, call[p])'
  BY DEF CallsOK
<1>1. PICK k, new : k = call[p] /\ new = call'[p]
  BY ZenonT(30)
<1>2. SUFFICES CallOK(p, new)'
  BY <1>1, ZenonT(30) DEF CallOK, OpenOK, HeadOK, CommitOK
<1>3. Grows /\ TypeOK /\ k \in Call /\ CallOK(p, k) /\ call \in [Callers -> Call]
  BY <1>1, StepGrows, ZenonT(30) DEF PublisherInv, CallsOK, TypeOK
<1>4. k.stage # "idle" => OpenOK(k)
  BY <1>3 DEF CallOK
<1>5. ASSUME UNCHANGED <<commits, head, asked, ordered>>, CallOK(p, new)
      PROVE  CallOK(p, new)'
  <2>1. Tree(head)' = Tree(head)
    BY <1>5, ZenonT(30) DEF Tree
  <2>2. new.stage # "idle" => OpenOK(new)
    BY <1>5 DEF CallOK
  <2> QED
    BY <1>3, <1>5, <2>1, <2>2, CallKept DEF OpenOK
<1>6. CASE UNCHANGED vars \/ \E c \in inflight : LoseUpdate(c)
  BY <1>1, <1>3, <1>5, <1>6 DEF vars, LoseUpdate, history
<1>7. ASSUME NEW q \in Callers, Local(q)
      PROVE  CallOK(p, new)'
  <2>1. /\ UNCHANGED <<commits, head, asked, ordered>>
        /\ \E next : LocalTo(call[q], next) /\ call' = [call EXCEPT ![q] = next]
    BY <1>3, <1>7, LocalStep
  <2>2. new = k \/ LocalTo(k, new)
    BY <1>1, <1>3, <2>1
  <2> QED
    BY <1>3, <1>5, <2>1, <2>2, CallMoves
<1>8. ASSUME NEW q \in Callers, SendUpdate(q)
      PROVE  CallOK(p, new)'
  <2>1. /\ UNCHANGED <<commits, head, asked, ordered>>
        /\ new = k \/ (k.stage = "update" /\ new = [k EXCEPT !.stage = "updating"])
    BY <1>1, <1>3, <1>8, ZenonT(30) DEF SendUpdate, Goto, history
  <2>2. ASSUME k.stage = "update", new = [k EXCEPT !.stage = "updating"]
        PROVE  CallOK(p, new)
    <3>1. /\ new.stage = "updating" /\ new.head = k.head /\ new.snapshot = k.snapshot
          /\ new.answer = k.answer /\ new.reply = k.reply /\ new.held = k.held
          /\ new.commit = k.commit
      BY <1>3, <2>2 DEF Call
    <3>2. OpenOK(new) /\ new.answer = "none"
      BY <1>4, <2>2, <3>1 DEF OpenOK
    <3>3. HeadOK(new) /\ CommitOK(p, new) /\ new.reply # "ok"
      BY <1>3, <2>2, <3>1 DEF CallOK, HeadOK, CommitOK, AfterHead, Stages
    <3> QED
      BY <3>1, <3>2, <3>3 DEF CallOK
  <2> QED
    BY <1>3, <1>5, <2>1, <2>2
<1>9. ASSUME NEW q \in Callers, NEW s \in Snapshots \cup Invalid, Publish(q, s)
      PROVE  CallOK(p, new)'
  <2>1. /\ UNCHANGED <<commits, head>>
        /\ ordered' => /\ \A a \in asked : s >= a
                       /\ k.stage = "idle"
    BY <1>1, <1>9 DEF Publish, GitHub
  <2>2. Tree(head)' = Tree(head)
    BY <2>1 DEF Tree
  <2>3. CASE new = k
    BY <1>3, <1>4, <2>1, <2>2, <2>3, CallKept, ZenonT(30) DEF OpenOK
  <2>4. CASE new = [NoCall EXCEPT !.snapshot = s, !.answer = "failed"]
    <3>1. new.stage = "idle" /\ new.answer = "failed" /\ new.reply = "none"
      BY <2>4, ZenonT(30) DEF NoCall
    <3> QED
      BY <3>1 DEF CallOK, AfterHead
  <2>5. CASE /\ s \notin Invalid
             /\ new = [NoCall EXCEPT !.stage = "head", !.snapshot = s,
                                     !.held = Tree(head).files = s]
             /\ asked' = asked \cup {s}
    <3>1. /\ new.stage = "head" /\ new.answer = "none" /\ new.reply = "none"
          /\ new.snapshot = s
      BY <2>5 DEF NoCall
    <3>2. new.held = (Tree(head).files = s)
      BY <2>5 DEF NoCall
    <3>3. Tree(head)'.files = s => new.held
      BY <2>2, <3>2, Zenon
    <3>4. ordered' => \A a \in asked' : a <= s
      <4>1. s \in Nat
        BY <2>5, PublisherAssumption
      <4>2. \A a \in asked : a \in Nat
        BY <1>3, PublisherAssumption, ZenonT(30) DEF TypeOK
      <4> QED
        BY <2>1, <2>5, <4>1, <4>2
    <3>5. OpenOK(new)'
      BY <2>5, <3>1, <3>3, <3>4 DEF OpenOK
    <3> QED
      BY <3>1, <3>5 DEF CallOK, AfterHead
  <2>6. \/ new = k
        \/ new = [NoCall EXCEPT !.snapshot = s, !.answer = "failed"]
        \/ /\ s \notin Invalid
           /\ new = [NoCall EXCEPT !.stage = "head", !.snapshot = s,
                                   !.held = Tree(head).files = s]
           /\ asked' = asked \cup {s}
    BY <1>1, <1>3, <1>9 DEF Publish, Refused
  <2> QED
    BY <2>3, <2>4, <2>5, <2>6
<1>10. ASSUME NEW q \in Callers, CreateCommit(q)
       PROVE  CallOK(p, new)'
  <2>1. PICK n : n = Len(commits) + 1
    OBVIOUS
  <2>2. /\ UNCHANGED <<head, asked, ordered>>
        /\ \/ new = k
           \/ /\ k.stage = "commit" /\ q = p
              /\ \/ new = [k EXCEPT !.stage = "update", !.commit = n]
                 \/ new = Returned(k, "failed", 0)
    BY <1>1, <1>3, <1>10, <2>1, ZenonT(30) DEF CreateCommit, Return, history
  <2>3. Tree(head)' = Tree(head)
    BY <1>3, <2>2, Numbers DEF Tree, Grows
  <2>4. ASSUME CallOK(p, new)
        PROVE  CallOK(p, new)'
    <3>1. new.stage # "idle" => OpenOK(new)
      BY <2>4 DEF CallOK
    <3> QED
      BY <1>3, <2>2, <2>3, <2>4, <3>1, CallKept, ZenonT(30) DEF OpenOK
  <2>5. CASE new = k
    BY <1>3, <2>4, <2>5
  <2>6. CASE k.stage = "commit" /\ new = Returned(k, "failed", 0)
    <3>1. LocalTo(k, new)
      BY <2>6, ZenonT(30) DEF LocalTo
    <3> QED
      BY <1>3, <2>4, <3>1, CallMoves
  <2>7. CASE /\ k.stage = "commit" /\ q = p
             /\ new = [k EXCEPT !.stage = "update", !.commit = n]
    <3>1. /\ new.stage = "update" /\ new.head = k.head /\ new.snapshot = k.snapshot
          /\ new.answer = k.answer /\ new.reply = k.reply /\ new.held = k.held
          /\ new.commit = n
      BY <1>3, <2>7 DEF Call
    <3>2. CallOK(p, k)'
      BY <1>3, <1>4, <2>2, <2>3, CallKept DEF OpenOK
    <3>3. OpenOK(k)' /\ HeadOK(k)' /\ k.reply # "ok"
      BY <2>7, <3>2 DEF CallOK, AfterHead, Stages
    <3>4. OpenOK(new)' /\ HeadOK(new)'
      BY <3>1, <3>3 DEF OpenOK, HeadOK
    <3>5. n \in Ours'
      BY <1>3, <1>10, <2>1, NewCommit
    <3>6. commits'[n].tree = TreeOf(k.snapshot) /\ commits'[n].by = p
      <4>1. commits' = Append(commits, Child(TreeOf(k.snapshot), k.head, p))
        BY <1>1, <1>10, <2>7 DEF CreateCommit
      <4>2. k.head \in DOMAIN commits
        BY <1>1, <2>7, Numbers DEF AfterHead, Stages
      <4>3. k.snapshot \in Snapshots
        BY <1>3, <1>4, <2>7 DEF OpenOK, TypeOK
      <4> QED
        BY <2>1, <4>1, <4>2, <4>3, Appended
    <3>7. CommitOK(p, new)'
      BY <3>1, <3>5, <3>6 DEF CommitOK, Tree
    <3>8. new.answer = "none"
      BY <3>4, ZenonT(30) DEF OpenOK
    <3> QED
      BY <3>1, <3>3, <3>4, <3>7, <3>8 DEF CallOK
  <2> QED
    BY <2>2, <2>5, <2>6, <2>7
<1>11. ASSUME NEW t \in Foreign, Push(t)
       PROVE  CallOK(p, new)'
  <2>1. /\ commits' = Append(commits, Child(t, head, "other"))
        /\ head' = Len(commits) + 1
        /\ new = Seen(k, t)
        /\ UNCHANGED <<asked, ordered>>
    BY <1>1, <1>3, <1>11, ZenonT(30) DEF Push, history
  <2>2. Tree(head)' = t
    BY <2>1, Numbers, Appended DEF Tree
  <2>3. /\ new \in Call /\ SameCall(k, new) /\ new.reply = k.reply
        /\ new.held <=> k.held \/ (k.stage # "idle" /\ t.files = k.snapshot)
    BY <1>3, <2>1, SeenType, Zenon
  <2>4. new.stage = k.stage /\ new.snapshot = k.snapshot
    BY <2>3 DEF SameCall
  <2>5. CallOK(p, new)
    BY <1>3, <2>3, CallSees
  <2> QED
    BY <1>3, <2>1, <2>2, <2>3, <2>4, <2>5, CallKept
<1>12. ASSUME NEW c \in inflight, HandleUpdate(c)
       PROVE  CallOK(p, new)'
  <2>1. /\ UNCHANGED <<commits, asked, ordered>>
        /\ \/ FastForward(c) /\ head' = c
           \/ ~FastForward(c) /\ head' = head
        /\ call' \in [Callers -> Call]
        /\ SameCall(k, new)
        /\ \/ new.reply = k.reply
           \/ /\ k.stage = "updating" /\ k.commit = c
              /\ new.reply = IF FastForward(c) THEN "ok" ELSE "conflict"
        /\ new.held <=> k.held \/ (k.stage # "idle" /\ Tree(head').files = k.snapshot)
    BY <1>1, <1>3, <1>12, HandleStep
  <2>2. new \in Call
    BY <1>1, <2>1
  <2>3. Tree(head)' = Tree(head')
    BY <2>1 DEF Tree
  <2>4. PICK mid : mid = [new EXCEPT !.reply = k.reply]
    BY ZenonT(30)
  <2>5. /\ mid \in Call /\ SameCall(k, mid) /\ mid.reply = k.reply
        /\ mid.held = new.held /\ SameCall(new, mid)
    BY <1>3, <2>1, <2>2, <2>4, ZenonT(30) DEF Call, SameCall
  <2>6. CallOK(p, mid)
    BY <1>3, <2>1, <2>5, CallSees
  <2>7. mid.stage = k.stage /\ mid.snapshot = k.snapshot /\ mid.commit = k.commit
    BY <2>5, ZenonT(30) DEF SameCall
  <2>8. CallOK(p, mid)'
    BY <1>3, <2>1, <2>3, <2>5, <2>6, <2>7, CallKept
  <2>9. CASE new.reply = k.reply
    <3>1. new = mid
      BY <2>2, <2>4, <2>9, ZenonT(30) DEF Call
    <3> QED
      BY <2>8, <3>1
  <2>10. CASE /\ k.stage = "updating" /\ k.commit = c
              /\ new.reply = IF FastForward(c) THEN "ok" ELSE "conflict"
    <3>1. OpenOK(mid)' /\ HeadOK(mid)' /\ CommitOK(p, mid)'
      BY <2>7, <2>8, <2>10, ZenonT(30) DEF CallOK, AfterHead, Stages
    <3>2. /\ new.stage = "updating" /\ new.snapshot = mid.snapshot
          /\ new.head = mid.head /\ new.commit = mid.commit
          /\ new.answer = mid.answer /\ new.sha = mid.sha /\ new.held = mid.held
      BY <2>5, <2>7, <2>10, ZenonT(30) DEF SameCall
    <3>3. OpenOK(new)' /\ HeadOK(new)' /\ CommitOK(p, new)'
      BY <3>1, <3>2 DEF OpenOK, HeadOK, CommitOK
    <3>4. new.answer = "none"
      BY <3>3 DEF OpenOK
    <3>5. ASSUME new.reply = "ok"
          PROVE  new.held /\ new.commit \in History(head)'
      <4>1. head' = c /\ new.commit = c
        BY <2>1, <2>7, <2>10, <3>2, <3>5
      <4>2. Tree(c)' = TreeOf(new.snapshot)
        BY <3>3, <4>1 DEF CommitOK
      <4>3. Tree(head)'.files = new.snapshot
        BY <4>1, <4>2 DEF Tree, TreeOf
      <4>4. new.held
        BY <3>3, <4>3 DEF OpenOK
      <4>5. c \in History(c)
        BY DEF PublisherInv, CommitsOK, HistoryOK, Ours
      <4> QED
        BY <2>1, <4>1, <4>4, <4>5 DEF History
    <3> QED
      BY <3>2, <3>3, <3>4, <3>5, ZenonT(30) DEF CallOK
  <2> QED
    BY <2>1, <2>9, <2>10, ZenonT(30)
<1> QED
  BY <1>6, <1>7, <1>8, <1>9, <1>10, <1>11, <1>12, StepCases

-----------------------------------------------------------------------------
(* The invariant holds.                                                    *)
LEMMA InitInv == Init => PublisherInv
<1> SUFFICES ASSUME Init
             PROVE  PublisherInv
  OBVIOUS
<1>1. PICK t \in Foreign :
        commits = <<[tree |-> t, parent |-> 0, by |-> "other", history |-> {1}]>>
  BY ZenonT(30) DEF Init
<1>2. /\ head = 1 /\ inflight = {} /\ asked = {} /\ ordered = TRUE /\ faults = 0
      /\ call = [p \in Callers |-> NoCall]
  BY DEF Init
<1>3. /\ Len(commits) = 1 /\ DOMAIN commits = {1}
      /\ commits[1].tree = t /\ commits[1].parent = 0
      /\ commits[1].by = "other" /\ commits[1].history = {1}
  BY <1>1
<1>4. commits \in Seq(Commit)
  <2>1. [tree |-> t, parent |-> 0, by |-> "other", history |-> {1}] \in Commit
    BY DEF Commit
  <2> QED
    BY <1>1, <2>1
<1>5. TypeOK
  <2>1. NoCall \in Call
    BY <1>3 DEF NoCall, Call, Stages, Answers
  <2> QED
    BY <1>2, <1>3, <1>4, <2>1, PublisherAssumption DEF TypeOK
<1>6. Ours = {}
  BY <1>3, PublisherAssumption DEF Ours
<1>7. CommitsOK
  BY <1>2, <1>3, <1>6 DEF CommitsOK, HistoryOK, History, Tree
<1>8. CallsOK
  BY <1>2 DEF CallsOK, CallOK, NoCall, AfterHead
<1> QED
  BY <1>5, <1>7, <1>8 DEF PublisherInv

LEMMA InvariantHolds == Spec => []PublisherInv
<1>1. PublisherInv /\ [Next]_vars => PublisherInv'
  BY TypeStep, CommitsStep, CallsStep DEF PublisherInv
<1> QED
  BY <1>1, InitInv, PTL DEF Spec

(* For any number of publishers, in whatever order their requests, replies *)
(* and failures come and whatever others push: a call that succeeds had    *)
(* its snapshot on the branch, under the SHA that it returns, and no       *)
(* publisher's commit on the branch repeats the tree below it.             *)
THEOREM AnswersAreTrue == Spec => []PublicationHonest
<1>1. PublisherInv => PublicationHonest
  <2> SUFFICES ASSUME PublisherInv
               PROVE  PublicationHonest
    OBVIOUS
  <2>1. TypeOK
    BY ZenonT(30) DEF PublisherInv
  <2>2. ResultTrue
    BY ZenonT(30) DEF PublisherInv, CallsOK, CallOK, ResultTrue
  <2>3. NoEmptyCommit
    BY ZenonT(30) DEF PublisherInv, CommitsOK, OursOK, NoEmptyCommit
  <2> QED
    BY <2>1, <2>2, <2>3 DEF PublicationHonest
<1> QED
  BY <1>1, InvariantHolds, PTL

-----------------------------------------------------------------------------
(* The branch.                                                             *)

(* A publisher's commit comes to the branch on top of the commit that it   *)
(* was made on: the branch has that commit, and a fast-forward leaves no   *)
(* other between them.                                                     *)
LEMMA UpdateFollows ==
    ASSUME PublisherInv, NEW c \in inflight, FastForward(c), c # head
    PROVE  c \in Ours /\ OursOK(c) /\ commits[c].parent = head
<1>1. c \in Ours /\ OursOK(c)
  BY DEF PublisherInv, CommitsOK
<1>2. PICK b : b = commits[c].parent
  BY ZenonT(30)
<1>3. b \in History(head) /\ History(c) = {c} \cup History(b)
  BY <1>1, <1>2 DEF OursOK
<1>4. head \in History(b)
  BY <1>3 DEF FastForward
<1>5. b \in DOMAIN commits /\ head \in DOMAIN commits
  BY <1>3, Numbers
<1>6. History(b) \subseteq 1..b /\ History(head) \subseteq 1..head
  BY <1>5 DEF PublisherInv, CommitsOK, HistoryOK
<1>7. head \in 1..b /\ b \in 1..head
  BY <1>3, <1>4, <1>6
<1>8. b \in Nat /\ head \in Nat
  BY <1>5, Numbers
<1>9. b = head
  BY <1>7, <1>8
<1> QED
  BY <1>1, <1>2, <1>9

(* As long as the calls come one after the other and none goes back to an  *)
(* older snapshot, a publisher's update of the branch brings a newer one,  *)
(* also if it arrives after its caller gave up.                            *)
THEOREM BranchAdvances == Spec => NoRegression
<1>1. PublisherInv /\ [Next]_vars => [NoRegressionStep]_vars
  <2> SUFFICES ASSUME PublisherInv, [Next]_vars, ordered, head' # head, head' \in Ours
               PROVE  Tree(head').files > Tree(head).files
    BY DEF NoRegressionStep
  <2>0. TypeOK
    BY DEF PublisherInv
  <2>1. ASSUME NEW c \in inflight, HandleUpdate(c)
        PROVE  Tree(head').files > Tree(head).files
    <3>1. FastForward(c) /\ head' = c
      BY <2>1 DEF HandleUpdate
    <3>2. OursOK(c) /\ commits[c].parent = head /\ c \in Ours
      BY <3>1, UpdateFollows
    <3>3. Tree(head).files < Tree(c).files
      BY <3>2 DEF OursOK
    <3>4. Tree(head).files \in Nat /\ Tree(c).files \in Nat
      <4>1. ASSUME NEW d \in DOMAIN commits
            PROVE  Tree(d).files \in Nat
        <5>1. Tree(d) \in Foreign \cup {TreeOf(s) : s \in Snapshots}
          BY Numbers DEF Tree, Commit
        <5>2. CASE Tree(d) \in Foreign
          BY <5>2, PublisherAssumption
        <5>3. ASSUME NEW s \in Snapshots, Tree(d) = TreeOf(s)
              PROVE  Tree(d).files \in Nat
          BY <5>3, PublisherAssumption DEF TreeOf
        <5> QED
          BY <5>1, <5>2, <5>3
      <4> QED
        BY <3>2, <4>1, Numbers
    <3> QED
      BY <3>1, <3>3, <3>4
  <2>2. ASSUME NEW t \in Foreign, Push(t)
        PROVE  FALSE
    <3>1. head' = Len(commits) + 1
      BY <2>2 DEF Push
    <3> QED
      BY <3>1, Numbers
  <2>3. ASSUME NEW p \in Callers, Local(p)
        PROVE  FALSE
    BY <2>0, <2>3, LocalStep, ZenonT(30)
  <2>4. ASSUME NEW p \in Callers,
               \/ \E s \in Snapshots \cup Invalid : Publish(p, s)
               \/ CreateCommit(p) \/ SendUpdate(p)
        PROVE  FALSE
    BY <2>4, ZenonT(30) DEF Publish, CreateCommit, SendUpdate, GitHub
  <2>5. ASSUME NEW c \in inflight, LoseUpdate(c)
        PROVE  FALSE
    BY <2>5 DEF LoseUpdate
  <2>6. CASE UNCHANGED vars
    BY <2>6 DEF vars
  <2> QED
    BY <2>1, <2>2, <2>3, <2>4, <2>5, <2>6, StepCases
<1> QED
  BY <1>1, InvariantHolds, PTL DEF Spec, NoRegression

-----------------------------------------------------------------------------
(* The refinement.                                                         *)

(* What PublicationTarget sees of a call.                                  *)
LEMMA ViewOpen ==
    ASSUME PublisherInv, NEW p \in Callers, NEW k, k = call[p]
    PROVE  /\ k.stage # "idle" =>
                 /\ k.snapshot \in Snapshots /\ k.snapshot # 0
                 /\ View(k) = [snapshot |-> k.snapshot, held |-> k.held,
                               answer |-> "none"]
           /\ Target!Open(p) <=> k.stage # "idle"
<1>1. k \in Call /\ CallOK(p, k) /\ asked \subseteq Snapshots
  BY DEF PublisherInv, TypeOK, CallsOK
<1>2. Target!Open(p) <=> View(k).snapshot # 0 /\ View(k).answer = "none"
  BY DEF Target!Open
<1>3. ASSUME k.stage # "idle"
      PROVE  /\ k.snapshot \in Snapshots /\ k.snapshot # 0
             /\ View(k) = [snapshot |-> k.snapshot, held |-> k.held,
                           answer |-> "none"]
  <2>1. k.snapshot \in Snapshots /\ k.answer = "none"
    BY <1>1, <1>3 DEF CallOK, OpenOK
  <2>2. k.snapshot # 0 /\ k.snapshot \notin Invalid
    BY <2>1, PublisherAssumption
  <2> QED
    BY <2>1, <2>2, ZenonT(30) DEF View, Answered
<1>4. ASSUME k.stage = "idle"
      PROVE  ~(View(k).snapshot # 0 /\ View(k).answer = "none")
  <2>1. CASE k.snapshot \in Invalid
    BY <2>1, ZenonT(30) DEF View
  <2>2. CASE k.snapshot \notin Invalid /\ k.answer = "none"
    BY <1>1, <1>4, <2>2 DEF CallOK, View, NoCall
  <2>3. CASE k.snapshot \notin Invalid /\ k.answer # "none"
    BY <2>3 DEF View, Answered
  <2> QED
    BY <2>1, <2>2, <2>3
<1> QED
  BY <1>2, <1>3, <1>4

(* A call that returns answers in the target.                              *)
LEMMA ReturnAnswers ==
    ASSUME PublisherInv, NEW p \in Callers, NEW answer, NEW sha, NEW new,
           call[p].stage # "idle",
           new = Returned(call[p], answer, sha),
           \/ answer \in {"unsafe", "conflict", "failed"}
           \/ answer \in {"changed", "unchanged"} /\ call[p].held,
           call' = [call EXCEPT ![p] = new],
           Tree(head)' = Tree(head), asked' = asked
    PROVE  Target!Next
<1>1. PICK k : k = call[p]
  OBVIOUS
<1>2. PICK ok : ok = IF answer \in {"changed", "unchanged"} THEN "ok" ELSE "failed"
  OBVIOUS
<1>3. /\ k.snapshot \in Snapshots
      /\ View(k) = [snapshot |-> k.snapshot, held |-> k.held, answer |-> "none"]
      /\ Target!Open(p)
  BY <1>1, ViewOpen
<1>4. /\ new.snapshot = k.snapshot /\ new.held = k.held /\ new.answer = answer
  BY <1>1, ZenonT(30) DEF Returned, NoCall
<1>5. View(new) = [snapshot |-> k.snapshot, held |-> k.held, answer |-> ok]
  <2>1. k.snapshot \notin Invalid
    BY <1>3, PublisherAssumption
  <2>2. Answered(new) = ok
    BY <1>2, <1>4 DEF Answered
  <2> QED
    BY <1>4, <2>1, <2>2 DEF View
<1>6. View(new) = [View(k) EXCEPT !.answer = ok]
  BY <1>3, <1>5
<1>7. call \in [Callers -> Call]
  BY DEF PublisherInv, TypeOK
<1>8. [q \in Callers |-> View(call'[q])]
        = [[q \in Callers |-> View(call[q])] EXCEPT ![p].answer = ok]
  BY <1>1, <1>6, <1>7, ZenonT(30)
<1>9. ok = "ok" => [q \in Callers |-> View(call[q])][p].held
  BY <1>1, <1>2, <1>3
<1>10. Content(Tree(head))' = Content(Tree(head))
  BY DEF Content, Managed
<1>11. Target!Answer(p, ok)
  BY <1>3, <1>8, <1>9, <1>10 DEF Target!Answer
<1> QED
  BY <1>2, <1>11 DEF Target!Next

(* A call that moves on without returning is not seen.                     *)
LEMMA MoveIsStutter ==
    ASSUME PublisherInv, NEW p \in Callers, NEW new,
           new.snapshot = call[p].snapshot, new.held = call[p].held,
           new.answer = call[p].answer,
           call' = [call EXCEPT ![p] = new],
           Tree(head)' = Tree(head), asked' = asked
    PROVE  UNCHANGED Target!vars
<1>1. View(new) = View(call[p])
  BY DEF View, Answered
<1>2. call \in [Callers -> Call]
  BY DEF PublisherInv, TypeOK
<1>3. [q \in Callers |-> View(call'[q])] = [q \in Callers |-> View(call[q])]
  BY <1>1, <1>2
<1>4. Content(Tree(head))' = Content(Tree(head))
  BY DEF Content, Managed
<1> QED
  BY <1>3, <1>4 DEF Target!vars

(* Open calls that see a tree on the branch.                               *)
LEMMA ViewSees ==
    ASSUME PublisherInv, NEW p \in Callers, NEW k, k = call[p], NEW new \in Call,
           NEW files, SameCall(k, new),
           new.held <=> k.held \/ (k.stage # "idle" /\ files = k.snapshot)
    PROVE  View(new) = [View(k) EXCEPT
                          !.held = @ \/ (Target!Open(p) /\ files = View(k).snapshot)]
<1>1. k \in Call
  BY DEF PublisherInv, TypeOK
<1>2. k.held \in BOOLEAN /\ new.held \in BOOLEAN
  BY <1>1 DEF Call
<1>3. new.snapshot = k.snapshot /\ new.answer = k.answer /\ new.stage = k.stage
  BY DEF SameCall
<1>4. Answered(new) = Answered(k)
  BY <1>3 DEF Answered
<1>5. CASE k.stage = "idle"
  <2>1. new.held = k.held
    BY <1>2, <1>5, Zenon
  <2>2. View(new) = View(k)
    BY <1>3, <1>4, <2>1 DEF View
  <2>3. ~Target!Open(p)
    BY <1>5, ViewOpen
  <2>4. View(k).held \in BOOLEAN
    BY <1>2, ZenonT(30) DEF View
  <2>5. View(k).held = (View(k).held \/ (Target!Open(p) /\ files = View(k).snapshot))
    BY <2>3, <2>4, Zenon
  <2>6. View(k) = [View(k) EXCEPT !.held = View(k).held]
    BY ZenonT(30) DEF View
  <2> QED
    BY <2>2, <2>5, <2>6, Zenon
<1>6. CASE k.stage # "idle"
  <2>1. /\ View(k) = [snapshot |-> k.snapshot, held |-> k.held, answer |-> "none"]
        /\ Target!Open(p)
        /\ k.snapshot \in Snapshots
    BY <1>6, ViewOpen, ZenonT(30)
  <2>2. View(k).held = k.held /\ View(k).snapshot = k.snapshot
    BY <2>1
  <2>3. Answered(k) = "none" /\ k.snapshot \notin Invalid
    <3>1. k.snapshot \notin Invalid
      BY <2>1, PublisherAssumption
    <3>2. View(k).answer = Answered(k)
      BY <3>1 DEF View
    <3> QED
      BY <2>1, <3>1, <3>2
  <2>4. View(new) = [snapshot |-> k.snapshot, held |-> new.held, answer |-> "none"]
    BY <1>3, <1>4, <2>3 DEF View
  <2>5. new.held = (View(k).held \/ (Target!Open(p) /\ files = View(k).snapshot))
    BY <1>2, <1>6, <2>1, <2>2, Zenon
  <2>6. View(new) = [View(k) EXCEPT !.held = new.held]
    BY <2>1, <2>4
  <2> QED
    BY <2>5, <2>6, Zenon
<1> QED
  BY <1>5, <1>6

(* An update of a publisher that moves the branch is a Take.               *)
LEMMA UpdateRefines ==
    ASSUME PublisherInv, NEW c \in inflight, HandleUpdate(c)
    PROVE  Target!Next \/ UNCHANGED Target!vars
<1>0. TypeOK /\ call \in [Callers -> Call]
  BY DEF PublisherInv, TypeOK
<1>1. /\ UNCHANGED <<commits, asked>>
      /\ \/ FastForward(c) /\ head' = c
         \/ ~FastForward(c) /\ head' = head
  BY DEF HandleUpdate, history
<1>2. ASSUME NEW p \in Callers
      PROVE  /\ call'[p] \in Call /\ SameCall(call[p], call'[p])
             /\ call'[p].held <=>
                  \/ call[p].held
                  \/ call[p].stage # "idle" /\ Tree(head').files = call[p].snapshot
  <2>1. PICK k, new : k = call[p] /\ new = call'[p]
    BY ZenonT(30)
  <2>2. /\ call' \in [Callers -> Call] /\ SameCall(k, new)
        /\ new.held <=> \/ k.held
                        \/ k.stage # "idle" /\ Tree(head').files = k.snapshot
    BY <1>0, <2>1, HandleStep
  <2> QED
    BY <2>1, <2>2
<1>3. CASE head' = head
  <2>1. ASSUME NEW p \in Callers
        PROVE  View(call'[p]) = View(call[p])
    <3>1. PICK k, new : k = call[p] /\ new = call'[p]
      OBVIOUS
    <3>2. /\ new \in Call /\ k \in Call /\ SameCall(k, new)
          /\ new.held <=> k.held \/ (k.stage # "idle" /\ Tree(head).files = k.snapshot)
      BY <1>0, <1>2, <1>3, <3>1, ZenonT(30)
    <3>3. k.stage # "idle" /\ Tree(head).files = k.snapshot => k.held
      BY <3>1 DEF PublisherInv, CallsOK, CallOK, OpenOK
    <3>4. k.held \in BOOLEAN /\ new.held \in BOOLEAN
      BY <3>2 DEF Call
    <3>5. new.held = k.held
      BY <3>2, <3>3, <3>4, Zenon
    <3>6. new.snapshot = k.snapshot /\ new.answer = k.answer
      BY <3>2 DEF SameCall
    <3>7. View(new) = View(k)
      BY <3>5, <3>6 DEF View, Answered
    <3> QED
      BY <3>1, <3>7
  <2>2. [p \in Callers |-> View(call'[p])] = [p \in Callers |-> View(call[p])]
    BY <2>1
  <2>3. Content(Tree(head))' = Content(Tree(head))
    BY <1>1, <1>3 DEF Content, Tree, Managed
  <2> QED
    BY <1>1, <2>2, <2>3 DEF Target!vars
<1>4. CASE head' # head
  <2>1. FastForward(c) /\ head' = c /\ c # head
    BY <1>1, <1>4
  <2>2. OursOK(c) /\ commits[c].parent = head
    BY <2>1, UpdateFollows
  <2>3. Managed(Tree(head))
    BY <2>2, ZenonT(30) DEF OursOK
  <2>4. PICK s \in asked : Tree(c) = TreeOf(s)
    BY <2>2 DEF OursOK
  <2>5. Content(Tree(head))' = [managed |-> TRUE, files |-> s]
    <3>1. Tree(head)' = TreeOf(s)
      BY <1>1, <2>1, <2>4 DEF Tree
    <3>2. TreeOf(s).files = s /\ TreeOf(s).sentinel = "ok"
      BY DEF TreeOf
    <3>3. (TreeOf(s).sentinel = "ok") = TRUE
      BY <3>2, Zenon
    <3>4. Content(TreeOf(s)) = [managed |-> TRUE, files |-> s]
      BY <3>2, <3>3, Zenon DEF Content, Managed
    <3>5. Content(Tree(head))' = Content(TreeOf(s))
      BY <3>1, Zenon DEF Content, Managed
    <3> QED
      BY <3>4, <3>5
  <2>6. Content(Tree(head)).managed
    BY <2>3 DEF Content
  <2>7. ASSUME NEW p \in Callers
        PROVE  View(call'[p]) =
                 [View(call[p]) EXCEPT
                    !.held = @ \/ (Target!Open(p) /\ s = View(call[p]).snapshot)]
    <3>1. PICK k, new : k = call[p] /\ new = call'[p]
      OBVIOUS
    <3>2. Tree(head').files = s
      BY <2>1, <2>4 DEF TreeOf
    <3>3. /\ new \in Call /\ SameCall(k, new)
          /\ new.held <=> k.held \/ (k.stage # "idle" /\ s = k.snapshot)
      BY <1>2, <3>1, <3>2
    <3> QED
      BY <3>1, <3>3, ViewSees
  <2>8. [p \in Callers |-> View(call'[p])] = Target!Seen([managed |-> TRUE, files |-> s])
    BY <2>7 DEF Target!Seen
  <2>9. Target!Take
    BY <1>1, <2>4, <2>5, <2>6, <2>8 DEF Target!Take
  <2> QED
    BY <2>9 DEF Target!Next
<1> QED
  BY <1>3, <1>4

(* A push by others is seen as one.                                        *)
LEMMA PushRefines ==
    ASSUME PublisherInv, NEW t \in Foreign, Push(t)
    PROVE  Target!Next
<1>1. /\ commits' = Append(commits, Child(t, head, "other"))
      /\ head' = Len(commits) + 1
      /\ call' = [p \in Callers |-> Seen(call[p], t)]
      /\ asked' = asked
  BY ZenonT(30) DEF Push, history
<1>2. Tree(head)' = t
  BY <1>1, Numbers, Appended, ZenonT(30) DEF Tree
<1>3. call \in [Callers -> Call]
  BY DEF PublisherInv, TypeOK
<1>4. ASSUME NEW p \in Callers
      PROVE  View(call'[p]) =
               [View(call[p]) EXCEPT
                  !.held = @ \/ (Target!Open(p) /\ t.files = View(call[p]).snapshot)]
  <2>1. PICK k, new : k = call[p] /\ new = call'[p]
    OBVIOUS
  <2>2. new = Seen(k, t) /\ k \in Call
    BY <1>1, <1>3, <2>1
  <2>3. /\ new \in Call /\ SameCall(k, new)
        /\ new.held <=> k.held \/ (k.stage # "idle" /\ t.files = k.snapshot)
    BY <2>2, SeenType, Zenon
  <2>4. PICK files : files = t.files
    OBVIOUS
  <2>5. View(new) = [View(k) EXCEPT
                       !.held = @ \/ (Target!Open(p) /\ files = View(k).snapshot)]
    BY <2>1, <2>3, <2>4, ViewSees
  <2> QED
    BY <2>1, <2>4, <2>5
<1>5. Content(t).files = t.files
  BY DEF Content
<1>6. [p \in Callers |-> View(call'[p])] = Target!Seen(Content(t))
  BY <1>4, <1>5, ZenonT(30) DEF Target!Seen
<1>7. Content(Tree(head))' = Content(t)
  BY <1>2 DEF Content, Managed
<1>8. Target!Outside
  BY <1>1, <1>6, <1>7 DEF Target!Outside
<1> QED
  BY <1>8 DEF Target!Next

(* Every step is a step of PublicationTarget, or none.                     *)
LEMMA StepRefines ==
    ASSUME PublisherInv, [Next]_vars
    PROVE  [Target!Next]_(Target!vars)
<1>0. Grows /\ TypeOK /\ call \in [Callers -> Call]
  BY StepGrows DEF PublisherInv, TypeOK
<1>1. head' = head => Tree(head)' = Tree(head)
  BY <1>0, Numbers DEF Grows, Tree
<1>2. CASE UNCHANGED vars
  BY <1>2 DEF vars, Target!vars, Content, Tree, Managed
<1>3. ASSUME NEW p \in Callers, Local(p)
      PROVE  Target!Next \/ UNCHANGED Target!vars
  <2>1. PICK k : k = call[p]
    OBVIOUS
  <2>2. UNCHANGED <<head, asked>>
    BY <1>0, <1>3, LocalStep
  <2>3. PICK new : LocalTo(k, new) /\ call' = [call EXCEPT ![p] = new]
    BY <1>0, <1>3, <2>1, LocalStep
  <2>4. k \in Call /\ CallOK(p, k)
    BY <1>0, <2>1 DEF PublisherInv, CallsOK
  <2>5. ASSUME NEW answer, NEW sha, new = Returned(k, answer, sha), k.stage # "idle",
               \/ answer \in {"unsafe", "conflict", "failed"}
               \/ answer \in {"changed", "unchanged"} /\ k.held
        PROVE  Target!Next
    BY <1>1, <2>1, <2>2, <2>3, <2>5, ReturnAnswers, ZenonT(30)
  <2>6. ASSUME new.snapshot = k.snapshot, new.held = k.held, new.answer = k.answer
        PROVE  UNCHANGED Target!vars
    BY <1>1, <2>1, <2>2, <2>3, <2>6, MoveIsStutter, ZenonT(30)
  <2>7. CASE /\ k.stage \in {"newtree", "retree"}
             /\ Tree(k.head) = TreeOf(k.snapshot)
             /\ new = Returned(k, "unchanged", k.head)
    <3>1. Tree(k.head).files = k.snapshot
      BY <2>7 DEF TreeOf
    <3>2. HeadOK(k)
      BY <2>4, <2>7 DEF CallOK, AfterHead, Stages
    <3> QED
      BY <2>5, <2>7, <3>1, <3>2 DEF HeadOK
  <2>8. CASE /\ k.stage = "updating" /\ k.reply = "ok"
             /\ new = Returned(k, "changed", k.commit)
    <3>1. k.held
      BY <2>4, <2>8 DEF CallOK
    <3> QED
      BY <2>5, <2>8, <3>1, ZenonT(30)
  <2>9. CASE /\ k.stage # "idle"
             /\ \E answer \in {"unsafe", "conflict", "failed"} :
                   new = Returned(k, answer, 0)
    BY <2>5, <2>9
  <2>10. CASE \E stage : new = [k EXCEPT !.stage = stage]
    BY <2>4, <2>6, <2>10 DEF Call
  <2>11. CASE \E stage : new = [k EXCEPT !.head = head, !.stage = stage]
    BY <2>4, <2>6, <2>11 DEF Call
  <2> QED
    BY <2>3, <2>7, <2>8, <2>9, <2>10, <2>11, ZenonT(30) DEF LocalTo
<1>4. ASSUME NEW p \in Callers, NEW s \in Snapshots \cup Invalid, Publish(p, s)
      PROVE  Target!Next
  <2>1. Content(Tree(head))' = Content(Tree(head)) /\ call[p].stage = "idle"
    BY <1>1, <1>4 DEF Publish, GitHub, Content, Managed
  <2>2. ~Target!Open(p)
    BY <2>1, ViewOpen
  <2>3. CASE s \in Invalid
    <3>1. PICK new : new = [NoCall EXCEPT !.snapshot = s, !.answer = "failed"]
      OBVIOUS
    <3>2. call' = [call EXCEPT ![p] = new] /\ asked' = asked
      BY <1>4, <2>3, <3>1 DEF Publish, Refused
    <3>3. View(new) = Target!NoCall
      BY <2>3, <3>1 DEF View, NoCall, Target!NoCall
    <3>4. [q \in Callers |-> View(call'[q])]
            = [[q \in Callers |-> View(call[q])] EXCEPT ![p] = Target!NoCall]
      BY <1>0, <3>2, <3>3, ZenonT(30)
    <3>5. Target!Refuse(p)
      BY <2>1, <2>2, <3>2, <3>4 DEF Target!Refuse
    <3> QED
      BY <3>5 DEF Target!Next
  <2>4. CASE s \notin Invalid
    <3>1. PICK new : new = [NoCall EXCEPT !.stage = "head", !.snapshot = s,
                                          !.held = Tree(head).files = s]
      OBVIOUS
    <3>2. call' = [call EXCEPT ![p] = new] /\ asked' = asked \cup {s}
      BY <1>4, <2>4, <3>1 DEF Publish, Refused
    <3>3. /\ new.snapshot = s /\ new.answer = "none"
          /\ new.held = (Tree(head).files = s)
      BY <3>1 DEF NoCall
    <3>4. Content(Tree(head)).files = Tree(head).files
      BY DEF Content
    <3>5. View(new) = [snapshot |-> s, held |-> Content(Tree(head)).files = s,
                       answer |-> "none"]
      BY <2>4, <3>3, <3>4 DEF View, Answered
    <3>6. [q \in Callers |-> View(call'[q])]
            = [[q \in Callers |-> View(call[q])] EXCEPT
                 ![p] = [snapshot |-> s, held |-> Content(Tree(head)).files = s,
                         answer |-> "none"]]
      BY <1>0, <3>2, <3>5, ZenonT(30)
    <3>7. Target!Begin(p, s)
      BY <2>1, <2>2, <3>2, <3>6 DEF Target!Begin
    <3> QED
      BY <2>4, <3>7 DEF Target!Next
  <2> QED
    BY <2>3, <2>4
<1>5. ASSUME NEW p \in Callers, CreateCommit(p)
      PROVE  Target!Next \/ UNCHANGED Target!vars
  <2>1. PICK new : /\ call' = [call EXCEPT ![p] = new]
                   /\ \/ new = [call[p] EXCEPT !.stage = "update",
                                               !.commit = Len(commits) + 1]
                      \/ new = Returned(call[p], "failed", 0)
    BY <1>5, ZenonT(30) DEF CreateCommit, Return
  <2>2. UNCHANGED <<head, asked>> /\ call[p].stage # "idle"
    BY <1>5 DEF CreateCommit, history
  <2>3. CASE new = Returned(call[p], "failed", 0)
    BY <1>1, <2>1, <2>2, <2>3, ReturnAnswers, ZenonT(30)
  <2>4. CASE new = [call[p] EXCEPT !.stage = "update", !.commit = Len(commits) + 1]
    <3>1. /\ new.snapshot = call[p].snapshot /\ new.held = call[p].held
          /\ new.answer = call[p].answer
      BY <1>0, <2>4 DEF Call
    <3> QED
      BY <1>1, <2>1, <2>2, <3>1, MoveIsStutter, ZenonT(30)
  <2> QED
    BY <2>1, <2>3, <2>4
<1>6. ASSUME NEW p \in Callers, SendUpdate(p)
      PROVE  UNCHANGED Target!vars
  <2>1. PICK new : new = [call[p] EXCEPT !.stage = "updating"]
    BY ZenonT(30)
  <2>2. UNCHANGED <<head, asked>> /\ call' = [call EXCEPT ![p] = new]
    BY <1>6, <2>1 DEF SendUpdate, Goto, history
  <2>3. /\ new.snapshot = call[p].snapshot /\ new.held = call[p].held
        /\ new.answer = call[p].answer
    BY <1>0, <2>1, ZenonT(30) DEF Call
  <2> QED
    BY <1>1, <2>2, <2>3, MoveIsStutter, ZenonT(30)
<1>7. ASSUME NEW c \in inflight, LoseUpdate(c)
      PROVE  UNCHANGED Target!vars
  BY <1>7 DEF LoseUpdate, history, Target!vars, Content, Tree, Managed
<1> QED
  BY <1>2, <1>3, <1>4, <1>5, <1>6, <1>7, UpdateRefines, PushRefines, StepCases

(* For any callers, snapshots, pushes and failures, Publisher implements   *)
(* PublicationTarget: a call is one atomic update of the branch or none,   *)
(* it happens within the call or later but never on top of a branch that   *)
(* is not managed, and an answer without error is true.                    *)
THEOREM PublisherImplementsTarget == Spec => ImplementsTarget
<1>1. Init => Target!Init
  <2> SUFFICES ASSUME Init
               PROVE  Target!Init
    OBVIOUS
  <2>1. PICK t \in Foreign : Tree(head) = t
    BY DEF Init, Tree
  <2>2. View(NoCall) = Target!NoCall
    BY DEF View, NoCall, Target!NoCall, Answered
  <2>3. call = [p \in Callers |-> NoCall] /\ asked = {}
    BY DEF Init
  <2>4. [p \in Callers |-> View(call[p])] = [p \in Callers |-> Target!NoCall]
    BY <2>2, <2>3
  <2> QED
    BY <2>1, <2>3, <2>4 DEF Target!Init
<1>2. PublisherInv /\ [Next]_vars => [Target!Next]_(Target!vars)
  BY StepRefines
<1> QED
  BY <1>1, <1>2, InvariantHolds, PTL DEF Spec, ImplementsTarget, Target!Spec

=============================================================================
