----------------------------- MODULE GitSyncProofs -----------------------------
(***************************************************************************)
(* Proofs about a drain's way to the remote, for any changes of any number *)
(* of writers, any retries and crashes.  Three facts carry them: which half *)
(* of the code a box runs (a pebble's or an adopted brain's) never changes  *)
(* between steps; a commit found on a detached HEAD is in one place at a    *)
(* time; and a tree never lacks what its history claims of the box's own    *)
(* changes (on an adopted brain: of anybody's).                             *)
(***************************************************************************)
EXTENDS GitSync, TLAPS, FiniteSetTheorems, SequenceTheorems

Places == {"idle", "clear", "rescue", "job", "commit", "add", "pull", "fetch", "merge",
           "push", "ask", "theirTip", "replay", "sendOurs"}

\* A box runs the half of the code that is its own.
Halves ==
    /\ adopted => pc \notin {"pull", "fetch", "merge", "push"} /\ then \notin {"pull", "fetch"}
    /\ ~adopted => pc \notin {"ask", "theirTip", "replay", "sendOurs"} /\ then # "ask"
                   /\ op # "person"

\* Where a commit on a detached HEAD can be, and when the kernel's mark stands.
Heads ==
    /\ (saved # <<>>) <=> (pc = "rescue")
    /\ op = "none" => strays = <<>>
    /\ pc \in {"theirTip", "replay", "sendOurs"} => strays = <<>>
    /\ pc = "replay" => mark

\* What a ref shows of what its history claims.
Trees ==
    /\ adopted => \A ref \in {branch, remote, fetched} : ref.tree = ref.hist
    /\ ~adopted => /\ branch.tree \cap Ours = branch.hist \cap Ours
                   /\ remote.tree \cap Ours = remote.hist \cap Ours
                   /\ (remote.hist \cup fetched.hist) \cap Ours \subseteq branch.hist

\* Outside changes come from the remote, and a replay that has something to do is
\* onto a tip that has all of those in the branch.
Outside ==
    /\ branch.hist \cap Theirs \subseteq remote.hist /\ fetched.hist \subseteq remote.hist
    /\ pc = "replay" /\ Behind(fetched) => branch.hist \cap Theirs \subseteq fetched.hist

IInv == TypeOK /\ Halves /\ Heads /\ Trees /\ Outside
-----------------------------------------------------------------------------
(* Sequences of commits.                                                       *)

\* A commit's changes in a row: each of them an own change, and none lost.
LEMMA InARow ==
    ASSUME NEW S \in SUBSET Ours
    PROVE  SetToSeq(S) \in Seq(Ours)
<1> DEFINE n == Cardinality(S)
<1>1. IsFiniteSet(S)
  BY ChangeAssumption, FS_Subset DEF ChangeAssumption
<1>2. n \in Nat /\ ExistsBijection(1..n, S)
  BY <1>1, FS_CardinalityType
<1>3. \E f \in [1..n -> S] : IsInjective(f)
  BY <1>2 DEF ExistsBijection, Bijection, Injection
<1>4. SetToSeq(S) \in [1..n -> S]
  BY <1>3 DEF SetToSeq
<1>5. SetToSeq(S) \in Seq(S)
  BY <1>2, <1>4, SeqDef
<1> QED BY <1>5

\* What is in a row, and in two joined.
LEMMA RangeFacts ==
    ASSUME NEW s \in Seq(Ours)
    PROVE  /\ Range(s) \subseteq Ours
           /\ \A t \in Seq(Ours) : Range(s \o t) = Range(s) \cup Range(t)
           /\ s # <<>> => Last(s) \in Ours
           /\ Len(s) = 1 => Range(s) = {Last(s)}
<1>1. Range(s) \subseteq Ours
  BY DEF Range
<1>2. ASSUME NEW t \in Seq(Ours) PROVE Range(s \o t) = Range(s) \cup Range(t)
  <2>1. Range(s \o t) \subseteq Range(s) \cup Range(t)
    BY DEF Range
  <2>2. Range(s) \subseteq Range(s \o t)
    BY DEF Range
  <2>3. \A i \in 1..Len(t) : i + Len(s) \in DOMAIN (s \o t) /\ (s \o t)[i + Len(s)] = t[i]
    OBVIOUS
  <2>4. Range(t) \subseteq Range(s \o t)
    <3>1. ASSUME NEW i \in DOMAIN t PROVE t[i] \in Range(s \o t)
      <4>1. i \in 1..Len(t)
        OBVIOUS
      <4>2. i + Len(s) \in DOMAIN (s \o t) /\ (s \o t)[i + Len(s)] = t[i]
        BY <2>3, <4>1
      <4> QED BY <4>2, Zenon DEF Range
    <3> QED BY <3>1, Zenon DEF Range
  <2> QED BY <2>1, <2>2, <2>4
<1>3. ASSUME s # <<>> PROVE Last(s) \in Ours
  <2>1. Len(s) # 0
    BY <1>3
  <2> QED BY <2>1 DEF Last
<1>4. Len(s) = 1 => Range(s) = {Last(s)}
  BY DEF Range, Last
<1> QED BY <1>1, <1>2, <1>3, <1>4

\* Nothing is in an empty row.
LEMMA RangeEmpty == Range(<<>>) = {}
  BY DEF Range
-----------------------------------------------------------------------------
(* The inductive invariant.                                                    *)

\* Initially.
LEMMA IInvInit == Init => IInv
<1> SUFFICES ASSUME Init PROVE IInv
  OBVIOUS
<1>1. TypeOK
  <2>1. tries \in 0..Retries /\ crashes \in 0..MaxCrashes
    BY BoundAssumption DEF BoundAssumption, Init
  <2>2. strays \in Seq(Ours) /\ saved \in Seq(Ours)
    BY EmptySeq DEF Init
  <2>3. Nothing \in Ref
    BY DEF Nothing, Ref
  <2> QED BY <2>1, <2>2, <2>3 DEF Init, TypeOK
<1>2. Halves /\ Heads
  BY DEF Init, Halves, Heads
<1>3. Trees /\ Outside
  BY DEF Init, Trees, Outside, Nothing, Behind
<1> QED BY <1>1, <1>2, <1>3 DEF IInv

\* A command that changes no ref and no commit of a detached HEAD, and whose way on
\* is the box's own half.
LEMMA PlainStep ==
    ASSUME IInv,
           \/ Begin \/ JobsEnd \/ CommitCheck \/ PullFails \/ SyncFails
           \/ Ask \/ AdoptedFails
           \/ NetChanges \/ PersonEdits \/ PersonStarts
           \/ \E o \in Ours : Edit(o)
    PROVE  IInv'
<1> USE DEF IInv
<1>0. Retries \in Nat \ {0}
  BY BoundAssumption DEF BoundAssumption
<1>1. TypeOK'
  <2>1. tries' \in 0..Retries
    BY <1>0 DEF TypeOK, Begin, JobsEnd, CommitCheck, PullFails, SyncFails, Ask, AdoptedFails, NetChanges,
         PersonEdits, PersonStarts, Edit, ClearThen, Goto, TryAgain, NextAttempt, runVars
  <2>2. pc' \in Places /\ then' \in {"job", "commit", "pull", "fetch", "ask", "idle"}
    BY DEF TypeOK, Begin, JobsEnd, CommitCheck, PullFails, SyncFails, Ask, AdoptedFails, NetChanges,
         PersonEdits, PersonStarts, Edit, ClearThen, Goto, TryAgain, NextAttempt, runVars, Places
  <2>3. UNCHANGED <<adopted, mark, crashes, branch, remote, fetched, over, strays, saved>>
    BY DEF Begin, JobsEnd, CommitCheck, PullFails, SyncFails, Ask, AdoptedFails, NetChanges,
         PersonEdits, PersonStarts, Edit, ClearThen, Goto, TryAgain, NextAttempt, runVars, gitVars, placeVars
  <2>4. net' \in BOOLEAN /\ edit' \in BOOLEAN
    BY DEF TypeOK, Begin, JobsEnd, CommitCheck, PullFails, SyncFails, Ask, AdoptedFails, NetChanges,
         PersonEdits, PersonStarts, Edit
  <2>5. work' \in SUBSET Ours /\ op' \in {"none", "kernel", "person"}
    BY DEF TypeOK, Begin, JobsEnd, CommitCheck, PullFails, SyncFails, Ask, AdoptedFails, NetChanges,
         PersonEdits, PersonStarts, Edit, placeVars
  <2> QED BY <2>1, <2>2, <2>3, <2>4, <2>5 DEF TypeOK, Places
<1>2. Halves'
  BY DEF TypeOK, Halves, Begin, JobsEnd, CommitCheck, PullFails, SyncFails, Ask, AdoptedFails, NetChanges,
         PersonEdits, PersonStarts, Edit, ClearThen, Goto, TryAgain, NextAttempt, gitVars, placeVars, runVars
<1>3. Heads'
  BY DEF TypeOK, Heads, Begin, JobsEnd, CommitCheck, PullFails, SyncFails, Ask, AdoptedFails, NetChanges,
         PersonEdits, PersonStarts, Edit, ClearThen, Goto, TryAgain, NextAttempt, gitVars, placeVars, runVars
<1>4. UNCHANGED <<gitVars, adopted>> /\ (pc' = "replay" => pc = "replay")
  BY DEF Begin, JobsEnd, CommitCheck, PullFails, SyncFails, Ask, AdoptedFails, NetChanges,
         PersonEdits, PersonStarts, Edit, ClearThen, Goto, TryAgain, NextAttempt, gitVars, placeVars, runVars,
         TypeOK
<1>5. Trees' /\ Outside'
  BY <1>4 DEF Trees, Outside, Behind, gitVars
<1> QED BY <1>1, <1>2, <1>3, <1>5

\* clearRebase takes the commits of the detached HEAD into its hands.
LEMMA ClearStep == ASSUME IInv, Clear PROVE IInv'
<1> USE DEF IInv
<1>1. TypeOK'
  <2>1. <<>> \in Seq(Ours)
    BY EmptySeq
  <2> QED BY <2>1 DEF TypeOK, Clear, Abort, gitVars
<1>2. Halves'
  BY DEF TypeOK, Halves, Clear, Abort
<1>3. Heads'
  BY DEF TypeOK, Heads, Clear, Abort
<1>4. UNCHANGED <<gitVars, adopted>> /\ pc' # "replay"
  BY DEF Clear, TypeOK
<1>5. Trees' /\ Outside'
  BY <1>4 DEF Trees, Outside, gitVars
<1> QED BY <1>1, <1>2, <1>3, <1>5

\* What lands on the branch is in its history and its tree, or goes to the detached
\* HEAD of an operation under way.
LEMMA LandFacts ==
    ASSUME TypeOK, NEW S \in SUBSET Ours, Land(S), UNCHANGED <<remote, fetched, op, adopted>>, Heads, Trees
    PROVE  /\ branch' \in Ref /\ over' \in [Ours -> SUBSET Theirs] /\ strays' \in Seq(Ours)
           /\ op' = "none" => strays' = <<>>
           /\ Trees'
           /\ branch'.hist \cap Theirs = branch.hist \cap Theirs
           /\ branch.hist \subseteq branch'.hist /\ branch.tree \subseteq branch'.tree
<1>1. CASE op = "none"
  <2>1. /\ branch' = [hist |-> branch.hist \cup S, tree |-> branch.tree \cup S] /\ strays' = strays
        /\ over' = [o \in Ours |-> IF o \in S THEN branch.hist \cap Theirs ELSE over[o]]
    BY <1>1 DEF Land
  <2>2. branch' \in Ref /\ strays' \in Seq(Ours) /\ strays' = <<>>
    BY <1>1, <2>1 DEF TypeOK, Ref, Heads
  <2>3. over' \in [Ours -> SUBSET Theirs]
    BY <2>1 DEF TypeOK
  <2>4. Trees'
    BY <2>1 DEF Trees
  <2>5. branch'.hist \cap Theirs = branch.hist \cap Theirs
    BY <2>1, ChangeAssumption DEF ChangeAssumption
  <2> QED BY <2>1, <2>2, <2>3, <2>4, <2>5
<1>2. CASE op # "none"
  <2>1. strays' = strays \o SetToSeq(S) /\ UNCHANGED <<branch, over>>
    BY <1>2 DEF Land
  <2>2. strays' \in Seq(Ours)
    BY <2>1, InARow DEF TypeOK
  <2>3. Trees'
    BY <2>1 DEF Trees
  <2> QED BY <1>2, <2>1, <2>2, <2>3 DEF TypeOK
<1> QED BY <1>1, <1>2

\* The commits of the kernel and of somebody on a detached HEAD.
LEMMA CommitStep ==
    ASSUME IInv, Rescue \/ Commit \/ \E o \in Ours : StrayCommit(o)
    PROVE  IInv'
<1> USE DEF IInv
<1>1. ASSUME Rescue PROVE IInv'
  <2>1. Last(saved) \in Ours
    BY <1>1, RangeFacts DEF Rescue, TypeOK, Heads
  <2>2. /\ branch' \in Ref /\ over' \in [Ours -> SUBSET Theirs] /\ strays' \in Seq(Ours)
        /\ op' = "none" => strays' = <<>>
        /\ Trees'
        /\ branch'.hist \cap Theirs = branch.hist \cap Theirs
    <3>1. CASE Land({Last(saved)})
      BY <1>1, <2>1, <3>1, LandFacts DEF Rescue
    <3>2. CASE UNCHANGED <<branch, over, strays>>
      BY <1>1, <3>2 DEF Rescue, TypeOK, Heads, Trees
    <3> QED BY <1>1, <3>1, <3>2 DEF Rescue
  <2>3. TypeOK'
    BY <1>1, <2>2, EmptySeq DEF TypeOK, Rescue
  <2>4. Halves' /\ Heads'
    BY <1>1, <2>2 DEF Halves, Heads, Rescue, TypeOK
  <2>5. Outside'
    BY <1>1, <2>2 DEF Outside, Rescue, TypeOK
  <2> QED BY <2>2, <2>3, <2>4, <2>5
<1>2. ASSUME Commit PROVE IInv'
  <2>1. /\ branch' \in Ref /\ over' \in [Ours -> SUBSET Theirs] /\ strays' \in Seq(Ours)
        /\ op' = "none" => strays' = <<>>
        /\ Trees'
        /\ branch'.hist \cap Theirs = branch.hist \cap Theirs
    BY <1>2, LandFacts DEF Commit, TypeOK
  <2>2. TypeOK'
    BY <1>2, <2>1, BoundAssumption DEF BoundAssumption, TypeOK, Commit
  <2>3. Halves' /\ Heads'
    BY <1>2, <2>1 DEF Halves, Heads, Commit
  <2>4. Outside'
    BY <1>2, <2>1 DEF Outside, Commit
  <2> QED BY <2>1, <2>2, <2>3, <2>4
<1>3. ASSUME NEW o \in Ours, StrayCommit(o) PROVE IInv'
  <2>1. TypeOK'
    BY <1>3 DEF TypeOK, StrayCommit, runVars, gitVars
  <2>2. Halves' /\ Heads'
    BY <1>3 DEF Halves, Heads, StrayCommit, runVars
  <2>3. Trees' /\ Outside'
    BY <1>3 DEF Trees, Outside, StrayCommit, runVars, gitVars, Behind
  <2> QED BY <2>1, <2>2, <2>3
<1> QED BY <1>1, <1>2, <1>3

\* What a replay onto a fetched tip makes of the branch: nothing of the box's own is
\* lost or hidden, and without a clash nothing of anybody's is hidden.
LEMMA ReplayFacts ==
    ASSUME TypeOK, Trees, NEW onto \in Ref, PullIn(onto)
    PROVE  /\ branch' \in Ref /\ over' \in [Ours -> SUBSET Theirs]
           /\ branch.hist \cap Ours \subseteq branch'.hist
           /\ onto.hist \subseteq branch'.hist
           /\ branch'.hist \cap Theirs \subseteq (branch.hist \cup onto.hist)
           /\ Behind(onto) => branch'.hist \cap Theirs = onto.hist \cap Theirs
           /\ ~Behind(onto) => branch' = branch
           /\ onto.tree \cap Ours = onto.hist \cap Ours /\ branch.tree \cap Ours = branch.hist \cap Ours
                => branch'.tree \cap Ours = branch'.hist \cap Ours
           /\ onto.tree = onto.hist /\ branch.tree = branch.hist /\ Clash(onto, Hunk) = {}
                => branch'.tree = branch'.hist
<1>1. CASE ~Behind(onto)
  <2>1. UNCHANGED <<branch, over>> /\ onto.hist \subseteq branch.hist
    BY <1>1 DEF PullIn, Behind
  <2> QED BY <1>1, <2>1 DEF TypeOK
<1>2. CASE Behind(onto)
  <2> DEFINE P == Pending(onto)
             C == Clash(onto, Hunk)
  <2>1. /\ branch' = [hist |-> onto.hist \cup P, tree |-> (onto.tree \ C) \cup P]
        /\ over' = [o \in Ours |-> IF o \in P THEN onto.hist \cap Theirs ELSE over[o]]
    BY <1>2 DEF PullIn, Replay
  <2>2. P = (branch.hist \ onto.hist) \cap Ours /\ C \subseteq Theirs
    BY ChangeAssumption DEF ChangeAssumption, Pending, Clash
  <2>3. onto.hist \subseteq Ours \cup Theirs /\ onto.tree \subseteq Ours \cup Theirs
    BY DEF Ref
  <2> HIDE DEF P, C
  <2>4. branch' \in Ref
    BY <2>1, <2>2, <2>3 DEF Ref
  <2>5. over' \in [Ours -> SUBSET Theirs]
    BY <2>1 DEF TypeOK
  <2>6. Ours \cap Theirs = {}
    BY ChangeAssumption DEF ChangeAssumption
  <2>7. /\ branch.hist \cap Ours \subseteq branch'.hist
        /\ onto.hist \subseteq branch'.hist
        /\ branch'.hist \cap Theirs \subseteq branch.hist \cup onto.hist
        /\ branch'.hist \cap Theirs = onto.hist \cap Theirs
    BY <2>1, <2>2, <2>6
  <2>8. onto.tree \cap Ours = onto.hist \cap Ours => branch'.tree \cap Ours = branch'.hist \cap Ours
    BY <2>1, <2>2, <2>6
  <2>9. onto.tree = onto.hist /\ C = {} => branch'.tree = branch'.hist
    BY <2>1
  <2> QED BY <1>2, <2>4, <2>5, <2>7, <2>8, <2>9 DEF C
<1> QED BY <1>1, <1>2

\* The pebble's commands to the remote: Pull, Fetch, MergeOurs; and Push, either half.
LEMMA SyncStep ==
    ASSUME IInv, Pull \/ Fetch \/ MergeOurs \/ Push
    PROVE  IInv'
<1> USE DEF IInv
<1>1. ASSUME Pull PROVE IInv'
  <2>0. ~adopted /\ remote \in Ref /\ UNCHANGED <<adopted, remote>> /\ fetched' = remote
    BY <1>1 DEF Pull, Halves, TypeOK
  <2>1. CASE UNCHANGED <<branch, over>> /\ op' = "kernel" /\ ClearThen("fetch")
    <3>1. TypeOK'
      BY <1>1, <2>1 DEF TypeOK, Pull, ClearThen
    <3>2. Halves' /\ Heads'
      BY <1>1, <2>1 DEF Halves, Heads, Pull, ClearThen
    <3>3. Trees' /\ Outside'
      BY <1>1, <2>1 DEF Trees, Outside, Pull, ClearThen
    <3> QED BY <3>1, <3>2, <3>3
  <2>2. CASE PullIn(remote) /\ Goto("push") /\ op' = op
    <3>0. /\ branch' \in Ref /\ over' \in [Ours -> SUBSET Theirs]
          /\ branch.hist \cap Ours \subseteq branch'.hist
          /\ branch'.hist \cap Theirs \subseteq (branch.hist \cup remote.hist)
          /\ branch'.tree \cap Ours = branch'.hist \cap Ours
      BY <2>0, <2>2, ReplayFacts DEF Trees
    <3>1. TypeOK'
      BY <1>1, <2>2, <3>0 DEF TypeOK, Pull, Goto
    <3>2. Halves' /\ Heads'
      BY <1>1, <2>2 DEF Halves, Heads, Pull, Goto
    <3>3. Trees'
      BY <2>0, <3>0 DEF Trees
    <3>4. Outside'
      BY <2>0, <2>2, <3>0 DEF Outside, Goto
    <3> QED BY <3>1, <3>2, <3>3, <3>4
  <2> QED BY <1>1, <2>1, <2>2 DEF Pull
<1>2. ASSUME Fetch PROVE IInv'
  <2>1. TypeOK'
    BY <1>2 DEF TypeOK, Fetch, Goto, placeVars
  <2>2. Halves' /\ Heads'
    BY <1>2 DEF Halves, Heads, Fetch, Goto, placeVars
  <2>3. Trees' /\ Outside'
    BY <1>2 DEF Halves, Trees, Outside, Fetch, Goto
  <2> QED BY <2>1, <2>2, <2>3
<1>3. ASSUME MergeOurs PROVE IInv'
  <2>0. /\ branch' \in Ref /\ branch'.hist = branch.hist \cup fetched.hist /\ branch'.tree = branch.tree
        /\ ~adopted
    BY <1>3 DEF MergeOurs, TypeOK, Ref, Halves
  <2>1. TypeOK'
    BY <1>3, <2>0 DEF TypeOK, MergeOurs, Goto, placeVars
  <2>2. Halves' /\ Heads'
    BY <1>3 DEF Halves, Heads, MergeOurs, Goto, placeVars
  <2>3. Trees' /\ Outside'
    BY <1>3, <2>0 DEF Trees, Outside, MergeOurs, Goto
  <2> QED BY <2>1, <2>2, <2>3
<1>4. ASSUME Push PROVE IInv'
  <2>1. TypeOK'
    BY <1>4 DEF TypeOK, Push, Goto, placeVars
  <2>2. Halves' /\ Heads'
    BY <1>4 DEF Halves, Heads, Push, Goto, placeVars
  <2>3. Trees'
    BY <1>4 DEF Trees, Push
  <2>4. Outside'
    BY <1>4 DEF Outside, Push, Goto
  <2> QED BY <2>1, <2>2, <2>3, <2>4
<1> QED BY <1>1, <1>2, <1>3, <1>4

\* The adopted brain's: the fetch, and the replay.
LEMMA AdoptedStep ==
    ASSUME IInv, TheirTip \/ ReplayOurs
    PROVE  IInv'
<1> USE DEF IInv
<1>1. ASSUME TheirTip PROVE IInv'
  <2>0. adopted
    BY <1>1 DEF TheirTip, Halves
  <2>1. TypeOK'
    BY <1>1 DEF TypeOK, TheirTip, Goto
  <2>2. Halves' /\ Heads'
    BY <1>1, <2>0 DEF Halves, Heads, TheirTip, Goto
  <2>3. Trees' /\ Outside'
    BY <1>1, <2>0 DEF Trees, Outside, TheirTip, Goto
  <2> QED BY <2>1, <2>2, <2>3
<1>2. ASSUME ReplayOurs PROVE IInv'
  <2>0. adopted /\ UNCHANGED <<adopted, remote, fetched, net, crashes>> /\ fetched \in Ref
        /\ mark' = FALSE /\ pc = "replay"
    BY <1>2 DEF ReplayOurs, Halves, TypeOK
  <2>1. CASE /\ Clash(fetched, Hunk \cup Path) = {} /\ PullIn(fetched) /\ Goto("sendOurs")
             /\ UNCHANGED <<op, strays, work, edit>>
    <3>0. Clash(fetched, Hunk) = {}
      BY <2>1 DEF Clash
    <3>1. /\ branch' \in Ref /\ over' \in [Ours -> SUBSET Theirs]
          /\ branch'.hist \cap Theirs \subseteq (branch.hist \cup fetched.hist)
          /\ branch'.tree = branch'.hist
      BY <2>0, <2>1, <3>0, ReplayFacts DEF Trees
    <3>2. TypeOK'
      BY <2>0, <2>1, <3>1 DEF TypeOK, Goto
    <3>3. Halves' /\ Heads'
      BY <2>0, <2>1 DEF Halves, Heads, Goto
    <3>4. Trees' /\ Outside'
      BY <2>0, <2>1, <3>1 DEF Trees, Outside, Goto
    <3> QED BY <3>2, <3>3, <3>4
  <2>2. CASE /\ UNCHANGED <<branch, over>>
             /\ \/ Goto("idle") /\ (Abort \/ UNCHANGED <<op, strays, work, edit>>)
                \/ NextAttempt /\ UNCHANGED <<op, strays, work, edit>>
    <3>0. /\ tries' \in 0..Retries /\ UNCHANGED <<then, saved>> /\ pc' \in {"idle", "theirTip"}
          /\ strays' = <<>> /\ (op' = "none" \/ op' = op)
          /\ work' \in SUBSET Ours /\ edit' \in BOOLEAN
      <4>1. tries' \in 0..Retries /\ UNCHANGED <<then, saved>> /\ pc' \in {"idle", "theirTip"}
        BY <2>2, BoundAssumption DEF BoundAssumption, Goto, NextAttempt, TypeOK
      <4>2. strays = <<>>
        BY <2>0 DEF Heads
      <4>3. CASE Abort
        BY <4>1, <4>3 DEF Abort
      <4>4. CASE UNCHANGED <<op, strays, work, edit>>
        BY <4>1, <4>2, <4>4 DEF TypeOK
      <4> QED BY <2>2, <4>3, <4>4
    <3>1. TypeOK'
      BY <2>0, <2>2, <3>0, EmptySeq DEF TypeOK
    <3>2. Halves' /\ Heads'
      BY <2>0, <3>0 DEF Halves, Heads
    <3>3. Trees' /\ Outside'
      BY <2>0, <2>2, <3>0 DEF Trees, Outside
    <3> QED BY <3>1, <3>2, <3>3
  <2> QED BY <1>2, <2>1, <2>2 DEF ReplayOurs
<1> QED BY <1>1, <1>2

\* Other writers, the person's own rebase and deaths.
LEMMA OthersStep ==
    ASSUME IInv, PersonEnds \/ PersonAborts \/ Crash \/ \E t \in Theirs : OutsidePush(t)
    PROVE  IInv'
<1> USE DEF IInv
<1>1. ASSUME NEW t \in Theirs, OutsidePush(t) PROVE IInv'
  <2>0. /\ remote' \in Ref /\ remote'.hist = remote.hist \cup {t} /\ remote'.tree = remote.tree \cup {t}
        /\ t \notin Ours
    BY <1>1, ChangeAssumption DEF ChangeAssumption, OutsidePush, TypeOK, Ref
  <2>1. TypeOK'
    BY <1>1, <2>0 DEF TypeOK, OutsidePush, runVars, placeVars
  <2>2. Halves' /\ Heads'
    BY <1>1 DEF Halves, Heads, OutsidePush, runVars, placeVars
  <2>3. Trees'
    BY <1>1, <2>0 DEF Trees, OutsidePush
  <2>4. Outside'
    BY <1>1, <2>0 DEF Outside, OutsidePush, runVars, Behind
  <2> QED BY <2>1, <2>2, <2>3, <2>4
<1>2. ASSUME PersonEnds PROVE IInv'
  <2>0. adopted /\ Range(strays) \subseteq Ours
    BY <1>2, RangeFacts DEF PersonEnds, Halves, TypeOK
  <2>1. branch' \in Ref /\ remote.hist \subseteq branch'.hist
        /\ branch'.hist = branch.hist \cup Range(strays) \cup remote.hist
        /\ branch'.tree = branch.tree \cup Range(strays) \cup remote.tree
    BY <1>2, <2>0 DEF PersonEnds, TypeOK, Ref
  <2>2. over' \in [Ours -> SUBSET Theirs]
    BY <1>2 DEF PersonEnds, TypeOK
  <2>3. TypeOK'
    BY <1>2, <2>1, <2>2, EmptySeq DEF TypeOK, PersonEnds, runVars
  <2>4. Halves' /\ Heads'
    BY <1>2 DEF Halves, Heads, PersonEnds, runVars
  <2>5. Trees'
    BY <1>2, <2>0, <2>1 DEF Trees, PersonEnds
  <2>6. Outside'
    <3>1. branch'.hist \cap Theirs \subseteq remote'.hist /\ fetched'.hist \subseteq remote'.hist
      BY <1>2, <2>0, <2>1, ChangeAssumption DEF ChangeAssumption, Outside, PersonEnds
    <3>2. fetched'.hist \subseteq branch'.hist
      BY <1>2, <2>1 DEF Outside, PersonEnds
    <3> QED BY <3>1, <3>2 DEF Outside, Behind
  <2> QED BY <2>3, <2>4, <2>5, <2>6
<1>3. ASSUME Crash PROVE IInv'
  <2>1. TypeOK'
    BY <1>3, EmptySeq, BoundAssumption DEF BoundAssumption, TypeOK, Crash, gitVars
  <2>2. Halves' /\ Heads'
    BY <1>3 DEF Halves, Heads, Crash
  <2>3. Trees' /\ Outside'
    BY <1>3 DEF Trees, Outside, Crash, gitVars
  <2> QED BY <2>1, <2>2, <2>3
<1>4. ASSUME PersonAborts PROVE IInv'
  <2>1. TypeOK'
    BY <1>4, EmptySeq DEF TypeOK, PersonAborts, Abort, runVars, gitVars
  <2>2. Halves' /\ Heads'
    BY <1>4 DEF Halves, Heads, PersonAborts, Abort, runVars
  <2>3. Trees' /\ Outside'
    BY <1>4 DEF Trees, Outside, PersonAborts, runVars, gitVars, Behind
  <2> QED BY <2>1, <2>2, <2>3
<1> QED BY <1>1, <1>2, <1>3, <1>4

\* Every step.
LEMMA IInvStep == IInv /\ [Next]_vars => IInv'
<1> SUFFICES ASSUME IInv, [Next]_vars PROVE IInv'
  OBVIOUS
<1>1. CASE Kernel
  BY <1>1, PlainStep, ClearStep, CommitStep, SyncStep, AdoptedStep DEF Kernel
<1>2. CASE Others
  BY <1>2, PlainStep, CommitStep, OthersStep DEF Others
<1>3. CASE UNCHANGED vars
  BY <1>3 DEF IInv, TypeOK, Halves, Heads, Trees, Outside, Behind, vars, runVars, gitVars, placeVars
<1> QED BY <1>1, <1>2, <1>3 DEF Next

\* Always.
LEMMA IInvAlways == Spec => []IInv
  BY IInvInit, IInvStep, PTL DEF Spec
-----------------------------------------------------------------------------
(* The theorems.                                                               *)

\* Every variable of a drain's way to the remote keeps its type.
THEOREM TypeCorrect == Spec => []TypeOK
<1>1. IInv => TypeOK
  BY DEF IInv
<1> QED BY IInvAlways, <1>1, PTL

\* On an adopted brain a push never changes what the remote shows of anybody's: what
\* the branch shows is all it claims, and a push needs the remote's tip in it.
THEOREM AdoptedOverridesNothing == Spec => NothingOverridden
<1>1. ASSUME IInv, [Next]_vars, adopted PROVE remote.tree \subseteq remote'.tree
  <2>1. CASE Push
    <3>1. branch.tree = branch.hist /\ remote.tree = remote.hist
      BY <1>1 DEF IInv, Trees
    <3> QED BY <2>1, <3>1 DEF Push
  <2>2. CASE Kernel /\ ~Push
    BY <2>2 DEF Kernel, Begin, JobsEnd, Clear, Rescue, Commit, CommitCheck, Pull, PullFails, Fetch, MergeOurs,
           SyncFails, Ask, TheirTip, ReplayOurs, AdoptedFails, gitVars
  <2>3. CASE Others
    BY <2>3 DEF Others, Edit, StrayCommit, OutsidePush, NetChanges, PersonEdits, PersonStarts, PersonEnds,
           PersonAborts, Crash, gitVars
  <2>4. CASE UNCHANGED vars
    BY <2>4 DEF vars, gitVars
  <2> QED BY <1>1, <2>1, <2>2, <2>3, <2>4 DEF Next
<1> QED BY <1>1, IInvAlways, PTL DEF Spec, NothingOverridden

\* A pebble's box is the writer of record: a replay keeps every pending change of its
\* own in the tree, a merge -s ours the whole tree (git.mjs, syncPush).
THEOREM PebbleIsOfRecord == Spec => BoxWins
<1>1. ASSUME IInv, [Next]_vars, ~adopted PROVE branch.tree \cap Ours \subseteq branch'.tree
  <2>0. branch.tree \cap Ours = branch.hist \cap Ours /\ remote.tree \cap Ours = remote.hist \cap Ours
    BY <1>1 DEF IInv, Trees
  <2>1. CASE Pull
    <3>1. CASE PullIn(remote)
      <4>1. branch.hist \cap Ours \subseteq branch'.hist /\ branch'.tree \cap Ours = branch'.hist \cap Ours
        BY <1>1, <2>0, <3>1, ReplayFacts DEF IInv, TypeOK
      <4> QED BY <2>0, <4>1
    <3> QED BY <2>1, <3>1 DEF Pull
  <2>2. CASE Rescue
    <3>1. Last(saved) \in Ours
      BY <1>1, <2>2, RangeFacts DEF Rescue, IInv, TypeOK, Heads
    <3> QED BY <1>1, <2>2, <3>1, LandFacts DEF Rescue, IInv
  <2>3. CASE Commit
    BY <1>1, <2>3, LandFacts DEF Commit, IInv, TypeOK
  <2>4. CASE MergeOurs
    BY <1>1, <2>4 DEF MergeOurs, IInv, TypeOK, Ref
  <2>5. CASE Kernel /\ ~(Pull \/ Rescue \/ Commit \/ MergeOurs)
    BY <1>1, <2>5 DEF Kernel, Begin, JobsEnd, Clear, CommitCheck, PullFails, Fetch, Push,
           SyncFails, Ask, TheirTip, ReplayOurs, AdoptedFails, gitVars, IInv, Halves
  <2>6. CASE Others
    BY <1>1, <2>6 DEF Others, Edit, StrayCommit, OutsidePush, NetChanges, PersonEdits, PersonStarts, PersonEnds,
           PersonAborts, Crash, gitVars, IInv, Halves
  <2>7. CASE UNCHANGED vars
    BY <2>7 DEF vars, gitVars
  <2> QED BY <1>1, <2>1, <2>2, <2>3, <2>4, <2>5, <2>6, <2>7 DEF Next
<1> QED BY <1>1, IInvAlways, PTL DEF Spec, BoxWins

\* A rebase of the person's ends by their hand or under the kernel's mark (git.mjs,
\* clearRebase and adoptedPush).
THEOREM PersonsOpIsKept == Spec => PersonsOpKept
<1>1. ASSUME IInv, [Next]_vars, op = "person"
      PROVE  op' = "person" \/ PersonEnds \/ PersonAborts \/ (mark /\ ~mark')
  <2>0. adopted
    BY <1>1 DEF IInv, Halves
  <2>1. CASE Clear
    BY <1>1, <2>0, <2>1 DEF Clear
  <2>2. CASE ReplayOurs
    BY <1>1, <2>2 DEF ReplayOurs, IInv, Heads
  <2>3. CASE Kernel /\ ~(Clear \/ ReplayOurs)
    BY <1>1, <2>3 DEF Kernel, Begin, JobsEnd, Rescue, Commit, CommitCheck, Pull, PullFails, Fetch, MergeOurs,
           Push, SyncFails, Ask, TheirTip, AdoptedFails, placeVars
  <2>4. CASE Others
    BY <1>1, <2>4 DEF Others, Edit, StrayCommit, OutsidePush, NetChanges, PersonEdits, PersonStarts,
           Crash, placeVars
  <2>5. CASE UNCHANGED vars
    BY <1>1, <2>5 DEF vars, placeVars
  <2> QED BY <1>1, <2>1, <2>2, <2>3, <2>4, <2>5 DEF Next
<1> QED BY <1>1, IInvAlways, PTL DEF Spec, PersonsOpKept

\* What lands is committed, on the branch or on the detached HEAD.
LEMMA LandCommits ==
    ASSUME TypeOK, NEW S \in SUBSET Ours, Land(S)
    PROVE  branch.hist \cup Range(strays) \subseteq branch'.hist \cup Range(strays')
<1>1. CASE op = "none"
  BY <1>1 DEF Land
<1>2. CASE op # "none"
  <2>1. strays' = strays \o SetToSeq(S) /\ branch' = branch
    BY <1>2 DEF Land
  <2> QED BY <2>1, InARow, RangeFacts DEF TypeOK
<1> QED BY <1>1, <1>2

\* clearRebase does not destroy what was committed, on the branch or on a detached
\* HEAD, but for the cases the property names; nor does any other step.
THEOREM CommitsAreKept == Spec => CommitsKept
<1>1. ASSUME IInv, [Next]_vars,
             ~(pc = "rescue" /\ (Len(saved) > 1 \/ ~Unhindered \/ Crash)), ~PersonAborts
      PROVE  Committed \subseteq Committed'
  <2>0. /\ TypeOK /\ ((saved # <<>>) <=> (pc = "rescue"))
        /\ branch.hist \subseteq Ours \cup Theirs
        /\ branch.hist \cap Theirs \subseteq remote.hist
    BY <1>1 DEF IInv, Heads, Outside, TypeOK, Ref
  <2>1. CASE Clear
    BY <2>0, <2>1, RangeEmpty DEF Clear, Abort, Committed, gitVars
  <2>2. CASE Rescue
    <3>1. Len(saved) = 1 /\ Land({Last(saved)}) /\ Range(saved) = {Last(saved)} /\ Last(saved) \in Ours
      <4>1. saved \in Seq(Ours) /\ saved # <<>>
        BY <2>0, <2>2 DEF Rescue, TypeOK
      <4>2. ~(Len(saved) > 1) /\ Land({Last(saved)})
        <5>1. pc = "rescue" /\ (Land({Last(saved)}) \/ ~Unhindered)
          BY <2>2 DEF Rescue
        <5> QED BY <1>1, <5>1, Zenon
      <4>3. Len(saved) = 1
        <5>1. Len(saved) \in Nat /\ Len(saved) # 0
          BY <4>1
        <5>2. ~(Len(saved) > 1)
          BY <4>2, Zenon
        <5> QED BY <5>1, <5>2
      <4> QED BY <4>1, <4>2, <4>3, RangeFacts
    <3>2. branch.hist \cup Range(strays) \subseteq branch'.hist \cup Range(strays')
      BY <2>0, <3>1, LandCommits
    <3>3. Last(saved) \in branch'.hist
      <4>1. Unhindered
        BY <1>1, <2>2, Zenon DEF Rescue
      <4> QED BY <3>1, <4>1 DEF Land, Unhindered
    <3> QED BY <3>1, <3>2, <3>3 DEF Committed
  <2>3. CASE Commit
    <3>1. branch.hist \cup Range(strays) \subseteq branch'.hist \cup Range(strays')
      BY <2>0, <2>3, LandCommits DEF Commit, TypeOK
    <3> QED BY <2>3, <3>1 DEF Commit, Committed
  <2>4. CASE Pull
    <3>1. CASE PullIn(remote)
      <4>1. branch.hist \subseteq branch'.hist
        BY <1>1, <2>0, <3>1, ReplayFacts DEF IInv, TypeOK
      <4> QED BY <2>4, <4>1 DEF Pull, Goto, ClearThen, Committed
    <3>2. CASE UNCHANGED branch
      BY <2>4, <3>2 DEF Pull, Goto, ClearThen, Committed
    <3> QED BY <2>4, <3>1, <3>2 DEF Pull
  <2>5. CASE MergeOurs
    <3>1. branch.hist \subseteq branch'.hist
      BY <2>0, <2>5 DEF MergeOurs, TypeOK, Ref
    <3> QED BY <2>5, <3>1 DEF MergeOurs, Goto, placeVars, Committed
  <2>6. CASE ReplayOurs
    <3>1. saved' = saved /\ strays = <<>>
      BY <1>1, <2>6 DEF ReplayOurs, Goto, NextAttempt, IInv, Heads
    <3>2. CASE PullIn(fetched)
      <4>1. CASE Behind(fetched)
        <5>1. branch.hist \cap Theirs \subseteq fetched.hist
          BY <1>1, <2>6, <4>1 DEF IInv, Outside, ReplayOurs
        <5>2. branch.hist \subseteq branch'.hist
          BY <1>1, <2>0, <3>2, <5>1, ReplayFacts DEF IInv, TypeOK
        <5> QED BY <3>1, <5>2, RangeEmpty DEF Committed
      <4>2. CASE ~Behind(fetched)
        BY <3>1, <3>2, <4>2, RangeEmpty DEF PullIn, Committed
      <4> QED BY <4>1, <4>2
    <3>3. CASE UNCHANGED branch
      BY <3>1, <3>3, RangeEmpty DEF Committed
    <3> QED BY <2>6, <3>2, <3>3 DEF ReplayOurs
  <2>7. ASSUME NEW o \in Ours, StrayCommit(o) PROVE Committed \subseteq Committed'
    <3>1. strays \in Seq(Ours) /\ strays' = strays \o <<o>> /\ <<o>> \in Seq(Ours)
      <4>1. strays \in Seq(Ours) /\ strays' = Append(strays, o)
        BY <2>0, <2>7 DEF StrayCommit, TypeOK
      <4> QED BY <4>1, AppendIsConcat
    <3>2. Range(strays) \subseteq Range(strays')
      <4>1. Range(strays \o <<o>>) = Range(strays) \cup Range(<<o>>)
        BY <3>1, RangeFacts
      <4> QED BY <3>1, <4>1
    <3> QED BY <2>7, <3>2 DEF StrayCommit, runVars, gitVars, Committed
  <2>8. CASE PersonEnds
    BY <2>8 DEF PersonEnds, runVars, Committed
  <2>9. CASE Crash
    <3>1. saved = <<>>
      BY <1>1, <2>0, <2>9
    <3> QED BY <2>9, <3>1, RangeEmpty DEF Crash, gitVars, Committed
  <2>10. CASE Kernel /\ ~(Clear \/ Rescue \/ Commit \/ Pull \/ MergeOurs \/ ReplayOurs)
    BY <2>10 DEF Kernel, Begin, JobsEnd, CommitCheck, PullFails, Fetch, Push, SyncFails, Ask, TheirTip,
           AdoptedFails, ClearThen, Goto, TryAgain, NextAttempt, gitVars, placeVars, Committed
  <2>11. CASE Others /\ ~PersonEnds /\ ~PersonAborts /\ ~Crash /\ ~\E o \in Ours : StrayCommit(o)
    BY <2>11 DEF Others, Edit, OutsidePush, NetChanges, PersonEdits, PersonStarts, gitVars, placeVars, runVars,
           Committed
  <2>12. CASE UNCHANGED vars
    BY <2>12 DEF vars, gitVars, placeVars, runVars, Committed
  <2> QED BY <1>1, <2>1, <2>2, <2>3, <2>4, <2>5, <2>6, <2>7, <2>8, <2>9, <2>10, <2>11, <2>12 DEF Next, Others
<1> QED BY <1>1, IInvAlways, PTL DEF Spec, CommitsKept

\* Whichever side is of record, the remote for an adopted brain and the box for a
\* pebble, loses nothing to the other.
THEOREM RecordIsKept == Spec => RecordKept
  BY AdoptedOverridesNothing, PebbleIsOfRecord DEF RecordKept
=============================================================================
