------------------------------ MODULE TeamProofs ------------------------------
(***************************************************************************)
(* Proofs about a team's writers, for every set of proposals and processes *)
(* and any number of faults: the lock on the company brain's clone         *)
(* (TeamLock), and the proposals and rule pages written under it           *)
(* (TeamProposals).                                                        *)
(*                                                                         *)
(* The lock's inductive invariant is LockInv: the types, and every         *)
(* holder's directory is the one it made unless a live holder's was        *)
(* broken.  That nobody takes the directory or the token from a holder     *)
(* whose token is in it follows from it, step by step.                     *)
(*                                                                         *)
(* That of the proposals, ProposalsInv, adds to the types that only the    *)
(* process inside the lock is under way (LockOK), that the check of an     *)
(* approval still holds when it writes the page (WriteOK), that a decision *)
(* is on disk when its pending file goes (UnlinkOK), and that neither the  *)
(* index nor the working tree is behind the commit (TreesOK), nor a commit *)
(* that waits for its push behind the ones before it (ChainOK).  CleanOK   *)
(* says, until work is torn, what the process inside has done so far and   *)
(* that the rest is in the commit; with it every commit is a step of       *)
(* TeamRules, or changes nothing there.                                    *)
(***************************************************************************)
EXTENDS TeamLock, TeamProposals, TLAPS

-----------------------------------------------------------------------------
(* The lock of the company brain.                                          *)

LockInv == LockTypeOK /\ HolderMadeIt

\* The initial state satisfies the invariant: nobody holds anything.
LEMMA LockInitInv == LockInit => LockInv
<1> SUFFICES ASSUME LockInit PROVE LockInv
  OBVIOUS
<1>1. LockTypeOK
  BY NoneAssumption DEF LockInit, LockTypeOK, LockStages
<1>2. HolderMadeIt
  BY DEF LockInit, HolderMadeIt, Holding
<1> QED BY <1>1, <1>2 DEF LockInv

\* The types are kept by every step.
LEMMA LockTypeStep == ASSUME LockTypeOK, [LockNext]_lockVars PROVE LockTypeOK'
<1> USE NoneAssumption, LockBounds DEF LockTypeOK, Proceed, LockStages
<1>1. ASSUME NEW p \in Writer, Arrive(p) PROVE LockTypeOK'
  BY <1>1 DEF Arrive
<1>2. ASSUME NEW p \in Writer, Mkdir(p) PROVE LockTypeOK'
  BY <1>2 DEF Mkdir
<1>3. ASSUME NEW p \in Writer, Stat(p) PROVE LockTypeOK'
  BY <1>3 DEF Stat
<1>4. ASSUME NEW p \in Writer, Break(p) PROVE LockTypeOK'
  BY <1>4 DEF Break, Holding
<1>5. ASSUME NEW p \in Writer, WriteToken(p) PROVE LockTypeOK'
  BY <1>5 DEF WriteToken
<1>6. ASSUME NEW p \in Writer, WriteTokenFails(p) PROVE LockTypeOK'
  <2>1. aged' \in BOOLEAN
    BY <1>6 DEF WriteTokenFails
  <2>2. lockFaults' \in Nat /\ token' \in Writer \cup {None, Torn}
    BY <1>6 DEF WriteTokenFails
  <2> QED BY <1>6, <2>1, <2>2 DEF WriteTokenFails
<1>7. ASSUME NEW p \in Writer, Leave(p) \/ Check(p) PROVE LockTypeOK'
  BY <1>7 DEF Leave, Check
<1>8. ASSUME NEW p \in Writer, Empty(p) PROVE LockTypeOK'
  BY <1>8 DEF Empty
<1>9. ASSUME NEW p \in Writer, Rmdir(p) PROVE LockTypeOK'
  BY <1>9 DEF Rmdir
<1>10. ASSUME NEW p \in Writer, Expire(p) \/ Die(p) PROVE LockTypeOK'
  BY <1>10 DEF Expire, Die
<1>11. ASSUME Age PROVE LockTypeOK'
  BY <1>11 DEF Age
<1>12. ASSUME UNCHANGED lockVars PROVE LockTypeOK'
  BY <1>12 DEF lockVars
<1> QED
  BY <1>1, <1>2, <1>3, <1>4, <1>5, <1>6, <1>7, <1>8, <1>9, <1>10, <1>11, <1>12
     DEF LockNext, Step

\* Every step keeps every holder's directory its own, or breaks one.
LEMMA HolderStep == ASSUME LockInv, [LockNext]_lockVars, LockTypeOK' PROVE HolderMadeIt'
<1> USE NoneAssumption DEF LockInv, LockTypeOK, HolderMadeIt, Holding, Proceed
<1>1. ASSUME NEW p \in Writer, Arrive(p) \/ Stat(p) \/ Check(p) \/ Expire(p)
      PROVE  HolderMadeIt'
  BY <1>1 DEF Arrive, Stat, Check, Expire
<1>2. ASSUME NEW p \in Writer, Mkdir(p) PROVE HolderMadeIt'
  <2>1. CASE maker = None
    <3>1. ~broken => \A q \in Writer : ~Holding(q)
      BY <2>1
    <3> QED BY <1>2, <2>1, <3>1 DEF Mkdir
  <2>2. CASE maker # None
    BY <1>2, <2>2 DEF Mkdir
  <2> QED BY <2>1, <2>2
<1>3. ASSUME NEW p \in Writer, Break(p) PROVE HolderMadeIt'
  <2>1. CASE maker # None /\ token = None
    <3>1. SUFFICES ASSUME ~broken', NEW q \in Writer, Holding(q)'
                   PROVE  FALSE
      BY DEF HolderMadeIt
    <3>2. ~broken /\ ~Holding(maker)
      BY <1>3, <2>1, <3>1 DEF Break
    <3>3. Holding(q)
      BY <1>3, <3>1 DEF Break
    <3> QED BY <3>2, <3>3
  <2>2. CASE ~(maker # None /\ token = None)
    BY <1>3, <2>2 DEF Break
  <2> QED BY <2>1, <2>2
<1>4. ASSUME NEW p \in Writer, WriteToken(p) \/ WriteTokenFails(p) \/ Leave(p)
      PROVE  HolderMadeIt'
  BY <1>4 DEF WriteToken, WriteTokenFails, Leave
<1>5. ASSUME NEW p \in Writer, Empty(p) PROVE HolderMadeIt'
  BY <1>5 DEF Empty
<1>6. ASSUME NEW p \in Writer, Rmdir(p) PROVE HolderMadeIt'
  <2>1. SUFFICES ASSUME ~broken', NEW q \in Writer, Holding(q)' PROVE maker' = q
    BY DEF HolderMadeIt
  <2>2. ~broken /\ q # p /\ Holding(q) /\ Holding(p)
    BY <1>6, <2>1 DEF Rmdir
  <2> QED BY <2>2
<1>7. ASSUME NEW p \in Writer, Die(p) PROVE HolderMadeIt'
  BY <1>7 DEF Die
<1>8. ASSUME Age \/ UNCHANGED lockVars PROVE HolderMadeIt'
  BY <1>8 DEF Age, lockVars
<1> QED
  BY <1>1, <1>2, <1>3, <1>4, <1>5, <1>6, <1>7, <1>8 DEF LockNext, Step

LEMMA LockStepInv == ASSUME LockInv, [LockNext]_lockVars PROVE LockInv'
  BY LockTypeStep, HolderStep DEF LockInv

\* A holder's lock with its token in it survives every step.
LEMMA InUseStep ==
    ASSUME LockInv, [LockNext]_lockVars, ~broken, NEW p \in Writer, InUse(p)
    PROVE  maker' = p /\ token' = p
<1> USE NoneAssumption DEF LockInv, LockTypeOK, HolderMadeIt, Holding, InUse, Proceed
<1>1. \A q \in Writer : Holding(q) => q = p
  OBVIOUS
<1>2. ASSUME NEW q \in Writer, Arrive(q) \/ Stat(q) \/ Check(q) \/ Expire(q)
             \/ Leave(q) \/ Die(q)
      PROVE  maker' = p /\ token' = p
  BY <1>2 DEF Arrive, Stat, Check, Expire, Leave, Die
<1>3. ASSUME NEW q \in Writer, Mkdir(q) \/ Break(q) PROVE maker' = p /\ token' = p
  BY <1>3 DEF Mkdir, Break
<1>4. ASSUME NEW q \in Writer,
             WriteToken(q) \/ WriteTokenFails(q) \/ Empty(q) \/ Rmdir(q)
      PROVE  FALSE
  <2>1. Holding(q) /\ stage[q] # "inside"
    BY <1>4 DEF WriteToken, WriteTokenFails, Empty, Rmdir
  <2> QED BY <1>1, <2>1
<1>5. ASSUME Age \/ UNCHANGED lockVars PROVE maker' = p /\ token' = p
  BY <1>5 DEF Age, lockVars
<1> QED BY <1>2, <1>3, <1>4, <1>5 DEF LockNext, Step

\* In every behaviour the variables have their types, and a token lies in a
\* directory.
THEOREM LockTypeCorrect == LockSpec => []LockTypeOK
<1>1. LockInv => LockTypeOK
  BY DEF LockInv
<1> QED BY <1>1, LockInitInv, LockStepInv, PTL DEF LockSpec

\* At most one process is between withBrainLock's mkdir and the end of fn, in every
\* behaviour, until a waiter's rmdir hits a live holder's directory.
THEOREM OneWriterAtATime == LockSpec => []OneWriterUnlessBroken
<1>1. LockInv => OneWriterUnlessBroken
  BY DEF LockInv, HolderMadeIt, OneWriterUnlessBroken, OneWriter, Holding
<1> QED BY <1>1, LockInitInv, LockStepInv, PTL DEF LockSpec

\* No step of any behaviour takes the directory or the token of a holder that has
\* its token in it, however old both are: `stale' never means `in use'.
THEOREM LockInUseIsKept == LockSpec => KeepsLockInUse
<1>1. LockInv /\ [LockNext]_lockVars =>
        [\A p \in Writer : ~broken /\ InUse(p) => maker' = p /\ token' = p]_lockVars
  BY InUseStep
<1> QED BY <1>1, LockInitInv, LockStepInv, PTL DEF LockSpec, KeepsLockInUse

-----------------------------------------------------------------------------
(* The proposals.                                                          *)

LockOK == \A p \in Proc : pc[p] # "off" <=> lock = p

WriteOK == \A p \in Proc : pc[p] = "write" => wt.page = base[task[p][1]]

UnlinkOK ==
    \A p \in Proc : pc[p] = "unlink" => AreaOf(task[p][2]) \in wt.at[task[p][1]]

\* What one tree knows of a proposal, and has settled, so has the other.
Ahead(old, new) ==
    \A q \in Prop : /\ old[q] # {} => new[q] # {}
                    /\ Settled(old, q) => Settled(new, q)

TreesOK == Ahead(head.at, index.at) /\ Ahead(index.at, wt.at)
ChainOK ==
    /\ \A i, j \in 1..Len(chain) : i <= j => Ahead(chain[i].at, chain[j].at)
    /\ ~detached => chain[Len(chain)].at = head.at

ProposalsInv == TypeOK /\ LockOK /\ WriteOK /\ UnlinkOK /\ TreesOK /\ ChainOK

LEMMA AreaOfIsAnArea ==
    ASSUME NEW v \in Verdicts
    PROVE  AreaOf(v) \in Areas \ {"pending"}
  BY DEF AreaOf, Verdicts, Areas

LEMMA NoTaskIsATask == NoTask \in Prop \X Verdicts
  BY StaffAssumption DEF NoTask, Verdicts

LEMMA AheadOfItself == ASSUME NEW t PROVE Ahead(t, t)
  BY DEF Ahead

LEMMA FurtherAhead ==
    ASSUME NEW s, NEW t, NEW u, Ahead(s, t), Ahead(t, u)
    PROVE  Ahead(s, u)
  BY DEF Ahead

-----------------------------------------------------------------------------
(* Type correctness.                                                       *)

\* The initial state has its types.
LEMMA TypeInit == Init => TypeOK
<1> SUFFICES ASSUME Init PROVE TypeOK
  OBVIOUS
<1>1. wt \in Trees /\ head = wt
  BY DEF Init, Trees, Pages, Places
<1>2. task \in [Proc -> Prop \X Verdicts]
  BY NoTaskIsATask DEF Init
<1>3. chain \in Seq(Commits) /\ chain # <<>> /\ shared \in Pages
  <2>1. [at |-> head.at, rule |-> FALSE] \in Commits
    BY <1>1 DEF Commits, Trees
  <2> HIDE DEF Commits
  <2>2. chain = <<[at |-> head.at, rule |-> FALSE]>>
    BY DEF Init
  <2> QED BY <2>1, <2>2 DEF Init, Pages
<1> QED BY <1>1, <1>2, <1>3, BoundsAssumption DEF Init, TypeOK, Stages

\* Every pull is one of two: it stops at a commit of the branch, or lets the branch
\* and what lies where be.
Smooth ==
    /\ wt'.at = wt.at /\ head'.at = head.at
    /\ index'.at \in {index.at, [q \in Prop |-> head.at[q] \cup index.at[q]]}
    /\ wt'.page \in {wt.page, Edited, Mixed}
    /\ UNCHANGED <<detached, chain, torn>>

LEMMA PullCases ==
    ASSUME TypeOK, Pull
    PROVE  \/ Smooth
           \/ ~detached /\ \E i \in 2..Len(chain) : chain[i].rule /\ Stop(i)
<1> USE DEF TypeOK, Trees
<1>1. CASE UNCHANGED <<wt, index, head, cloneVars, torn, edits>>
  BY <1>1 DEF cloneVars, Smooth
<1>2. CASE index' = Unstashed(head) /\ UNCHANGED <<wt, head, cloneVars, torn, edits>>
  BY <1>2 DEF cloneVars, Smooth, Unstashed
<1>3. CASE PullsEdit /\ wt' \in {[wt EXCEPT !.page = Edited], [wt EXCEPT !.page = Mixed]}
  <2>1. head'.at = head.at /\ wt'.at = wt.at /\ wt'.page \in {Edited, Mixed}
    BY <1>3 DEF PullsEdit
  <2>2. index'.at = [q \in Prop |-> head.at[q] \cup index.at[q]]
    BY <1>3, <2>1 DEF PullsEdit, Unstashed
  <2> QED BY <1>3, <2>1, <2>2 DEF PullsEdit, Smooth
<1> QED BY <1>1, <1>2, <1>3 DEF Pull

\* A pull keeps the three trees trees.
LEMMA PullType ==
    ASSUME TypeOK, Pull
    PROVE  /\ wt' \in Trees /\ index' \in Trees /\ head' \in Trees
           /\ unmerged' \in BOOLEAN /\ detached' \in BOOLEAN /\ torn' \in BOOLEAN
           /\ chain' = chain /\ shared' \in Pages /\ edits' \in Nat
<1> USE DEF TypeOK
<1>1. ASSUME NEW commit \in Trees PROVE Unstashed(commit) \in Trees
  BY <1>1 DEF Unstashed, Trees, Places
<1>2. CASE UNCHANGED <<wt, index, head, cloneVars, torn, edits>>
  BY <1>2 DEF cloneVars
<1>3. CASE index' = Unstashed(head) /\ UNCHANGED <<wt, head, cloneVars, torn, edits>>
  BY <1>1, <1>3 DEF cloneVars
<1>4. CASE /\ PullsEdit /\ unmerged' \in BOOLEAN
           /\ wt' \in {[wt EXCEPT !.page = Edited], [wt EXCEPT !.page = Mixed]}
  <2>1. wt' \in Trees /\ head' \in Trees
    BY <1>4 DEF PullsEdit, Trees, Pages
  <2> QED BY <1>1, <1>4, <2>1 DEF PullsEdit, Pages
<1>5. ASSUME NEW i \in 2..Len(chain), Stop(i)
      PROVE  /\ wt' \in Trees /\ index' \in Trees /\ head' \in Trees
             /\ chain' = chain /\ shared' \in Pages /\ edits' \in Nat
             /\ unmerged' = TRUE /\ detached' = TRUE /\ torn' = TRUE
  <2>1. chain[i].at \in Places /\ chain[i - 1].at \in Places
    <3>1. i \in 1..Len(chain) /\ i - 1 \in 1..Len(chain)
      OBVIOUS
    <3>2. chain[i] \in Commits /\ chain[i - 1] \in Commits
      BY <3>1
    <3> QED BY <3>2 DEF Commits
  <2>2. wt.at \in Places
    BY DEF Trees
  <2>3. wt' \in Trees /\ index' \in Trees /\ head' \in Trees
    BY <1>5, <2>1, <2>2 DEF Stop, Trees, Pages, Places
  <2> QED BY <1>5, <2>3 DEF Stop, Pages
<1> QED BY <1>2, <1>3, <1>4, <1>5 DEF Pull

LEMMA TypeStep == ASSUME TypeOK, [Next]_vars PROVE TypeOK'
<1> USE DEF TypeOK, Goto, Finish, Stages, cloneVars, othersVars, faultVars
<1>0. Prop # {} /\ NoTask \in Prop \X Verdicts
  BY StaffAssumption, NoTaskIsATask
<1>1. ASSUME NEW q \in Prop, Publish(q) \/ ProposeHere(q) PROVE TypeOK'
  BY <1>1 DEF Publish, ProposeHere, Trees
<1>2. ASSUME NEW p \in Proc, HubBegin(p) PROVE TypeOK'
  BY <1>2, PullType DEF HubBegin, TakeLock
<1>3. ASSUME NEW p \in Proc, HubImport(p) \/ HubImportPartly(p) PROVE TypeOK'
  BY <1>3 DEF HubImport, HubImportPartly
<1>4. ASSUME NEW p \in Proc, HubQueue(p) PROVE TypeOK'
  <2>1. wt' \in Trees
    BY <1>4 DEF HubQueue, Trees, Places, Areas
  <2> QED BY <1>4, <2>1 DEF HubQueue
<1>5. ASSUME NEW p \in Proc, HubAddAll(p) PROVE TypeOK'
  BY <1>0, <1>5 DEF HubAddAll
<1>6. ASSUME NEW p \in Proc, NEW q \in Prop, QueueBegin(p, q) PROVE TypeOK'
  BY <1>6 DEF QueueBegin, TakeLock, Verdicts
<1>7. ASSUME NEW p \in Proc, QueueStage(p) PROVE TypeOK'
  <2>1. task[p][1] \in Prop
    OBVIOUS
  <2>2. wt' \in Trees
    <3>1. [wt EXCEPT !.at[task[p][1]] = {"pending"}] \in Trees
      BY <2>1 DEF Trees, Places, Areas
    <3>2. wt' \in {wt, [wt EXCEPT !.at[task[p][1]] = {"pending"}]}
      BY <1>7 DEF QueueStage
    <3> QED BY <3>1, <3>2
  <2>3. base' \in [Prop -> Pages \cup {NoBase}]
    BY <1>7, <2>1 DEF QueueStage, Trees
  <2> QED BY <1>0, <1>7, <2>2, <2>3 DEF QueueStage
<1>8. ASSUME NEW p \in Proc, QueueAdd(p) PROVE TypeOK'
  BY <1>8 DEF QueueAdd, Trees
<1>9. ASSUME NEW p \in Proc, NEW q \in Prop, NEW v \in Verdicts,
             DecideBegin(p, q, v)
      PROVE  TypeOK'
  BY <1>9, PullType DEF DecideBegin, TakeLock
<1>10. ASSUME NEW p \in Proc, DecideLook(p) PROVE TypeOK'
  BY <1>0, <1>10 DEF DecideLook
<1>11. ASSUME NEW p \in Proc, DecideWrite(p) \/ DecideFile(p) \/ DecideUnlink(p)
       PROVE  TypeOK'
  <2>1. task[p][1] \in Prop /\ AreaOf(task[p][2]) \in Areas
    BY AreaOfIsAnArea
  <2>2. wt' \in Trees
    <3>1. CASE DecideWrite(p)
      BY <2>1, <3>1 DEF DecideWrite, Trees, Pages
    <3>2. CASE DecideFile(p)
      BY <2>1, <3>2 DEF DecideFile, Trees, Places
    <3>3. CASE DecideUnlink(p)
      BY <2>1, <3>3 DEF DecideUnlink, Trees, Places
    <3> QED BY <1>11, <3>1, <3>2, <3>3
  <2> QED BY <1>11, <2>2 DEF DecideWrite, DecideFile, DecideUnlink
<1>12. ASSUME NEW p \in Proc, DecideAdd(p) PROVE TypeOK'
  <2>1. index' \in Trees
    BY <1>12 DEF DecideAdd, Trees
  <2> QED BY <1>12, <2>1 DEF DecideAdd
<1>13. ASSUME NEW p \in Proc, Commit(p) PROVE TypeOK'
  <2>1. /\ [at |-> index.at, rule |-> FALSE] \in Commits
        /\ [at |-> index.at, rule |-> index.page # head.page] \in Commits
        /\ index.page \in Pages
    BY DEF Commits, Trees
  <2>2. chain' \in Seq(Commits) /\ chain' # <<>> /\ shared' \in Pages
    <3> HIDE DEF Commits
    <3>1. CASE Pushed
      BY <2>1, <3>1 DEF Pushed
    <3>2. CASE NotPushed
      BY <2>1, <3>2 DEF NotPushed
    <3> QED BY <1>13, <3>1, <3>2 DEF Commit
  <2> QED BY <1>0, <1>13, <2>2 DEF Commit
<1>14. ASSUME NEW p \in Proc, CommitRefused(p) \/ Fail(p) PROVE TypeOK'
  <2>1. CASE CommitRefused(p)
    BY <1>0, <2>1 DEF CommitRefused
  <2>2. CASE Fail(p)
    <3>1. torn' \in BOOLEAN /\ faults' \in Nat
      BY <2>2 DEF Fail
    <3> QED BY <1>0, <2>2, <3>1 DEF Fail
  <2> QED BY <1>14, <2>1, <2>2
<1>15. ASSUME Answer PROVE TypeOK'
  BY <1>15, PullType DEF Answer
<1>16. ASSUME UNCHANGED vars PROVE TypeOK'
  BY <1>16 DEF vars
<1> QED
  BY <1>1, <1>2, <1>3, <1>4, <1>5, <1>6, <1>7, <1>8, <1>9, <1>10, <1>11, <1>12,
     <1>13, <1>14, <1>15, <1>16 DEF Next, Hub, Queue, Decide, Ends

-----------------------------------------------------------------------------
(* The lock.                                                               *)

\* A process that is under way is alone: it holds the lock.
LEMMA Alone ==
    ASSUME LockOK, NEW p \in Proc, pc[p] # "off"
    PROVE  lock = p /\ \A r \in Proc \ {p} : pc[r] = "off"
  BY DEF LockOK

\* The steps of a run that is under way: it goes on, or it ends.
Under(p) ==
    \/ HubImport(p) \/ HubImportPartly(p) \/ HubQueue(p) \/ HubAddAll(p)
    \/ Queue(p) \/ Decide(p) \/ Ends(p) \/ Fail(p)

\* The steps that begin one.
Begins(p) ==
    \/ HubBegin(p)
    \/ \E q \in Prop : QueueBegin(p, q)
    \/ \E q \in Prop, v \in Verdicts : DecideBegin(p, q, v)

\* The steps of no process.
Outside == \E q \in Prop : Publish(q) \/ ProposeHere(q)

LEMMA NextCases ==
    [Next]_vars <=> \/ Outside
                    \/ \E p \in Proc : Under(p) \/ Begins(p)
                    \/ Answer
                    \/ UNCHANGED vars
  BY DEF Next, Outside, Under, Begins, Hub

\* A run that is under way either keeps the lock and goes on, or is over.
LEMMA UnderGoesOnOrEnds ==
    ASSUME TypeOK, NEW p \in Proc, Under(p)
    PROVE  /\ pc[p] # "off"
           /\ \/ lock' = lock /\ \E s \in Stages \ {"off"} : Goto(p, s)
              \/ Finish(p)
<1> USE DEF Goto, Finish, Stages, TypeOK
<1>1. CASE HubImport(p) \/ HubImportPartly(p) \/ HubQueue(p)
  BY <1>1 DEF HubImport, HubImportPartly, HubQueue
<1>2. CASE HubAddAll(p)
  BY <1>2 DEF HubAddAll
<1>3. CASE QueueStage(p)
  BY <1>3 DEF QueueStage
<1>4. CASE QueueAdd(p)
  BY <1>4 DEF QueueAdd
<1>5. CASE DecideLook(p)
  BY <1>5 DEF DecideLook
<1>6. CASE DecideWrite(p) \/ DecideFile(p) \/ DecideUnlink(p) \/ DecideAdd(p)
  BY <1>6 DEF DecideWrite, DecideFile, DecideUnlink, DecideAdd
<1>7. CASE Ends(p) \/ Fail(p)
  BY <1>7 DEF Ends, Commit, CommitRefused, Fail
<1> QED
  BY <1>1, <1>2, <1>3, <1>4, <1>5, <1>6, <1>7 DEF Under, Queue, Decide

\* A run begins behind the lock, at one of three stages, with a task of its own.
LEMMA BeginsAtAStage ==
    ASSUME TypeOK, NEW p \in Proc, Begins(p)
    PROVE  /\ pc[p] = "off" /\ lock = NoProc /\ lock' = p
           /\ \E s \in {"import", "stage", "look"} : Goto(p, s)
  BY DEF Begins, HubBegin, QueueBegin, DecideBegin, TakeLock

\* To the trees a beginning is a pull, if only one that brings nothing.
LEMMA BeginsWithAPull ==
    ASSUME NEW p \in Proc, Begins(p) \/ Answer
    PROVE  Pull /\ UNCHANGED <<base, published, members, faults>>
  BY DEF Begins, HubBegin, QueueBegin, DecideBegin, Answer, Pull, othersVars, faultVars

LEMMA LockStep == ASSUME TypeOK, LockOK, [Next]_vars PROVE LockOK'
<1> USE ProcAssumption DEF TypeOK
<1>1. CASE Outside \/ Answer \/ UNCHANGED vars
  BY <1>1 DEF Outside, Publish, ProposeHere, Answer, vars, LockOK
<1>2. ASSUME NEW p \in Proc, Under(p) PROVE LockOK'
  <2>1. lock = p /\ \A r \in Proc \ {p} : pc[r] = "off"
    BY <1>2, UnderGoesOnOrEnds, Alone
  <2>2. CASE lock' = lock /\ \E s \in Stages \ {"off"} : Goto(p, s)
    BY <2>1, <2>2 DEF LockOK, Goto
  <2>3. CASE Finish(p)
    BY <2>1, <2>3 DEF LockOK, Finish, Goto
  <2> QED BY <1>2, <2>2, <2>3, UnderGoesOnOrEnds
<1>3. ASSUME NEW p \in Proc, Begins(p) PROVE LockOK'
  <2>1. \A r \in Proc : pc[r] = "off"
    BY <1>3, BeginsAtAStage DEF LockOK
  <2> QED BY <1>3, <2>1, BeginsAtAStage DEF LockOK, Goto
<1> QED BY <1>1, <1>2, <1>3, NextCases

\* Nobody is under way when a question is answered.
LEMMA AnswerAlone ==
    ASSUME LockOK, Answer, NEW r \in Proc
    PROVE  pc'[r] = "off"
  BY ProcAssumption DEF LockOK, Answer

-----------------------------------------------------------------------------
(* The check of an approval, and the order of a decision.                  *)

\* What a proposal is written against is settled once.
LEMMA BaseIsSettled ==
    ASSUME TypeOK, [Next]_vars, NEW q \in Prop, base[q] # NoBase
    PROVE  base'[q] = base[q]
<1> USE DEF TypeOK, othersVars
<1>1. CASE Outside \/ Answer \/ UNCHANGED vars
  BY <1>1 DEF Outside, Publish, ProposeHere, Answer, vars
<1>2. ASSUME NEW p \in Proc, Under(p) PROVE base'[q] = base[q]
  BY <1>2 DEF Under, HubImport, HubImportPartly, HubQueue, HubAddAll, Queue,
     QueueStage, QueueAdd, Decide, DecideLook, DecideWrite, DecideFile,
     DecideUnlink, DecideAdd, Ends, Commit, CommitRefused, Fail
<1>3. ASSUME NEW p \in Proc, Begins(p) PROVE base'[q] = base[q]
  BY <1>3, BeginsWithAPull
<1> QED BY <1>1, <1>2, <1>3, NextCases

\* Whoever is about to write the page or to remove a pending file is so because of
\* this very step.
LEMMA OnlyTheMover ==
    ASSUME TypeOK, LockOK, NEW p \in Proc, Under(p) \/ Begins(p),
           NEW r \in Proc, r # p
    PROVE  pc'[r] = "off"
<1>1. pc[r] = "off"
  <2>1. CASE Under(p)
    BY <2>1, UnderGoesOnOrEnds, Alone
  <2>2. CASE Begins(p)
    BY <2>2, BeginsAtAStage, ProcAssumption DEF LockOK
  <2> QED BY <2>1, <2>2
<1>2. \E s \in Stages : Goto(p, s)
  BY UnderGoesOnOrEnds, BeginsAtAStage DEF Finish, Stages
<1> QED BY <1>1, <1>2 DEF Goto, TypeOK

LEMMA WriteStep == ASSUME TypeOK, LockOK, WriteOK, [Next]_vars PROVE WriteOK'
<1> USE DEF TypeOK, WriteOK
<1> SUFFICES ASSUME NEW r \in Proc, pc'[r] = "write"
             PROVE  wt'.page = base'[task'[r][1]]
  OBVIOUS
<1>1. CASE Outside \/ UNCHANGED vars
  <2>1. pc[r] = "write" /\ wt' = wt /\ task' = task
    BY <1>1 DEF Outside, Publish, ProposeHere, vars
  <2>2. task[r][1] \in Prop /\ base[task[r][1]] # NoBase
    BY <2>1, PageAssumption DEF Trees, Pages
  <2> QED BY <2>1, <2>2, BaseIsSettled
<1>2. ASSUME NEW p \in Proc, Under(p) PROVE wt'.page = base'[task'[r][1]]
  <2>1. r = p
    BY <1>2, OnlyTheMover
  <2>2. DecideLook(p)
    BY <1>2, <2>1 DEF Under, HubImport, HubImportPartly, HubQueue, HubAddAll,
       Queue, QueueStage, QueueAdd, Decide, DecideLook, DecideWrite, DecideFile,
       DecideUnlink, DecideAdd, Ends, Commit, CommitRefused, Fail, Goto, Finish
  <2>3. task[p][2] = "approve" /\ wt.page = base[task[p][1]] /\ task' = task
    BY <2>1, <2>2 DEF DecideLook, Goto, Finish
  <2> QED BY <2>1, <2>2, <2>3 DEF DecideLook, othersVars
<1>3. ASSUME NEW p \in Proc, Begins(p) PROVE FALSE
  <2>1. r = p
    BY <1>3, OnlyTheMover
  <2> QED BY <1>3, <2>1, BeginsAtAStage DEF Goto
<1>4. CASE Answer
  BY <1>4, AnswerAlone
<1> QED BY <1>1, <1>2, <1>3, <1>4, NextCases

LEMMA UnlinkStep == ASSUME TypeOK, LockOK, UnlinkOK, [Next]_vars PROVE UnlinkOK'
<1> USE DEF TypeOK, UnlinkOK
<1> SUFFICES ASSUME NEW r \in Proc, pc'[r] = "unlink"
             PROVE  AreaOf(task'[r][2]) \in wt'.at[task'[r][1]]
  OBVIOUS
<1>1. CASE Outside \/ UNCHANGED vars
  BY <1>1 DEF Outside, Publish, ProposeHere, vars
<1>2. ASSUME NEW p \in Proc, Under(p)
      PROVE  AreaOf(task'[r][2]) \in wt'.at[task'[r][1]]
  <2>1. r = p
    BY <1>2, OnlyTheMover
  <2>2. DecideFile(p)
    BY <1>2, <2>1 DEF Under, HubImport, HubImportPartly, HubQueue, HubAddAll,
       Queue, QueueStage, QueueAdd, Decide, DecideLook, DecideWrite, DecideFile,
       DecideUnlink, DecideAdd, Ends, Commit, CommitRefused, Fail, Goto, Finish
  <2>3. task[p][1] \in Prop
    OBVIOUS
  <2> QED BY <2>1, <2>2, <2>3 DEF DecideFile, Trees, Places
<1>3. ASSUME NEW p \in Proc, Begins(p) PROVE FALSE
  <2>1. r = p
    BY <1>3, OnlyTheMover
  <2> QED BY <1>3, <2>1, BeginsAtAStage DEF Goto
<1>4. CASE Answer
  BY <1>4, AnswerAlone
<1> QED BY <1>1, <1>2, <1>3, <1>4, NextCases

-----------------------------------------------------------------------------
(* What the trees know, and have settled.                                  *)

\* No step of a run takes from the working tree what it knows or has settled.
LEMMA RunsGoAhead ==
    ASSUME TypeOK, UnlinkOK, NEW p \in Proc, Under(p)
    PROVE  Ahead(wt.at, wt'.at)
<1> USE DEF TypeOK, Known, Trees, Places, Ahead, Settled
<1>0. task[p][1] \in Prop /\ AreaOf(task[p][2]) \in Areas \ {"pending"}
  BY AreaOfIsAnArea
<1>1. CASE HubQueue(p)
  BY <1>1 DEF HubQueue
<1>2. CASE QueueStage(p)
  BY <1>0, <1>2 DEF QueueStage
<1>3. CASE DecideFile(p)
  BY <1>0, <1>3 DEF DecideFile
<1>4. CASE DecideUnlink(p)
  <2>1. AreaOf(task[p][2]) \in wt.at[task[p][1]]
    BY <1>4 DEF DecideUnlink, UnlinkOK
  <2> QED BY <1>0, <1>4, <2>1 DEF DecideUnlink
<1>5. CASE DecideWrite(p)
  BY <1>5 DEF DecideWrite
<1>6. CASE ~(HubQueue(p) \/ QueueStage(p) \/ DecideFile(p) \/ DecideUnlink(p)
             \/ DecideWrite(p))
  <2>1. wt' = wt
    BY <1>6 DEF Under, HubImport, HubImportPartly, HubAddAll, Queue,
       QueueAdd, Decide, DecideLook, DecideAdd, Ends, Commit, CommitRefused, Fail
  <2> QED BY <2>1
<1> QED BY <1>1, <1>2, <1>3, <1>4, <1>5, <1>6

\* A pull that stops keeps all that was pushed, and no tree is behind the next.
LEMMA StopGoesAhead ==
    ASSUME TypeOK, TreesOK, ChainOK, ~detached, NEW i \in 2..Len(chain), Stop(i)
    PROVE  /\ Ahead(chain[1].at, head'.at)
           /\ Ahead(head'.at, index'.at) /\ Ahead(index'.at, wt'.at)
<1> USE DEF TypeOK
<1>1. i \in 1..Len(chain) /\ i - 1 \in 1..Len(chain) /\ i - 1 <= i
      /\ 1 \in 1..Len(chain) /\ Len(chain) \in 1..Len(chain) /\ 1 <= i - 1 /\ i <= Len(chain)
  OBVIOUS
<1>2. /\ head'.at = chain[i - 1].at /\ index'.at = chain[i].at
      /\ wt'.at = [q \in Prop |-> chain[i].at[q] \cup (wt.at[q] \ index.at[q])]
  BY DEF Stop
<1>3. Ahead(chain[1].at, chain[i - 1].at) /\ Ahead(chain[i - 1].at, chain[i].at)
      /\ Ahead(chain[i].at, chain[Len(chain)].at)
  BY <1>1 DEF ChainOK
<1>4. Ahead(chain[i].at, wt.at)
  <2>1. Ahead(chain[i].at, head.at)
    BY <1>3 DEF ChainOK
  <2>2. Ahead(chain[i].at, index.at)
    BY <2>1, FurtherAhead DEF TreesOK
  <2> QED BY <2>2, FurtherAhead DEF TreesOK
<1>5. Ahead(chain[i].at, wt'.at)
  BY <1>2, <1>4 DEF Ahead, Settled
<1> QED BY <1>2, <1>3, <1>5

\* Any other step leaves each of the trees behind the next.
LEMMA SmoothGoesAhead ==
    ASSUME TypeOK, TreesOK, Smooth
    PROVE  TreesOK'
<1> USE DEF TypeOK, TreesOK, Smooth
<1>1. CASE index'.at = index.at
  BY <1>1
<1>2. CASE index'.at = [q \in Prop |-> head.at[q] \cup index.at[q]]
  <2>1. Ahead(head.at, index'.at) /\ Ahead(index'.at, wt.at)
    BY <1>2 DEF Ahead, Settled
  <2> QED BY <2>1
<1> QED BY <1>1, <1>2

LEMMA TreesStep ==
    ASSUME TypeOK, LockOK, UnlinkOK, TreesOK, ChainOK, [Next]_vars
    PROVE  TreesOK' /\ ChainOK'
<1> USE DEF TypeOK
<1>1. CASE Outside \/ UNCHANGED vars
  BY <1>1 DEF Outside, Publish, ProposeHere, vars, cloneVars, TreesOK, ChainOK
<1>2. ASSUME Pull PROVE TreesOK' /\ ChainOK'
  <2>2. CASE Smooth
    <3>1. TreesOK'
      BY <2>2, SmoothGoesAhead
    <3>2. ChainOK'
      BY <2>2 DEF Smooth, ChainOK
    <3> QED BY <3>1, <3>2
  <2>3. ASSUME ~detached, NEW i \in 2..Len(chain), Stop(i) PROVE TreesOK' /\ ChainOK'
    <3>1. TreesOK'
      BY <2>3, StopGoesAhead DEF TreesOK
    <3>2. ChainOK'
      BY <2>3 DEF Stop, ChainOK
    <3> QED BY <3>1, <3>2
  <2> QED BY <1>2, <2>2, <2>3, PullCases
<1>3. ASSUME NEW p \in Proc, Under(p) PROVE TreesOK' /\ ChainOK'
  <2>0. Ahead(wt.at, wt'.at) /\ Ahead(head.at, wt.at)
    <3>1. Ahead(head.at, wt.at)
      BY FurtherAhead DEF TreesOK
    <3> QED BY <1>3, <3>1, RunsGoAhead
  <2>1. CASE HubAddAll(p)
    <3>1. index' = wt /\ wt' = wt /\ UNCHANGED <<head, chain, detached>>
      BY <2>1 DEF HubAddAll
    <3> QED BY <2>0, <3>1, AheadOfItself DEF TreesOK, ChainOK
  <2>2. CASE QueueAdd(p) \/ DecideAdd(p)
    <3>1. index'.at = wt.at /\ wt' = wt /\ UNCHANGED <<head, chain, detached>>
      BY <2>2 DEF QueueAdd, DecideAdd, Trees, cloneVars
    <3> QED BY <2>0, <3>1, AheadOfItself DEF TreesOK, ChainOK
  <2>3. CASE Commit(p)
    <3>1. head' = index /\ UNCHANGED <<wt, index, detached>>
      BY <2>3 DEF Commit
    <3>2. TreesOK'
      BY <3>1, AheadOfItself DEF TreesOK
    <3>3. CASE Pushed
      <4>1. chain' = <<[at |-> index.at, rule |-> FALSE]>>
        BY <3>3 DEF Pushed
      <4>2. Len(chain') = 1 /\ chain'[1].at = index.at
        BY <4>1
      <4> QED BY <3>1, <3>2, <4>2, AheadOfItself DEF ChainOK
    <3>4. CASE NotPushed /\ detached
      BY <3>1, <3>2, <3>4 DEF NotPushed, ChainOK
    <3>5. CASE NotPushed /\ ~detached
      <4> DEFINE c == [at |-> index.at, rule |-> index.page # head.page]
                 n == Len(chain)
      <4>1. chain' = Append(chain, c) /\ c.at = index.at
        BY <3>5 DEF NotPushed
      <4> HIDE DEF c
      <4>2. /\ Len(chain') = n + 1 /\ n \in Nat \ {0} /\ chain'[n + 1] = c
            /\ \A k \in 1..n : chain'[k] = chain[k]
        BY <4>1
      <4>3. \A k \in 1..n : Ahead(chain[k].at, c.at)
        <5> SUFFICES ASSUME NEW k \in 1..n PROVE Ahead(chain[k].at, index.at)
          BY <4>1
        <5>1. n \in 1..n /\ k <= n
          BY <4>2
        <5>2. Ahead(chain[k].at, head.at)
          BY <3>5, <5>1 DEF ChainOK
        <5> QED BY <5>2, FurtherAhead DEF TreesOK
      <4>4. ASSUME NEW k \in 1..(n + 1), NEW l \in 1..(n + 1), k <= l
            PROVE  Ahead(chain'[k].at, chain'[l].at)
        <5>1. CASE l = n + 1 /\ k = n + 1
          BY <5>1, AheadOfItself
        <5>2. CASE l = n + 1 /\ k # n + 1
          <6>1. k \in 1..n
            BY <4>2, <5>2
          <6> QED BY <4>2, <4>3, <5>2, <6>1
        <5>3. CASE l # n + 1
          <6>1. k \in 1..n /\ l \in 1..n
            BY <4>2, <4>4, <5>3
          <6> QED BY <4>2, <4>4, <6>1 DEF ChainOK
        <5> QED BY <5>1, <5>2, <5>3
      <4>5. chain'[Len(chain')].at = head'.at
        BY <3>1, <4>1, <4>2
      <4> QED BY <3>2, <4>2, <4>4, <4>5 DEF ChainOK
    <3> QED BY <2>3, <3>3, <3>4, <3>5 DEF Commit
  <2>4. CASE ~(HubAddAll(p) \/ QueueAdd(p) \/ DecideAdd(p) \/ Commit(p))
    <3>1. UNCHANGED <<index, head, chain, detached>>
      BY <1>3, <2>4 DEF Under, HubImport, HubImportPartly, HubQueue, Queue,
         QueueStage, Decide, DecideLook, DecideWrite, DecideFile, DecideUnlink,
         Ends, CommitRefused, Fail, cloneVars
    <3>2. Ahead(index.at, wt'.at)
      BY <2>0, FurtherAhead DEF TreesOK
    <3> QED BY <3>1, <3>2 DEF TreesOK, ChainOK
  <2> QED BY <2>1, <2>2, <2>3, <2>4
<1>4. ASSUME NEW p \in Proc, Begins(p) PROVE TreesOK' /\ ChainOK'
  BY <1>2, <1>4, BeginsWithAPull
<1>5. CASE Answer
  BY <1>2, <1>5 DEF Answer
<1> QED BY <1>1, <1>3, <1>4, <1>5, NextCases

-----------------------------------------------------------------------------
(* The invariant, and the theorems.                                        *)

LEMMA InvInit == Init => ProposalsInv
<1> SUFFICES ASSUME Init PROVE ProposalsInv
  OBVIOUS
<1>1. LockOK /\ WriteOK /\ UnlinkOK
  BY ProcAssumption DEF Init, LockOK, WriteOK, UnlinkOK
<1>2. TreesOK
  BY AheadOfItself DEF Init, TreesOK
<1>3. ChainOK
  <2>1. Len(chain) = 1 /\ chain[1].at = head.at
    BY DEF Init
  <2> QED BY <2>1, AheadOfItself DEF ChainOK
<1> QED BY <1>1, <1>2, <1>3, TypeInit DEF ProposalsInv

LEMMA InvStep == ASSUME ProposalsInv, [Next]_vars PROVE ProposalsInv'
  BY TypeStep, LockStep, WriteStep, UnlinkStep, TreesStep DEF ProposalsInv

\* In every behaviour the variables have their types.
THEOREM TypeCorrect == Spec => []TypeOK
<1>1. ProposalsInv => TypeOK
  BY DEF ProposalsInv
<1> QED BY <1>1, InvInit, InvStep, PTL DEF Spec

\* What an approval overwrites is what its proposal was written against.
LEMMA ApprovalStep ==
    ASSUME ProposalsInv, [Next]_vars, NEW q \in Prop,
           wt'.page = q, wt.page # q
    PROVE  wt.page = base[q]
<1> USE DEF ProposalsInv, TypeOK, Trees
<1>1. CASE Outside \/ UNCHANGED vars
  BY <1>1 DEF Outside, Publish, ProposeHere, vars
<1>2. ASSUME Pull PROVE FALSE
  <2>1. CASE Smooth
    BY <2>1, PageAssumption DEF Smooth
  <2>2. ASSUME NEW i \in 2..Len(chain), Stop(i) PROVE FALSE
    BY <2>2, PageAssumption DEF Stop
  <2> QED BY <1>2, <2>1, <2>2, PullCases
<1>3. ASSUME NEW p \in Proc, Under(p) PROVE wt.page = base[q]
  <2>1. DecideWrite(p)
    BY <1>3 DEF Under, HubImport, HubImportPartly, HubQueue, HubAddAll, Queue,
       QueueStage, QueueAdd, Decide, DecideLook, DecideFile, DecideUnlink,
       DecideAdd, Ends, Commit, CommitRefused, Fail
  <2>2. task[p][1] = q
    BY <2>1 DEF DecideWrite
  <2> QED BY <2>1, <2>2 DEF DecideWrite, WriteOK
<1>4. ASSUME NEW p \in Proc, Begins(p) PROVE FALSE
  BY <1>2, <1>4, BeginsWithAPull
<1>5. CASE Answer
  BY <1>2, <1>5 DEF Answer
<1> QED BY <1>1, <1>3, <1>4, <1>5, NextCases

\* No approval undoes a change its author had not seen, whatever other runs, outside
\* edits, failures and stopped pulls come in between.
THEOREM NoUpdateIsLost == Spec => NoLostUpdate
<1>1. ProposalsInv /\ [Next]_vars =>
        [\A q \in Prop : wt'.page = q /\ wt.page # q => wt.page = base[q]]_vars
  BY ApprovalStep
<1> QED BY <1>1, InvInit, InvStep, PTL DEF Spec, NoLostUpdate

\* Every step leaves the working tree and the commit ahead of what they were, or, if
\* it is a pull that stops, of what was pushed.
LEMMA GoesAhead ==
    ASSUME ProposalsInv, [Next]_vars
    PROVE  /\ ~Stops => Ahead(wt.at, wt'.at) /\ Ahead(head.at, head'.at)
           /\ Stops => Ahead(chain[1].at, wt'.at) /\ Ahead(chain[1].at, head'.at)
<1> USE DEF ProposalsInv, TypeOK, Stops
<1>1. CASE Outside \/ UNCHANGED vars
  BY <1>1, AheadOfItself DEF Outside, Publish, ProposeHere, vars, cloneVars
<1>2. ASSUME Pull
      PROVE  /\ ~Stops => Ahead(wt.at, wt'.at) /\ Ahead(head.at, head'.at)
             /\ Stops => Ahead(chain[1].at, wt'.at) /\ Ahead(chain[1].at, head'.at)
  <2>1. CASE Smooth
    BY <2>1, AheadOfItself DEF Smooth
  <2>2. ASSUME ~detached, NEW i \in 2..Len(chain), Stop(i)
        PROVE  detached' /\ Ahead(chain[1].at, wt'.at) /\ Ahead(chain[1].at, head'.at)
    <3>1. /\ Ahead(chain[1].at, head'.at)
          /\ Ahead(head'.at, index'.at) /\ Ahead(index'.at, wt'.at)
      BY <2>2, StopGoesAhead
    <3>2. Ahead(chain[1].at, index'.at)
      BY <3>1, FurtherAhead
    <3>3. Ahead(chain[1].at, wt'.at)
      BY <3>1, <3>2, FurtherAhead
    <3> QED BY <2>2, <3>1, <3>3 DEF Stop
  <2> QED BY <1>2, <2>1, <2>2, PullCases
<1>3. ASSUME NEW p \in Proc, Begins(p) PROVE Pull
  BY <1>3, BeginsWithAPull
<1>4. ASSUME NEW p \in Proc, Under(p)
      PROVE  detached' = detached /\ Ahead(wt.at, wt'.at) /\ Ahead(head.at, head'.at)
  <2>1. (head' = head \/ head' = index) /\ detached' = detached
    BY <1>4 DEF Under, HubImport, HubImportPartly, HubQueue, HubAddAll, Queue,
       QueueStage, QueueAdd, Decide, DecideLook, DecideWrite, DecideFile,
       DecideUnlink, DecideAdd, Ends, Commit, CommitRefused, Fail, cloneVars
  <2>2. Ahead(wt.at, wt'.at)
    BY <1>4, RunsGoAhead
  <2>3. Ahead(head.at, head'.at)
    BY <2>1, AheadOfItself DEF TreesOK
  <2> QED BY <2>1, <2>2, <2>3
<1>5. CASE Answer
  BY <1>2, <1>5 DEF Answer
<1> QED BY <1>1, <1>2, <1>3, <1>4, <1>5, NextCases

\* A decided proposal never comes back into the owner's queue, unless a pull stops
\* before the decision was pushed.
THEOREM DecidedForGood == Spec => NeverQueuedAgain
<1>1. ASSUME ProposalsInv, [Next]_vars, NEW q \in Prop,
             Settled(wt.at, q), Stops => Settled(chain[1].at, q)
      PROVE  "pending" \notin wt'.at[q]
  BY <1>1, GoesAhead DEF Ahead, Settled
<1>2. ProposalsInv /\ [Next]_vars =>
        [\A q \in Prop :
            Settled(wt.at, q) /\ (Stops => Settled(chain[1].at, q))
               => "pending" \notin wt'.at[q]]_vars
  BY <1>1
<1> QED BY <1>2, InvInit, InvStep, PTL DEF Spec, NeverQueuedAgain

\* Neither the working tree nor a commit ever drops a proposal it knows, in whatever
\* step a run fails, unless a pull stops before it was pushed.
THEOREM NothingIsDropped == Spec => NeverDropped
<1>1. ASSUME ProposalsInv, [Next]_vars, NEW q \in Prop,
             Stops => chain[1].at[q] # {}
      PROVE  (Known(wt, q) => Known(wt, q)') /\ (Known(head, q) => Known(head, q)')
  BY <1>1, GoesAhead DEF Ahead, Known
<1>2. ProposalsInv /\ [Next]_vars =>
        [\A q \in Prop :
            (Stops => chain[1].at[q] # {}) =>
               /\ Known(wt, q) => Known(wt, q)'
               /\ Known(head, q) => Known(head, q)']_vars
  BY <1>1
<1> QED BY <1>2, InvInit, InvStep, PTL DEF Spec, NeverDropped

\* A proposal only moves forward.
THEOREM ProposalsMoveForward == Spec => OnlyForward
  BY DecidedForGood, NothingIsDropped DEF OnlyForward

\* No decision undoes another's change of the page, or is itself undone but by a pull
\* that stops before it was pushed.
THEOREM DecisionsRemain == Spec => DecisionsStand
  BY NoUpdateIsLost, ProposalsMoveForward DEF DecisionsStand

-----------------------------------------------------------------------------
(* The refinement.  Until work is torn the process inside the lock is the   *)
(* only one whose work is not in the commit, and what it has done of it so  *)
(* far is settled by the stage it is at.                                    *)

\* The commit with S in the queue, and the queue S may join.
Queued(S) ==
    [head EXCEPT !.at = [q \in Prop |-> IF q \in S THEN {"pending"} ELSE @[q]]]
Fresh(S) == \A q \in S : head.at[q] = {} /\ base[q] # NoBase

\* The working tree is the commit, but for q lying in these areas, and on the page
\* when it is approved.
Drafted(q, verdict, areas) ==
    /\ wt.page = IF verdict = "approve" THEN q ELSE head.page
    /\ \A r \in Prop : wt.at[r] = IF r = q THEN areas ELSE head.at[r]

\* The verdict may fall: q is queued, and if approved it fits the page.
Ready(q, verdict) ==
    /\ head.at[q] = {"pending"}
    /\ verdict = "approve" => head.page = base[q]

Undecided == {"import", "queueAll", "look", "stage", "write"}

QueueOK == \E S \in SUBSET Prop : Fresh(S) /\ wt = Queued(S)
DecisionOK(p, areas) ==
    /\ Ready(task[p][1], task[p][2])
    /\ Drafted(task[p][1], task[p][2], areas)

\* What the process p has done so far.
StageOK(p) ==
    LET q == task[p][1]
        area == AreaOf(task[p][2]) IN
    /\ pc[p] \in Undecided => wt = head
    /\ pc[p] = "write" => Ready(q, "approve") /\ task[p][2] = "approve"
    /\ pc[p] = "file" => DecisionOK(p, {"pending"})
    /\ pc[p] = "unlink" => DecisionOK(p, {"pending", area})
    /\ pc[p] = "add" => DecisionOK(p, {area})
    /\ pc[p] \in {"queueAdd", "addAll"} => QueueOK
    /\ pc[p] = "commit" => index = wt /\ (QueueOK \/ DecisionOK(p, {area}))
    /\ pc[p] \notin {"off", "commit"} => index = head

\* Nobody is inside: everything is committed.
RestOK == lock = NoProc => wt = head /\ index = head

\* In a commit a pending proposal has no verdict yet.
PendingOK == \A q \in Prop : "pending" \in head.at[q] => head.at[q] = {"pending"}

\* What is published has been written against a page.
PublishedOK == \A q \in published : base[q] # NoBase

\* No pull has left a conflict.
WholeOK == ~unmerged /\ ~detached

Clean == RestOK /\ PendingOK /\ WholeOK /\ \A p \in Proc : StageOK(p)
CleanOK == ~torn => Clean

LEMMA CleanInit == Init => CleanOK /\ PublishedOK
<1> SUFFICES ASSUME Init PROVE Clean /\ PublishedOK
  BY DEF CleanOK
<1>1. RestOK /\ PendingOK /\ WholeOK /\ PublishedOK
  BY DEF Init, RestOK, PendingOK, WholeOK, PublishedOK
<1>2. ASSUME NEW p \in Proc PROVE StageOK(p)
  BY <1>2 DEF Init, StageOK, Undecided
<1> QED BY <1>1, <1>2 DEF Clean

LEMMA PublishedStep ==
    ASSUME TypeOK, PublishedOK, [Next]_vars
    PROVE  PublishedOK'
<1> USE PageAssumption DEF TypeOK, PublishedOK
<1>1. ASSUME NEW q \in Prop, Publish(q) \/ ProposeHere(q) PROVE PublishedOK'
  BY <1>1, StaffAssumption DEF Publish, ProposeHere, Trees, Pages
<1>2. CASE UNCHANGED vars
  BY <1>2 DEF vars, othersVars
<1>3. ASSUME published' = published PROVE PublishedOK'
  <2>1. \A q \in Prop : base[q] # NoBase => base'[q] # NoBase
    BY BaseIsSettled
  <2> QED BY <1>3, <2>1, StaffAssumption
<1>4. ASSUME NEW p \in Proc, Under(p) PROVE published' = published
  BY <1>4 DEF Under, HubImport, HubImportPartly, HubQueue, HubAddAll, Queue,
     QueueStage, QueueAdd, Decide, DecideLook, DecideWrite, DecideFile,
     DecideUnlink, DecideAdd, Ends, Commit, CommitRefused, Fail, othersVars
<1>5. ASSUME NEW p \in Proc, Begins(p) PROVE published' = published
  BY <1>5, BeginsWithAPull
<1>6. CASE Answer
  BY <1>3, <1>6 DEF Answer, othersVars
<1> QED BY <1>1, <1>2, <1>3, <1>4, <1>5, <1>6, NextCases DEF Outside

\* The queue a run has built stays what it is while only bases are settled.
LEMMA QueueKept ==
    ASSUME UNCHANGED <<wt, head>>, QueueOK,
           \A q \in Prop : base[q] # NoBase => base'[q] # NoBase
    PROVE  QueueOK'
<1> SUFFICES ASSUME NEW S \in SUBSET Prop, Fresh(S), wt = Queued(S)
             PROVE  Fresh(S)' /\ wt' = Queued(S)'
  BY DEF QueueOK
<1>1. Fresh(S)'
  BY DEF Fresh
<1>2. Queued(S)' = Queued(S)
  BY DEF Queued
<1> QED BY <1>1, <1>2

\* A proposal nobody works on is at most given a base: nothing of a run changes.
LEMMA CleanOutside ==
    ASSUME TypeOK, Clean, Outside \/ UNCHANGED vars
    PROVE  Clean'
<1> USE DEF TypeOK
<1>1. UNCHANGED <<wt, index, head, unmerged, detached, lock, pc, task>>
  BY DEF Outside, Publish, ProposeHere, vars, cloneVars
<1>2. \A q \in Prop : base[q] # NoBase => base'[q] = base[q]
  BY BaseIsSettled, NextCases
<1>3. RestOK' /\ PendingOK' /\ WholeOK'
  BY <1>1 DEF Clean, RestOK, PendingOK, WholeOK
<1>4. QueueOK => QueueOK'
  BY <1>1, <1>2, QueueKept
<1>5. ASSUME NEW q \in Prop, NEW v, Ready(q, v) PROVE Ready(q, v)'
  <2>1. v = "approve" => base[q] # NoBase
    BY <1>5, PageAssumption DEF Ready, Trees, Pages
  <2> QED BY <1>1, <1>2, <1>5, <2>1 DEF Ready
<1>6. ASSUME NEW p \in Proc PROVE StageOK(p)'
  <2>1. task[p][1] \in Prop
    OBVIOUS
  <2>2. \A areas : DecisionOK(p, areas) => DecisionOK(p, areas)'
    BY <1>1, <1>5, <2>1 DEF DecisionOK, Drafted
  <2>3. StageOK(p)
    BY DEF Clean
  <2> QED BY <1>1, <1>4, <1>5, <2>1, <2>2, <2>3 DEF StageOK
<1> QED BY <1>3, <1>6 DEF Clean

\* What a step of p has to keep: the other processes are not under way.
LEMMA OfTheMover ==
    ASSUME TypeOK, LockOK, NEW p \in Proc, Under(p) \/ Begins(p),
           StageOK(p)', RestOK', PendingOK', WholeOK'
    PROVE  Clean'
<1>1. \A r \in Proc : r # p => StageOK(r)'
  BY OnlyTheMover DEF StageOK, Undecided
<1> QED BY <1>1 DEF Clean

\* Where nothing waits a pull brings an outside edit to all three trees, or to none.
LEMMA CleanPull ==
    ASSUME TypeOK, wt = head, index = head, WholeOK, Pull, ~torn'
    PROVE  /\ wt' = head' /\ index' = head' /\ WholeOK'
           /\ head' = head \/ head' = [head EXCEPT !.page = Edited]
<1> USE DEF TypeOK, WholeOK
<1>1. ASSUME NEW commit \in Trees, commit.at = index.at
      PROVE  Unstashed(commit) = commit
  BY <1>1 DEF Unstashed, Trees, Places
<1>2. CASE UNCHANGED <<wt, index, head, cloneVars, torn, edits>>
  BY <1>2 DEF cloneVars
<1>3. CASE index' = Unstashed(head) /\ UNCHANGED <<wt, head, cloneVars, torn, edits>>
  BY <1>1, <1>3 DEF cloneVars
<1>4. CASE PullsEdit /\ wt' = [wt EXCEPT !.page = Edited] /\ UNCHANGED unmerged
  <2>1. head' \in Trees /\ head'.at = index.at
    BY <1>4 DEF PullsEdit, Trees, Pages
  <2> QED BY <1>1, <1>4, <2>1 DEF PullsEdit
<1>5. ASSUME NEW i \in 2..Len(chain), Stop(i) PROVE FALSE
  BY <1>5 DEF Stop
<1> QED BY <1>2, <1>3, <1>4, <1>5 DEF Pull

LEMMA CleanBegins ==
    ASSUME TypeOK, LockOK, Clean, ~torn', NEW p \in Proc, Begins(p)
    PROVE  Clean'
<1> USE DEF TypeOK
<1>1. wt = head /\ index = head /\ WholeOK
  BY BeginsAtAStage DEF Clean, RestOK
<1>2. wt' = head' /\ index' = head' /\ head'.at = head.at /\ WholeOK'
  <2>1. Pull
    BY BeginsWithAPull
  <2> QED BY <1>1, <2>1, CleanPull DEF Trees
<1>3. pc'[p] \in {"import", "stage", "look"}
  BY BeginsAtAStage DEF Goto
<1>4. StageOK(p)'
  BY <1>2, <1>3 DEF StageOK, Undecided
<1>5. RestOK' /\ PendingOK'
  BY <1>2 DEF Clean, RestOK, PendingOK
<1> QED BY <1>2, <1>4, <1>5, OfTheMover

LEMMA CleanAnswer ==
    ASSUME TypeOK, LockOK, Clean, ~torn', Answer
    PROVE  Clean'
<1>1. wt = head /\ index = head /\ WholeOK /\ lock = NoProc
  BY DEF Clean, RestOK, Answer
<1>2. wt' = head' /\ index' = head' /\ head'.at = head.at /\ WholeOK'
  BY <1>1, CleanPull DEF Answer, Trees, TypeOK
<1>3. \A r \in Proc : StageOK(r)'
  BY AnswerAlone DEF StageOK, Undecided
<1> QED BY <1>2, <1>3 DEF Clean, RestOK, PendingOK

\* A run goes on from stage to stage, or it ends with everything committed.
LEMMA CleanUnder ==
    ASSUME ProposalsInv, PublishedOK, Clean, NEW p \in Proc, Under(p),
           ~torn',
           NEW q, NEW v, q = task[p][1], v = task[p][2]
    PROVE  Clean'
<1> USE DEF ProposalsInv, TypeOK, cloneVars, othersVars
<1>w. WholeOK'
  BY DEF Clean, WholeOK, Under, HubImport, HubImportPartly, HubQueue, HubAddAll, Queue,
     QueueStage, QueueAdd, Decide, DecideLook, DecideWrite, DecideFile, DecideUnlink,
     DecideAdd, Ends, Commit, CommitRefused, Fail
<1>0. /\ lock = p /\ lock # NoProc /\ pc[p] # "off" /\ StageOK(p) /\ PendingOK
      /\ q \in Prop /\ v \in Verdicts /\ AreaOf(v) \in Areas \ {"pending"}
  BY UnderGoesOnOrEnds, Alone, ProcAssumption, AreaOfIsAnArea DEF Clean
<1>1. CASE HubImport(p) \/ HubImportPartly(p)
  <2>1. /\ pc'[p] = "queueAll" /\ lock' = p
        /\ UNCHANGED <<wt, index, head>> /\ wt = head /\ index = head
    BY <1>0, <1>1 DEF HubImport, HubImportPartly, Goto, StageOK, Undecided
  <2>2. StageOK(p)'
    BY <2>1 DEF StageOK, Undecided
  <2> QED BY <1>0, <1>w, <2>1, <2>2, OfTheMover DEF RestOK, PendingOK
<1>2. CASE HubQueue(p)
  <2>0. PICK S \in SUBSET Prop : S = {r \in members : ~Known(wt, r)}
    BY StaffAssumption
  <2>1. /\ pc'[p] = "addAll" /\ lock' = p
        /\ UNCHANGED <<index, head, base>> /\ wt = head /\ index = head
    BY <1>0, <1>2 DEF HubQueue, Goto, StageOK, Undecided
  <2>2. Fresh(S)'
    BY <2>0, <2>1 DEF Fresh, Known, PublishedOK
  <2>3. wt' = Queued(S)'
    <3>1. wt' = [head EXCEPT !.at = [r \in Prop |->
                    IF r \in members /\ ~Known(wt, r) THEN {"pending"} ELSE @[r]]]
      BY <1>2, <2>1 DEF HubQueue
    <3>2. \A r \in Prop : r \in members /\ ~Known(wt, r) <=> r \in S
      BY <2>0
    <3> QED BY <2>1, <3>1, <3>2 DEF Queued
  <2>4. QueueOK'
    BY <2>2, <2>3 DEF QueueOK
  <2>5. StageOK(p)'
    BY <2>1, <2>4 DEF StageOK, Undecided
  <2> QED BY <1>0, <1>w, <2>1, <2>5, OfTheMover DEF RestOK, PendingOK
<1>3. CASE HubAddAll(p)
  <2>1. QueueOK /\ UNCHANGED <<wt, head, base>> /\ index' = wt
    BY <1>0, <1>3 DEF HubAddAll, StageOK
  <2>a. QueueOK'
    BY <2>1, QueueKept
  <2>2. CASE wt # head
    <3>1. pc'[p] = "commit" /\ lock' = p
      BY <1>0, <1>3, <2>2 DEF HubAddAll, Goto
    <3>2. StageOK(p)'
      BY <2>1, <2>a, <3>1 DEF StageOK, Undecided
    <3> QED BY <1>0, <1>w, <2>1, <3>1, <3>2, OfTheMover DEF RestOK, PendingOK
  <2>3. CASE wt = head
    <3>1. pc'[p] = "off"
      BY <1>3, <2>3 DEF HubAddAll, Finish, Goto
    <3>2. StageOK(p)'
      BY <3>1 DEF StageOK, Undecided
    <3> QED BY <1>0, <1>w, <2>1, <2>3, <3>2, OfTheMover DEF RestOK, PendingOK
  <2> QED BY <2>2, <2>3
<1>4. CASE QueueStage(p)
  <2>1. wt = head /\ UNCHANGED <<index, head>> /\ index = head
    BY <1>0, <1>4 DEF QueueStage, StageOK, Undecided
  <2>2. CASE Known(wt, q)
    <3>1. pc'[p] = "off" /\ wt' = wt
      BY <1>4, <2>2 DEF QueueStage, Finish, Goto
    <3>2. StageOK(p)'
      BY <3>1 DEF StageOK, Undecided
    <3> QED BY <1>0, <1>w, <2>1, <3>1, <3>2, OfTheMover DEF RestOK, PendingOK
  <2>3. CASE ~Known(wt, q)
    <3>1. pc'[p] = "queueAdd" /\ lock' = p
      BY <1>0, <1>4, <2>3 DEF QueueStage, Goto
    <3>2. Fresh({q})'
      <4>1. base'[q] # NoBase
        BY <1>0, <1>4, PageAssumption DEF QueueStage, Trees, Pages
      <4> QED BY <2>1, <2>3, <4>1 DEF Fresh, Known
    <3>3. wt' = Queued({q})'
      <4>1. wt' = [head EXCEPT !.at[q] = {"pending"}]
        BY <1>4, <2>1, <2>3 DEF QueueStage
      <4> QED BY <1>0, <2>1, <4>1 DEF Queued, Trees, Places
    <3>4. QueueOK'
      BY <1>0, <3>2, <3>3 DEF QueueOK
    <3>5. StageOK(p)'
      BY <2>1, <3>1, <3>4 DEF StageOK, Undecided
    <3> QED BY <1>0, <1>w, <2>1, <3>1, <3>5, OfTheMover DEF RestOK, PendingOK
  <2> QED BY <2>2, <2>3
<1>5. CASE QueueAdd(p)
  <2>1. QueueOK /\ UNCHANGED <<wt, head, base>> /\ index = head
    BY <1>0, <1>5 DEF QueueAdd, StageOK
  <2>a. QueueOK'
    BY <2>1, QueueKept
  <2>2. pc'[p] = "commit" /\ lock' = p
    BY <1>0, <1>5 DEF QueueAdd, Goto
  <2>3. index' = wt
    BY <1>5, <2>1 DEF QueueAdd, QueueOK, Queued, Trees
  <2>4. StageOK(p)'
    BY <2>1, <2>a, <2>2, <2>3 DEF StageOK, Undecided
  <2> QED BY <1>0, <1>w, <2>1, <2>2, <2>4, OfTheMover DEF RestOK, PendingOK
<1>6. CASE DecideLook(p)
  <2>1. wt = head /\ UNCHANGED <<wt, index, head, base>> /\ index = head
    BY <1>0, <1>6 DEF DecideLook, StageOK, Undecided
  <2>2. CASE "pending" \in wt.at[q] /\ (v = "approve" => wt.page = base[q])
    <3>1. /\ pc'[p] = (IF v = "approve" THEN "write" ELSE "file")
          /\ lock' = p /\ task' = task
      BY <1>0, <1>6, <2>2 DEF DecideLook, Goto
    <3>2. Ready(q, v) /\ head.at[q] = {"pending"}
      BY <1>0, <2>1, <2>2, <3>1 DEF Ready, PendingOK
    <3>3. Ready(q, v)'
      BY <2>1, <3>2 DEF Ready
    <3>4. v # "approve" => Drafted(q, v, {"pending"})'
      BY <1>0, <1>w, <2>1, <3>2 DEF Drafted
    <3>5. v # "approve" => DecisionOK(p, {"pending"})'
      BY <2>1, <3>1, <3>3, <3>4 DEF DecisionOK
    <3>6. StageOK(p)'
      BY <2>1, <3>1, <3>3, <3>5 DEF StageOK, Undecided
    <3> QED BY <1>0, <1>w, <2>1, <3>1, <3>6, OfTheMover DEF RestOK, PendingOK
  <2>3. CASE ~("pending" \in wt.at[q] /\ (v = "approve" => wt.page = base[q]))
    <3>1. pc'[p] = "off"
      BY <1>6, <2>3 DEF DecideLook, Finish, Goto
    <3>2. StageOK(p)'
      BY <3>1 DEF StageOK, Undecided
    <3> QED BY <1>0, <1>w, <2>1, <3>2, OfTheMover DEF RestOK, PendingOK
  <2> QED BY <2>2, <2>3
<1>7. CASE DecideWrite(p)
  <2>1. /\ wt = head /\ UNCHANGED <<index, head, base, task>> /\ index = head
        /\ Ready(q, v) /\ v = "approve" /\ pc'[p] = "file" /\ lock' = p
    BY <1>0, <1>7 DEF DecideWrite, StageOK, Undecided, Goto
  <2>2. Drafted(q, v, {"pending"})'
    BY <1>0, <1>7, <2>1 DEF DecideWrite, Drafted, Ready, Trees
  <2>3. DecisionOK(p, {"pending"})'
    BY <2>1, <2>2 DEF DecisionOK, Ready
  <2>4. StageOK(p)'
    BY <2>1, <2>3 DEF StageOK, Undecided
  <2> QED BY <1>0, <1>w, <2>1, <2>4, OfTheMover DEF RestOK, PendingOK
<1>8. CASE DecideFile(p)
  <2>1. /\ UNCHANGED <<index, head, base, task>> /\ index = head
        /\ DecisionOK(p, {"pending"}) /\ pc'[p] = "unlink" /\ lock' = p
    BY <1>0, <1>8 DEF DecideFile, StageOK, Undecided, Goto
  <2>2. Drafted(q, v, {"pending", AreaOf(v)})'
    BY <1>0, <1>8, <2>1 DEF DecideFile, DecisionOK, Drafted, Trees, Places
  <2>3. DecisionOK(p, {"pending", AreaOf(v)})'
    BY <2>1, <2>2 DEF DecisionOK, Ready
  <2>4. StageOK(p)'
    BY <2>1, <2>3 DEF StageOK, Undecided
  <2> QED BY <1>0, <1>w, <2>1, <2>4, OfTheMover DEF RestOK, PendingOK
<1>9. CASE DecideUnlink(p)
  <2>1. /\ UNCHANGED <<index, head, base, task>> /\ index = head
        /\ DecisionOK(p, {"pending", AreaOf(v)}) /\ pc'[p] = "add" /\ lock' = p
    BY <1>0, <1>9 DEF DecideUnlink, StageOK, Undecided, Goto
  <2>2. Drafted(q, v, {AreaOf(v)})'
    BY <1>0, <1>9, <2>1 DEF DecideUnlink, DecisionOK, Drafted, Trees, Places
  <2>3. DecisionOK(p, {AreaOf(v)})'
    BY <2>1, <2>2 DEF DecisionOK, Ready
  <2>4. StageOK(p)'
    BY <2>1, <2>3 DEF StageOK, Undecided
  <2> QED BY <1>0, <1>w, <2>1, <2>4, OfTheMover DEF RestOK, PendingOK
<1>10. CASE DecideAdd(p)
  <2>1. /\ UNCHANGED <<wt, head, base, task>> /\ index = head
        /\ DecisionOK(p, {AreaOf(v)}) /\ pc'[p] = "commit" /\ lock' = p
    BY <1>0, <1>10 DEF DecideAdd, StageOK, Undecided, Goto
  <2>2. index' = wt
    BY <1>0, <1>10, <2>1 DEF DecideAdd, DecisionOK, Drafted, Trees
  <2>3. DecisionOK(p, {AreaOf(v)})'
    BY <2>1 DEF DecisionOK, Ready, Drafted
  <2>4. StageOK(p)'
    BY <2>1, <2>2, <2>3 DEF StageOK, Undecided
  <2> QED BY <1>0, <1>w, <2>1, <2>4, OfTheMover DEF RestOK, PendingOK
<1>11. CASE Commit(p)
  <2>1. /\ head' = wt /\ wt' = wt /\ index' = wt /\ pc'[p] = "off"
        /\ (QueueOK \/ DecisionOK(p, {AreaOf(v)}))
    BY <1>0, <1>11 DEF Commit, StageOK, Finish, Goto
  <2>2. StageOK(p)'
    BY <2>1 DEF StageOK, Undecided
  <2>3. PendingOK'
    <3>1. CASE QueueOK
      BY <1>0, <1>w, <2>1, <3>1 DEF PendingOK, QueueOK, Queued, Trees
    <3>2. CASE DecisionOK(p, {AreaOf(v)})
      BY <1>0, <1>w, <2>1, <3>2 DEF PendingOK, DecisionOK, Drafted
    <3> QED BY <2>1, <3>1, <3>2
  <2> QED BY <1>w, <2>1, <2>2, <2>3, OfTheMover DEF RestOK
<1>12. CASE CommitRefused(p) \/ Fail(p)
  <2>1. pc'[p] = "off" /\ UNCHANGED <<wt, index, head>>
    BY <1>12 DEF CommitRefused, Fail, Finish, Goto
  <2>2. wt = head /\ index = head
    <3>1. CASE CommitRefused(p)
      BY <1>0, <3>1 DEF CommitRefused, StageOK, Clean, WholeOK
    <3>2. CASE Fail(p)
      BY <3>2 DEF Fail
    <3> QED BY <1>12, <3>1, <3>2
  <2>3. StageOK(p)'
    BY <2>1 DEF StageOK, Undecided
  <2> QED BY <1>0, <1>w, <2>1, <2>2, <2>3, OfTheMover DEF RestOK, PendingOK
<1> QED
  BY <1>1, <1>2, <1>3, <1>4, <1>5, <1>6, <1>7, <1>8, <1>9, <1>10, <1>11, <1>12
     DEF Under, Queue, Decide, Ends

\* What is torn stays torn.
LEMMA TornForGood == ASSUME TypeOK, [Next]_vars, ~torn' PROVE ~torn
<1> USE DEF faultVars
<1>1. CASE Outside \/ UNCHANGED vars
  BY <1>1 DEF Outside, Publish, ProposeHere, vars
<1>2. ASSUME Pull PROVE ~torn
  BY <1>2, PullCases DEF Smooth, Stop
<1>3. ASSUME NEW p \in Proc, Begins(p) PROVE ~torn
  BY <1>2, <1>3, BeginsWithAPull
<1>4. CASE Answer
  BY <1>2, <1>4 DEF Answer
<1>5. ASSUME NEW p \in Proc, Under(p) PROVE ~torn
  BY <1>5 DEF Under, HubImport, HubImportPartly, HubQueue, HubAddAll, Queue,
     QueueStage, QueueAdd, Decide, DecideLook, DecideWrite, DecideFile, DecideUnlink,
     DecideAdd, Ends, Commit, CommitRefused, Fail
<1> QED BY <1>1, <1>3, <1>4, <1>5, NextCases

LEMMA CleanStep ==
    ASSUME ProposalsInv, PublishedOK, CleanOK, [Next]_vars
    PROVE  CleanOK'
<1> USE DEF ProposalsInv
<1> SUFFICES ASSUME ~torn' PROVE Clean'
  BY DEF CleanOK
<1>0. Clean
  BY TornForGood DEF CleanOK
<1>1. CASE Outside \/ UNCHANGED vars
  BY <1>0, <1>1, CleanOutside
<1>2. ASSUME NEW p \in Proc, Begins(p) PROVE Clean'
  BY <1>0, <1>2, CleanBegins
<1>3. ASSUME NEW p \in Proc, Under(p) PROVE Clean'
  BY <1>0, <1>3, CleanUnder
<1>4. CASE Answer
  BY <1>0, <1>4, CleanAnswer
<1> QED BY <1>1, <1>2, <1>3, <1>4, NextCases

\* What everybody sees of a proposal depends on the areas it lies in, no more.
LEMMA StatusKept ==
    ASSUME NEW q \in Prop, head'.at[q] = head.at[q]
    PROVE  Status(q)' = Status(q)
  BY DEF Status

LEMMA StatusFrom ==
    ASSUME NEW q \in Prop
    PROVE  /\ head.at[q] = {} => Status(q) = "none"
           /\ head.at[q] = {"pending"} => Status(q) = "pending"
           /\ head.at[q] = {"approved"} => Status(q) = "approved"
           /\ head.at[q] = {"rejected"} => Status(q) = "rejected"
  BY DEF Status

\* A commit is an approval, a rejection, or proposals that join the queue.
LEMMA CommitIsARule ==
    ASSUME ProposalsInv, Clean, NEW p \in Proc, Commit(p)
    PROVE  Rules!Next
<1> USE DEF ProposalsInv, TypeOK
<1>1. StageOK(p) /\ pc[p] = "commit" /\ head' = wt /\ base' = base
  BY DEF Clean, Commit, StageOK, othersVars
<1>2. CASE QueueOK
  <2>1. PICK S \in SUBSET Prop : Fresh(S) /\ wt = Queued(S)
    BY <1>2 DEF QueueOK
  <2>2. /\ head'.page = head.page
        /\ \A q \in Prop :
              head'.at[q] = IF q \in S THEN {"pending"} ELSE head.at[q]
    BY <1>1, <2>1 DEF Queued, Trees
  <2>3. \A q \in S : Status(q) = "none" /\ base[q] # NoBase
    BY <2>1, StatusFrom DEF Fresh
  <2>4. \A q \in Prop : Status(q)' = IF q \in S THEN "pending" ELSE Status(q)
    <3> SUFFICES ASSUME NEW q \in Prop
                 PROVE  Status(q)' = IF q \in S THEN "pending" ELSE Status(q)
      OBVIOUS
    <3>1. CASE q \in S
      BY <2>2, <3>1 DEF Status
    <3>2. CASE q \notin S
      BY <2>2, <3>2, StatusKept
    <3> QED BY <3>1, <3>2
  <2>5. Rules!Queue(S)
    BY <1>1, <2>2, <2>3, <2>4 DEF Rules!Queue
  <2> QED BY <2>5 DEF Rules!Next
<1>3. CASE DecisionOK(p, {AreaOf(task[p][2])})
  <2>1. PICK q \in Prop, v \in Verdicts : task[p][1] = q /\ task[p][2] = v
    OBVIOUS
  <2>2. /\ head'.page = IF v = "approve" THEN q ELSE head.page
        /\ \A r \in Prop : head'.at[r] = IF r = q THEN {AreaOf(v)} ELSE head.at[r]
        /\ Ready(q, v)
    BY <1>1, <1>3, <2>1 DEF DecisionOK, Drafted
  <2>3. Status(q) = "pending" /\ Status(q)' = AreaOf(v)
    BY <2>2, AreaOfIsAnArea DEF Ready, Status, AreaOf
  <2>4. \A r \in Prop : r # q => Status(r)' = Status(r)
    BY <2>2, StatusKept
  <2>5. [r \in Prop |-> Status(r)]' = [[r \in Prop |-> Status(r)] EXCEPT ![q] = AreaOf(v)]
    BY <2>3, <2>4
  <2>6. CASE v = "approve"
    <3>1. Rules!Approve(q)
      BY <1>1, <2>2, <2>3, <2>5, <2>6 DEF Rules!Approve, Ready, AreaOf
    <3> QED BY <3>1 DEF Rules!Next
  <2>7. CASE v # "approve"
    <3>1. Rules!Reject(q)
      BY <1>1, <2>2, <2>3, <2>5, <2>7 DEF Rules!Reject, AreaOf
    <3> QED BY <3>1 DEF Rules!Next
  <2> QED BY <2>6, <2>7
<1> QED BY <1>1, <1>2, <1>3 DEF StageOK

\* A base is settled: that is a proposal.
LEMMA ProposeIsARule ==
    ASSUME ProposalsInv, NEW q \in Prop, base[q] = NoBase, head' = head,
           NEW c \in Pages, base' = [base EXCEPT ![q] = c]
    PROVE  Rules!Next
<1>1. \A r \in Prop : Status(r)' = Status(r)
  BY StatusKept
<1>2. Rules!Propose(q)
  BY <1>1 DEF Rules!Propose, Rules!Pages, Pages
<1> QED BY <1>2 DEF Rules!Next

LEMMA SameCommitSameRules ==
    ASSUME head' = head, base' = base
    PROVE  UNCHANGED Rules!vars
<1>1. \A r \in Prop : Status(r)' = Status(r)
  BY StatusKept
<1> QED BY <1>1 DEF Rules!vars

\* Until work is torn every step is one of TeamRules or changes nothing that everybody
\* sees.
LEMMA RulesStep ==
    ASSUME ProposalsInv, PublishedOK, CleanOK, [Next]_vars
    PROVE  [~torn' => Rules!Next]_(Rules!vars)
<1> USE DEF ProposalsInv, TypeOK
<1> SUFFICES ASSUME ~torn' PROVE Rules!Next \/ UNCHANGED Rules!vars
  OBVIOUS
<1>0. Clean
  BY TornForGood DEF CleanOK
<1>1. ASSUME NEW q \in Prop, Publish(q) \/ ProposeHere(q) PROVE Rules!Next
  <2>1. \E c \in Pages : base' = [base EXCEPT ![q] = c]
    BY <1>1 DEF Publish, ProposeHere, Trees
  <2> QED BY <1>1, <2>1, ProposeIsARule DEF Publish, ProposeHere
<1>2. CASE UNCHANGED vars
  BY <1>2, SameCommitSameRules DEF vars, othersVars
<1>3. ASSUME Pull, wt = head, index = head, base' = base
      PROVE  Rules!Next \/ UNCHANGED Rules!vars
  <2>1. CASE head' = head
    BY <1>3, <2>1, SameCommitSameRules
  <2>2. CASE head' = [head EXCEPT !.page = Edited]
    <3>1. head'.page = Edited /\ head'.at = head.at
      BY <2>2 DEF Trees
    <3>2. \A r \in Prop : Status(r)' = Status(r)
      BY <3>1, StatusKept
    <3>3. Rules!Edit
      BY <1>3, <3>1, <3>2 DEF Rules!Edit
    <3> QED BY <3>3 DEF Rules!Next
  <2> QED BY <1>0, <1>3, <2>1, <2>2, CleanPull DEF Clean
<1>4. ASSUME NEW p \in Proc, Begins(p) PROVE Rules!Next \/ UNCHANGED Rules!vars
  <2>1. wt = head /\ index = head
    BY <1>0, <1>4, BeginsAtAStage DEF Clean, RestOK
  <2> QED BY <1>3, <1>4, <2>1, BeginsWithAPull
<1>5. CASE Answer
  <2>1. wt = head /\ index = head
    BY <1>0, <1>5 DEF Clean, RestOK, Answer
  <2> QED BY <1>3, <1>5, <2>1 DEF Answer, othersVars
<1>6. ASSUME NEW p \in Proc, Under(p) PROVE Rules!Next \/ UNCHANGED Rules!vars
  <2>1. CASE Commit(p)
    BY <1>0, <2>1, CommitIsARule
  <2>2. CASE QueueStage(p)
    <3>1. head' = head
      BY <2>2 DEF QueueStage
    <3>2. CASE base[task[p][1]] = NoBase
      <4>1. base' = [base EXCEPT ![task[p][1]] = wt.page] /\ wt.page \in Pages
        BY <2>2, <3>2 DEF QueueStage, Trees
      <4>2. task[p][1] \in Prop
        OBVIOUS
      <4> QED BY <3>1, <3>2, <4>1, <4>2, ProposeIsARule
    <3>3. CASE base[task[p][1]] # NoBase
      BY <2>2, <3>1, <3>3, SameCommitSameRules DEF QueueStage
    <3> QED BY <3>2, <3>3
  <2>3. CASE ~(Commit(p) \/ QueueStage(p))
    <3>1. head' = head /\ base' = base
      BY <1>6, <2>3 DEF Under, HubImport, HubImportPartly, HubQueue, HubAddAll,
         Queue, QueueAdd, Decide, DecideLook, DecideWrite, DecideFile,
         DecideUnlink, DecideAdd, Ends, CommitRefused, Fail, othersVars
    <3> QED BY <3>1, SameCommitSameRules
  <2> QED BY <2>1, <2>2, <2>3
<1> QED BY <1>1, <1>2, <1>4, <1>5, <1>6, NextCases DEF Outside

LEMMA RulesInit == Init => Rules!Init
<1> SUFFICES ASSUME Init PROVE Rules!Init
  OBVIOUS
<1>1. \A q \in Prop : Status(q) = "none"
  BY StatusFrom DEF Init
<1> QED BY <1>1 DEF Rules!Init, Init

\* Until a run throws with work it has not committed, or a pull stops half-way, the
\* commits everybody sees go by the rules the team is promised:
\* the page changes with an approval and in its commit, an approval fits the page its
\* proposal was written against, and a verdict is final.
THEOREM CommitsFollowTheRules == Spec => ImplementsTeamRules
<1> DEFINE I == ProposalsInv /\ PublishedOK /\ CleanOK
<1>1. Init => I /\ Rules!Init
  BY InvInit, CleanInit, RulesInit
<1>2. I /\ [Next]_vars => I'
  BY InvStep, PublishedStep, CleanStep DEF ProposalsInv
<1>3. I /\ [Next]_vars => [~torn' => Rules!Next]_(Rules!vars)
  BY RulesStep
<1> HIDE DEF I
<1> QED BY <1>1, <1>2, <1>3, PTL DEF Spec, ImplementsTeamRules
=============================================================================
