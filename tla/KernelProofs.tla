----------------------------- MODULE KernelProofs -----------------------------
(***************************************************************************)
(* Proofs about the kernel and its queue, for every set of pids and jobs,  *)
(* any number of deaths, restarts and move-in changes.                     *)
(*                                                                         *)
(* The lock comes first.  Its inductive invariant is LockInv: the types,   *)
(* every holder owns the lock file unless somebody was robbed, and a file  *)
(* without an owner is empty.  Mutual exclusion up to a robbery follows.   *)
(*                                                                         *)
(* Then the kernel, whose every step is a step of the lock.  The inductive *)
(* invariant says, for every process, what is already true of the job it   *)
(* is at (AtJobInv); everything it says is stable, so the steps of other   *)
(* processes, even of a second writer, cannot spoil it.  The second half   *)
(* uses that one process is in a drain until a robbery (Alone): then what  *)
(* a drain has listed, begun or seen is still so when it acts on it.       *)
(***************************************************************************)
EXTENDS Kernel, TLAPS

\* A lock file that does not exist holds no pid.
AbsentIsEmpty == owner = NoPid => ~filled

LockInv == LockTypeOK /\ HolderOwnsFile /\ AbsentIsEmpty

\* The two halves of the writeFile keep LockInv, from whichever stage and with
\* whichever answer to EEXIST.
LEMMA OpenExclusiveKeepsInv ==
    ASSUME LockInv, NEW p \in Pid, NEW from \in Stages \ {"write", "held"},
           NEW lost \in Stages \ {"write", "held"}, OpenExclusive(p, from, lost)
    PROVE  LockInv'
<1> USE PidAssumption
<1>1. LockTypeOK'
  BY DEF LockInv, LockTypeOK, OpenExclusive, Goto, Stages
<1>2. HolderOwnsFile'
  <2>1. SUFFICES ASSUME ~robbed', NEW q \in Pid, Holding(q)'
                 PROVE  owner' = q
    BY DEF HolderOwnsFile
  <2>2. ~robbed
    BY <2>1 DEF OpenExclusive
  <2>3. CASE owner = NoPid
    <3>1. \A r \in Pid : ~Holding(r)
      BY <2>2, <2>3 DEF LockInv, HolderOwnsFile
    <3>2. owner' = p
      BY <2>3 DEF OpenExclusive
    <3>3. q = p
      BY <2>1, <3>1 DEF OpenExclusive, Goto, Holding, LockInv, LockTypeOK
    <3> QED BY <3>2, <3>3
  <2>4. CASE owner # NoPid
    <3>1. Holding(q)
      BY <2>1, <2>4 DEF OpenExclusive, Goto, Holding, LockInv, LockTypeOK
    <3> QED BY <2>2, <2>4, <3>1 DEF OpenExclusive, LockInv, HolderOwnsFile
  <2> QED BY <2>3, <2>4 DEF LockInv, LockTypeOK
<1>3. AbsentIsEmpty'
  BY DEF LockInv, LockTypeOK, OpenExclusive, AbsentIsEmpty
<1> QED BY <1>1, <1>2, <1>3 DEF LockInv

\* A step that leaves the lock file and the history alone and makes no process a
\* holder keeps HolderOwnsFile and AbsentIsEmpty.
LEMMA NoNewHolderKeepsInv ==
    ASSUME LockInv, LockTypeOK', UNCHANGED <<owner, filled, robbed>>,
           \A q \in Pid : Holding(q)' => Holding(q)
    PROVE  LockInv'
  BY DEF LockInv, HolderOwnsFile, AbsentIsEmpty

\* Unlinking keeps LockInv when the one who unlinks is no holder afterwards: if
\* nobody is robbed by it, nobody else held the lock.
LEMMA UnlinkKeepsInv ==
    ASSUME LockInv, NEW p \in Pid, Unlink(p), LockTypeOK', ~Holding(p)',
           \A q \in Pid \ {p} : Holding(q)' => Holding(q)
    PROVE  LockInv'
<1>1. HolderOwnsFile'
  <2>1. SUFFICES ASSUME ~robbed', NEW q \in Pid, Holding(q)'
                 PROVE  FALSE
    BY DEF HolderOwnsFile
  <2>2. q # p /\ Holding(q)
    BY <2>1
  <2>3. ~robbed /\ ~(owner \in Pid \ {p} /\ Holding(owner))
    BY <2>1 DEF Unlink
  <2>4. owner = q
    BY <2>2, <2>3 DEF LockInv, HolderOwnsFile
  <2> QED BY <2>2, <2>3, <2>4
<1>2. AbsentIsEmpty'
  BY DEF Unlink, AbsentIsEmpty
<1> QED BY <1>1, <1>2 DEF LockInv

\* Initially nobody holds the lock and there is no file.
LEMMA LockInitInv == LockInit => LockInv
<1> SUFFICES ASSUME LockInit PROVE LockInv
  OBVIOUS
<1>1. LockTypeOK
  <2>1. stage \in [Pid -> Stages] /\ seen \in [Pid -> Pid \cup {NoPid}]
    BY DEF LockInit, Stages
  <2> QED BY <2>1 DEF LockInit, LockTypeOK
<1>2. \A p \in Pid : ~Holding(p)
  BY DEF LockInit, Holding
<1> QED BY <1>1, <1>2 DEF LockInit, LockInv, HolderOwnsFile, AbsentIsEmpty

\* Every step of every process, and every change around them, keeps LockInv.
LEMMA LockStepInv == LockInv /\ [LockNext]_lockVars => LockInv'
<1> SUFFICES ASSUME LockInv, [LockNext]_lockVars PROVE LockInv'
  OBVIOUS
<1> USE PidAssumption, MaxDeathsAssumption, ReusableAssumption
<1>1. ASSUME NEW p \in Pid, Drain(p) PROVE LockInv'
  <2>1. CASE Start(p) \/ Begin(p) \/ BeginPastHuman(p) \/ Skip(p) \/ Poll(p)
    <3>1. LockTypeOK'
      BY <2>1 DEF LockInv, LockTypeOK, Stages, Start, Begin, BeginPastHuman, Skip, Poll, Goto
    <3>2. UNCHANGED <<owner, filled, robbed>> /\ \A q \in Pid : Holding(q)' => Holding(q)
      BY <2>1 DEF LockInv, LockTypeOK, Start, Begin, BeginPastHuman, Skip, Poll, Goto, Holding
    <3> QED BY <3>1, <3>2, NoNewHolderKeepsInv
  <2>2. CASE Exit(p) \/ HumanGate(p) \/ ReadPid(p) \/ Probe(p)
    <3>1. LockTypeOK'
      BY <2>2 DEF LockInv, LockTypeOK, Stages, Exit, HumanGate, ReadPid, Probe, Goto
    <3>2. UNCHANGED <<owner, filled, robbed>> /\ \A q \in Pid : Holding(q)' => Holding(q)
      BY <2>2 DEF LockInv, LockTypeOK, Exit, HumanGate, ReadPid, Probe, Goto, Holding
    <3> QED BY <3>1, <3>2, NoNewHolderKeepsInv
  <2>3. CASE Create(p)
    BY <2>3, OpenExclusiveKeepsInv DEF Create, Stages
  <2>4. CASE Retake(p)
    BY <2>4, OpenExclusiveKeepsInv DEF Retake, Stages
  <2>5. CASE WritePid(p)
    <3>1. LockTypeOK'
      BY <2>5 DEF LockInv, LockTypeOK, Stages, WritePid, Goto
    <3>2. HolderOwnsFile'
      BY <2>5 DEF LockInv, LockTypeOK, HolderOwnsFile, WritePid, Goto, Holding
    <3>3. AbsentIsEmpty'
      BY <2>5 DEF LockInv, LockTypeOK, AbsentIsEmpty, WritePid
    <3> QED BY <3>1, <3>2, <3>3 DEF LockInv
  <2>6. CASE RemoveStale(p)
    <3>1. LockTypeOK'
      BY <2>6 DEF LockInv, LockTypeOK, Stages, RemoveStale, Unlink, Goto
    <3>2. /\ ~Holding(p)'
          /\ \A q \in Pid \ {p} : Holding(q)' => Holding(q)
      BY <2>6 DEF LockInv, LockTypeOK, RemoveStale, Goto, Holding
    <3> QED BY <2>6, <3>1, <3>2, UnlinkKeepsInv DEF RemoveStale
  <2>7. CASE Release(p)
    <3>1. LockTypeOK'
      BY <2>7 DEF LockInv, LockTypeOK, Stages, Release, Unlink, Goto
    <3>2. /\ ~Holding(p)'
          /\ \A q \in Pid \ {p} : Holding(q)' => Holding(q)
      BY <2>7 DEF LockInv, LockTypeOK, Release, Goto, Holding
    <3> QED BY <2>7, <3>1, <3>2, UnlinkKeepsInv DEF Release
  <2> QED BY <1>1, <2>1, <2>2, <2>3, <2>4, <2>5, <2>6, <2>7 DEF Drain, Acquire
<1>2. ASSUME NEW p \in Pid, Die(p) \/ Recycle(p) \/ Vacate(p) PROVE LockInv'
  <2>1. LockTypeOK'
    BY <1>2 DEF LockInv, LockTypeOK, Stages, Die, Recycle, Vacate, Goto
  <2>2. UNCHANGED <<owner, filled, robbed>> /\ \A q \in Pid : Holding(q)' => Holding(q)
    BY <1>2 DEF LockInv, LockTypeOK, Die, Recycle, Vacate, Goto, Holding
  <2> QED BY <2>1, <2>2, NoNewHolderKeepsInv
<1>3. CASE Restart \/ HumanTakes \/ HumanLeaves
  <2>1. LockTypeOK'
    <3>1. CASE Restart
      <4>1. stage' \in [Pid -> Stages] /\ seen' \in [Pid -> Pid \cup {NoPid}]
        BY <3>1 DEF Restart, Stages
      <4> QED BY <3>1, <4>1 DEF LockInv, LockTypeOK, Restart
    <3>2. CASE HumanTakes \/ HumanLeaves
      BY <3>2 DEF LockInv, LockTypeOK, HumanTakes, HumanLeaves
    <3> QED BY <1>3, <3>1, <3>2
  <2>2. UNCHANGED <<owner, filled, robbed>> /\ \A q \in Pid : Holding(q)' => Holding(q)
    BY <1>3 DEF LockInv, LockTypeOK, Restart, HumanTakes, HumanLeaves, Holding
  <2> QED BY <2>1, <2>2, NoNewHolderKeepsInv
<1>4. CASE UNCHANGED lockVars
  BY <1>4 DEF lockVars, LockInv, LockTypeOK, HolderOwnsFile, Holding, AbsentIsEmpty
<1> QED BY <1>1, <1>2, <1>3, <1>4 DEF LockNext

\* The lock's variables keep their types.
THEOREM LockTypeCorrect == LockSpec => []LockTypeOK
<1>1. LockInv => LockTypeOK
  BY DEF LockInv
<1> QED BY <1>1, LockInitInv, LockStepInv, PTL DEF LockSpec

\* Every kernel past acquireLock owns the file on disk, up to the first robbery.
THEOREM HolderOwnsFileAlways == LockSpec => []HolderOwnsFile
<1>1. LockInv => HolderOwnsFile
  BY DEF LockInv
<1> QED BY <1>1, LockInitInv, LockStepInv, PTL DEF LockSpec

\* The kernel is the single writer until a takeover removes a live holder's file:
\* with any number of kernels, crashes, restarts and reused pids.
THEOREM SingleWriterUpToRobbery == LockSpec => []SingleWriterUnlessRobbed
<1>1. LockInv => SingleWriterUnlessRobbed
  BY DEF LockInv, HolderOwnsFile, SingleWriterUnlessRobbed, SingleWriter
<1> QED BY <1>1, LockInitInv, LockStepInv, PTL DEF LockSpec

-----------------------------------------------------------------------------
(* A lock file is left behind by a death, and by nothing else.             *)

\* StaleOnlyAfterDeath survives every step: with no death so far, the owner of
\* the file goes from creating to writing to releasing it.
LEMMA StaleStepInv ==
    LockInv /\ StaleOnlyAfterDeath /\ [LockNext]_lockVars => StaleOnlyAfterDeath'
<1> SUFFICES ASSUME LockInv, StaleOnlyAfterDeath, [LockNext]_lockVars,
                    deaths' = 0, ~robbed', owner' # NoPid
             PROVE  Holding(owner)'
  BY DEF StaleOnlyAfterDeath
<1> USE PidAssumption, MaxDeathsAssumption DEF LockInv, LockTypeOK
<1>1. ASSUME NEW p \in Pid, Drain(p) PROVE Holding(owner)'
  <2>1. CASE Start(p) \/ Begin(p) \/ BeginPastHuman(p) \/ Skip(p) \/ Poll(p) \/ Exit(p)
    BY <2>1 DEF StaleOnlyAfterDeath, Holding, Start, Begin, BeginPastHuman, Skip, Poll, Exit, Goto
  <2>2. CASE HumanGate(p) \/ ReadPid(p) \/ Probe(p) \/ WritePid(p)
    BY <2>2 DEF StaleOnlyAfterDeath, Holding, HumanGate, ReadPid, Probe, WritePid, Goto
  <2>3. CASE Create(p) \/ Retake(p)
    BY <2>3 DEF StaleOnlyAfterDeath, Holding, Create, Retake, OpenExclusive, Goto
  <2>4. CASE RemoveStale(p) \/ Release(p)
    BY <2>4 DEF RemoveStale, Release, Unlink
  <2> QED BY <1>1, <2>1, <2>2, <2>3, <2>4 DEF Drain, Acquire
<1>2. ASSUME NEW p \in Pid, Die(p) \/ Recycle(p) \/ Vacate(p) PROVE Holding(owner)'
  BY <1>2 DEF StaleOnlyAfterDeath, Holding, Die, Recycle, Vacate
<1>3. CASE Restart \/ HumanTakes \/ HumanLeaves
  BY <1>3 DEF StaleOnlyAfterDeath, Holding, Restart, HumanTakes, HumanLeaves
<1>4. CASE UNCHANGED lockVars
  BY <1>4 DEF StaleOnlyAfterDeath, Holding, lockVars
<1> QED BY <1>1, <1>2, <1>3, <1>4 DEF LockNext

\* No path of a drain leaves its lock file on disk: a file without a holder means
\* that a kernel died or a lock was robbed.
THEOREM StaleFilesComeFromDeaths == LockSpec => []StaleOnlyAfterDeath
<1>1. LockInit => StaleOnlyAfterDeath
  BY DEF LockInit, StaleOnlyAfterDeath
<1> QED BY <1>1, LockInitInv, LockStepInv, StaleStepInv, PTL DEF LockSpec

-----------------------------------------------------------------------------
(* The kernel.                                                             *)

\* Every step of the kernel is a step of the lock, or leaves the lock alone.
LEMMA KernelStepIsLockStep == [Next]_vars => [LockNext]_lockVars
<1> SUFFICES ASSUME [Next]_vars PROVE [LockNext]_lockVars
  OBVIOUS
<1>1. CASE UNCHANGED vars
  BY <1>1 DEF vars
<1>2. CASE \E j \in Job : Enqueue(j)
  BY <1>2 DEF Enqueue
<1>3. CASE RestartBox \/ FlipMovingIn \/ Surroundings
  BY <1>3 DEF RestartBox, FlipMovingIn, Surroundings, LockNext
<1>4. ASSUME NEW p \in Pid, StartDaemon(p) \/ StartOnce(p) \/ StartDry(p) \/ Kill(p)
      PROVE  [LockNext]_lockVars
  BY <1>4 DEF StartDaemon, StartOnce, StartDry, Launch, Kill, LockNext, Drain
<1>5. ASSUME NEW p \in Pid, DrainStep(p) PROVE [LockNext]_lockVars
  <2>1. CASE BeginDrain(p) \/ BeginMovingIn(p) \/ HandRead(p) \/ EndDrain(p) \/ NextDrain(p)
    BY <2>1 DEF BeginDrain, BeginMovingIn, HandRead, EndDrain, NextDrain, LockNext, Drain
  <2>2. CASE TryLock(p) \/ EnterDrain(p)
    BY <2>2 DEF TryLock, EnterDrain, LockNext, Drain, Acquire
  <2>3. CASE ListQueue(p) \/ ReadQueue(p) \/ EndOfJobs(p) \/ CommitLedger(p)
             \/ CommitLedgerThrows(p) \/ Push(p)
    BY <2>3 DEF ListQueue, ReadQueue, EndOfJobs, CommitLedger, CommitLedgerThrows, Push
  <2>4. CASE RunJob(p)
    BY <2>4 DEF RunJob, BeginJob, JobOk, JobThrows, CommitJob, CommitThrows, MoveDone,
                MoveDoneThrows, SendReply, LogDone, MoveFailed, LogFailed, SendExcuse, TellThrows, CatchThrows, Caught
  <2> QED BY <1>5, <2>1, <2>2, <2>3, <2>4 DEF DrainStep
<1> QED BY <1>1, <1>2, <1>3, <1>4, <1>5 DEF Next

\* The kernel implements the lock protocol: what is proved of KernelLock holds of
\* the kernel with its queue, its drains and its move-in mode.
THEOREM KernelUsesTheLock == Spec => LockSpec
<1>1. Init => LockInit
  BY DEF Init
<1> QED BY <1>1, KernelStepIsLockStep, PTL DEF Spec, LockSpec

-----------------------------------------------------------------------------
(* Types.                                                                  *)

\* Initially every variable has its type.
LEMMA InitTypeOK == Init => TypeOK
<1> SUFFICES ASSUME Init PROVE TypeOK
  OBVIOUS
<1> USE BoxAssumption DEF Init
<1>1. LockTypeOK
  BY LockInitInv DEF LockInv
<1>2. /\ at \in [Job -> {"none", "queue", "done", "failed"}]
      /\ rows \in [Job -> SUBSET {"ok", "fail"}]
      /\ acts \in [Job -> SUBSET {"ok", "error"}]
      /\ replies \in [Job -> SUBSET {"answer", "error"}]
      /\ runs \in [Job -> Nat]
  OBVIOUS
<1>3. /\ kind \in [Pid -> {"daemon", "once", "dry"}]
      /\ step \in [Pid -> Steps]
      /\ byHand \in [Pid -> BOOLEAN]
      /\ sha \in [Pid -> BOOLEAN]
      /\ committed \in [Pid -> BOOLEAN]
  BY DEF Steps
<1>4. /\ todo \in [Pid -> SUBSET Job]
      /\ before \in [Pid -> SUBSET Job]
      /\ base \in [Pid -> SUBSET Job]
  OBVIOUS
<1>5. /\ dirty \in SUBSET Job /\ head \in SUBSET Job /\ remote \in SUBSET Job
      /\ movingIn \in BOOLEAN /\ flips \in Nat /\ kicks \in Nat /\ booted \in BOOLEAN
      /\ pidfile \in Pid \cup {NoPid} /\ untold \in SUBSET Job
      /\ handRan \in SUBSET Job
  OBVIOUS
<1> QED BY <1>1, <1>2, <1>3, <1>4, <1>5 DEF TypeOK

\* TypeOK without the lock's part, which LockStepInv already has.
KernelTypeOK ==
    /\ at \in [Job -> {"none", "queue", "done", "failed"}]
    /\ kind \in [Pid -> {"daemon", "once", "dry"}]
    /\ step \in [Pid -> Steps]
    /\ byHand \in [Pid -> BOOLEAN]
    /\ todo \in [Pid -> SUBSET Job]
    /\ sha \in [Pid -> BOOLEAN]
    /\ committed \in [Pid -> BOOLEAN]
    /\ before \in [Pid -> SUBSET Job]
    /\ base \in [Pid -> SUBSET Job]
    /\ rows \in [Job -> SUBSET {"ok", "fail"}]
    /\ acts \in [Job -> SUBSET {"ok", "error"}]
    /\ replies \in [Job -> SUBSET {"answer", "error"}]
    /\ dirty \in SUBSET Job /\ head \in SUBSET Job /\ remote \in SUBSET Job
    /\ movingIn \in BOOLEAN /\ flips \in Nat /\ kicks \in Nat /\ booted \in BOOLEAN
    /\ pidfile \in Pid \cup {NoPid} /\ untold \in SUBSET Job
    /\ runs \in [Job -> Nat]
    /\ handRan \in SUBSET Job

\* Every step keeps the types.
LEMMA StepTypeOK == KernelTypeOK /\ [Next]_vars => KernelTypeOK'
<1> SUFFICES ASSUME KernelTypeOK, [Next]_vars PROVE KernelTypeOK'
  OBVIOUS
<1> USE DEF KernelTypeOK, drainVars, gitVars, logVars, boxVars, histVars
<1>1. CASE UNCHANGED vars
  BY <1>1 DEF vars
<1>2. ASSUME NEW j \in Job, Enqueue(j) PROVE KernelTypeOK'
  BY <1>2 DEF Enqueue
<1>3. CASE Surroundings
  BY <1>3 DEF Surroundings
<1>8. CASE FlipMovingIn
  <2>1. movingIn' \in BOOLEAN /\ flips' \in Nat
    BY <1>8 DEF FlipMovingIn
  <2> QED BY <1>8, <2>1 DEF FlipMovingIn
<1>4. CASE RestartBox
  <2>1. /\ step' \in [Pid -> Steps] /\ byHand' \in [Pid -> BOOLEAN]
        /\ todo' \in [Pid -> SUBSET Job] /\ committed' \in [Pid -> BOOLEAN] /\ sha' \in [Pid -> BOOLEAN]
        /\ pidfile' \in Pid \cup {NoPid}
        /\ before' \in [Pid -> SUBSET Job] /\ base' \in [Pid -> SUBSET Job]
    BY <1>4 DEF RestartBox, Steps
  <2> QED BY <1>4, <2>1 DEF RestartBox
<1>5. ASSUME NEW p \in Pid, StartDaemon(p) \/ StartOnce(p) \/ StartDry(p) PROVE KernelTypeOK'
  <2>1. kicks' \in Nat
    BY <1>5 DEF StartDaemon, StartOnce, StartDry
  <2>2. booted' \in BOOLEAN /\ pidfile' \in Pid \cup {NoPid}
    BY <1>5 DEF StartDaemon, StartOnce, StartDry
  <2>3. PICK k \in {"daemon", "once", "dry"} : Launch(p, k)
    BY <1>5 DEF StartDaemon, StartOnce, StartDry
  <2> QED BY <2>1, <2>2, <2>3 DEF Launch
<1>6. ASSUME NEW p \in Pid, Kill(p) PROVE KernelTypeOK'
  BY <1>6 DEF Kill, Forget, Steps
<1>7. ASSUME NEW p \in Pid, DrainStep(p) PROVE KernelTypeOK'
  <2>1. CASE BeginDrain(p) \/ TryLock(p)
    BY <2>1 DEF BeginDrain, TryLock
  <2>2. CASE BeginMovingIn(p)
    BY <2>2 DEF BeginMovingIn, Queued, Steps
  <2>3. CASE HandRead(p)
    <3>1. byHand' \in [Pid -> BOOLEAN]
      BY <2>3 DEF HandRead
    <3>2. todo' \in [Pid -> SUBSET Job]
      BY <2>3 DEF HandRead
    <3> QED BY <2>3, <3>1, <3>2 DEF HandRead, Steps
  <2>4. CASE EnterDrain(p) \/ ReadQueue(p)
    BY <2>4 DEF EnterDrain, ReadQueue, Steps
  <2>5. CASE ListQueue(p)
    BY <2>5 DEF ListQueue, Queued, Steps
  <2>6. CASE EndOfJobs(p) \/ CommitLedgerThrows(p) \/ Push(p)
    BY <2>6 DEF EndOfJobs, CommitLedgerThrows, Push, Go, Steps
  <2>7. CASE CommitLedger(p)
    <3>1. dirty' \in SUBSET Job /\ head' \in SUBSET Job /\ remote' \in SUBSET Job
      BY <2>7 DEF CommitLedger, Commit, NoCommit
    <3>2. committed' \in [Pid -> BOOLEAN]
      BY <2>7 DEF CommitLedger
    <3> QED BY <2>7, <3>1, <3>2 DEF CommitLedger, Go, Steps
  <2>8. CASE EndDrain(p) \/ NextDrain(p)
    <3>1. \E t \in Steps : Forget(p, t)
      BY <2>8 DEF EndDrain, NextDrain, Steps
    <3>2. UNCHANGED <<at, gitVars, logVars, boxVars, histVars>>
      BY <2>8 DEF EndDrain, NextDrain
    <3> QED BY <3>1, <3>2 DEF Forget
  <2>9. CASE RunJob(p)
    <3> SUFFICES ASSUME NEW j \in Job,
                        \/ BeginJob(p, j) \/ JobOk(p, j) \/ JobThrows(p, j)
                        \/ CommitJob(p, j) \/ CommitThrows(p, j)
                        \/ MoveDone(p, j) \/ MoveDoneThrows(p, j) \/ TellThrows(p, j) \/ SendReply(p, j)
                        \/ LogDone(p, j) \/ MoveFailed(p, j) \/ LogFailed(p, j)
                        \/ SendExcuse(p, j) \/ CatchThrows(p, j)
                 PROVE  KernelTypeOK'
      BY <2>9 DEF RunJob
    <3>1. CASE BeginJob(p, j)
      BY <3>1 DEF BeginJob, Go, Steps
    <3>2. CASE JobOk(p, j)
      BY <3>2 DEF JobOk, Go, Steps
    <3>3. CASE JobThrows(p, j) \/ CommitThrows(p, j) \/ MoveDoneThrows(p, j) \/ TellThrows(p, j)
      <4>1. Caught(p, j)
        BY <3>3 DEF JobThrows, CommitThrows, MoveDoneThrows, TellThrows
      <4>2. untold' \in SUBSET Job /\ rows' \in [Job -> SUBSET {"ok", "fail"}]
        BY <4>1 DEF Caught
      <4>3. step' \in [Pid -> Steps] /\ sha' \in [Pid -> BOOLEAN]
        BY <4>1 DEF Caught, Go, Steps
      <4> QED BY <4>1, <4>2, <4>3 DEF Caught, Go
    <3>4. CASE CommitJob(p, j)
      <4>1. dirty' \in SUBSET Job /\ head' \in SUBSET Job /\ remote' \in SUBSET Job
        BY <3>4 DEF CommitJob, Commit, NoCommit
      <4>2. sha' \in [Pid -> BOOLEAN]
        BY <3>4 DEF CommitJob
      <4> QED BY <3>4, <4>1, <4>2 DEF CommitJob, Go, Steps
    <3>5. CASE MoveDone(p, j)
      BY <3>5 DEF MoveDone, Finish, Go, Steps
    <3>6. CASE MoveFailed(p, j)
      BY <3>6 DEF MoveFailed, Finish, Go, Steps
    <3>7. CASE SendReply(p, j)
      BY <3>7 DEF SendReply, Go, Steps
    <3>10. CASE LogDone(p, j)
      <4>1. committed' \in [Pid -> BOOLEAN] /\ sha' \in [Pid -> BOOLEAN]
        BY <3>10 DEF LogDone
      <4>2. step' \in [Pid -> Steps] /\ todo' \in [Pid -> SUBSET Job]
        BY <3>10 DEF LogDone, Finish, Steps
      <4> QED BY <3>10, <4>1, <4>2 DEF LogDone, Finish
    <3>8. CASE LogFailed(p, j)
      BY <3>8 DEF LogFailed, Finish, Go, Steps
    <3>9. CASE SendExcuse(p, j)
      BY <3>9 DEF SendExcuse, Finish, Steps
    <3>11. CASE CatchThrows(p, j)
      BY <3>11 DEF CatchThrows, Go, Steps
    <3> QED BY <3>1, <3>2, <3>3, <3>4, <3>5, <3>6, <3>7, <3>8, <3>9, <3>10, <3>11
  <2> QED BY <1>7, <2>1, <2>2, <2>3, <2>4, <2>5, <2>6, <2>7, <2>8, <2>9 DEF DrainStep
<1> QED BY <1>1, <1>2, <1>3, <1>4, <1>5, <1>6, <1>7, <1>8 DEF Next

\* The kernel's variables keep their types.
THEOREM TypeCorrect == Spec => []TypeOK
<1>1. Init => LockInv /\ KernelTypeOK
  BY InitTypeOK, LockInitInv DEF Init, TypeOK, KernelTypeOK
<1>2. LockInv /\ KernelTypeOK /\ [Next]_vars => LockInv' /\ KernelTypeOK'
  BY StepTypeOK, LockStepInv, KernelStepIsLockStep
<1>3. LockInv /\ KernelTypeOK => TypeOK
  BY DEF LockInv, TypeOK, KernelTypeOK
<1> QED BY <1>1, <1>2, <1>3, PTL DEF Spec

-----------------------------------------------------------------------------
(* What is true of the job a process is at.                                *)

\* Steps of the job loop after which something has been recorded or settled.
AtJobInv ==
    \A p \in Pid, j \in Job :
        First(p, j) =>
            /\ step[p] \in {"commit", "moveDone"} => "ok" \in rows[j]
            /\ step[p] \in {"moveFailed", "logFailed", "excuse"} => "fail" \in rows[j]
            /\ step[p] \in {"reply", "log"} => at[j] = "done"
            /\ step[p] \in {"reply", "excuse"} => j \in Reply

\* Only submitted jobs are ever listed.
ListedWasSubmitted == \A p \in Pid : \A j \in todo[p] : at[j] # "none"

KernelInv == KernelTypeOK /\ AtJobInv /\ ListedWasSubmitted /\ SettledIsRecorded

\* There is one first job of a list.
LEMMA FirstIsUnique ==
    ASSUME NEW p \in Pid, NEW j \in Job, NEW k \in Job, First(p, j), First(p, k)
    PROVE  j = k
<1>1. j \in Nat /\ k \in Nat /\ j <= k /\ k <= j
  BY JobAssumption DEF First
<1> QED BY <1>1

\* What AtJobInv says of a job is never unsaid: ledger rows only grow, done stays
\* done, and no job file vanishes.
LEMMA Stable ==
    ASSUME KernelTypeOK, [Next]_vars, NEW j \in Job
    PROVE  /\ rows[j] \subseteq rows'[j]
           /\ at[j] = "done" => at'[j] = "done"
           /\ at[j] # "none" => at'[j] # "none"
<1> USE DEF KernelTypeOK, logVars
<1>1. CASE UNCHANGED <<at, rows>>
  BY <1>1
<1>2. ASSUME NEW k \in Job, Enqueue(k) PROVE UNCHANGED rows /\ at' = [at EXCEPT ![k] = "queue"] /\ at[k] = "none"
  BY <1>2 DEF Enqueue
<1>3. ASSUME NEW p \in Pid, NEW k \in Job,
             JobOk(p, k) \/ JobThrows(p, k) \/ CommitThrows(p, k) \/ MoveDoneThrows(p, k) \/ TellThrows(p, k)
      PROVE  UNCHANGED at /\ \E s \in {"ok", "fail"} : rows' = [rows EXCEPT ![k] = @ \cup {s}]
  BY <1>3 DEF JobOk, JobThrows, CommitThrows, MoveDoneThrows, TellThrows, Caught
<1>4. ASSUME NEW p \in Pid, NEW k \in Job, MoveDone(p, k) \/ MoveFailed(p, k)
      PROVE  /\ UNCHANGED rows
             /\ \/ UNCHANGED at
                \/ at[k] = "queue" /\ \E s \in {"done", "failed"} : at' = [at EXCEPT ![k] = s]
  BY <1>4 DEF MoveDone, MoveFailed
<1>5. CASE \E p \in Pid : RunJob(p)
  <2>1. PICK p \in Pid, k \in Job :
            \/ BeginJob(p, k) \/ JobOk(p, k) \/ JobThrows(p, k)
            \/ CommitJob(p, k) \/ CommitThrows(p, k)
            \/ MoveDone(p, k) \/ MoveDoneThrows(p, k) \/ TellThrows(p, k) \/ SendReply(p, k) \/ LogDone(p, k)
            \/ MoveFailed(p, k) \/ LogFailed(p, k) \/ SendExcuse(p, k) \/ CatchThrows(p, k)
    BY <1>5 DEF RunJob
  <2>2. CASE JobOk(p, k) \/ JobThrows(p, k) \/ CommitThrows(p, k) \/ MoveDoneThrows(p, k) \/ TellThrows(p, k)
    BY <2>2, <1>3
  <2>3. CASE MoveDone(p, k) \/ MoveFailed(p, k)
    BY <2>3, <1>4
  <2>4. CASE BeginJob(p, k) \/ CommitJob(p, k)
    BY <2>4 DEF BeginJob, CommitJob
  <2>5. CASE SendReply(p, k) \/ LogDone(p, k) \/ LogFailed(p, k) \/ SendExcuse(p, k) \/ CatchThrows(p, k)
    BY <2>5 DEF SendReply, LogDone, LogFailed, SendExcuse, CatchThrows
  <2> QED BY <2>1, <2>2, <2>3, <2>4, <2>5
<1>6. ASSUME NEW p \in Pid, DrainStep(p), ~RunJob(p) PROVE UNCHANGED <<at, rows>>
  BY <1>6 DEF DrainStep, BeginDrain, BeginMovingIn, HandRead, TryLock, EnterDrain, ListQueue,
              ReadQueue, EndOfJobs, CommitLedger, CommitLedgerThrows, Push, EndDrain, NextDrain
<1>7. ASSUME NEW p \in Pid, StartDaemon(p) \/ StartOnce(p) \/ StartDry(p) \/ Kill(p)
      PROVE  UNCHANGED <<at, rows>>
  BY <1>7 DEF StartDaemon, StartOnce, StartDry, Launch, Kill
<1>8. CASE RestartBox \/ FlipMovingIn \/ Surroundings \/ UNCHANGED vars
  BY <1>8 DEF RestartBox, FlipMovingIn, Surroundings, vars
<1>9. CASE \E k \in Job : Enqueue(k)
  BY <1>2, <1>9
<1> QED BY <1>1, <1>5, <1>6, <1>7, <1>8, <1>9 DEF Next

\* A step that keeps the locals of every process but those of p keeps AtJobInv and
\* ListedWasSubmitted, if it keeps them for p.
LEMMA OthersKeep ==
    ASSUME KernelInv, [Next]_vars, NEW p \in Pid,
           \A q \in Pid \ {p} : step'[q] = step[q] /\ todo'[q] = todo[q],
           todo'[p] \subseteq todo[p] \cup Queued,
           \A j \in Job : First(p, j)' =>
                /\ step'[p] \in {"commit", "moveDone"} => "ok" \in rows'[j]
                /\ step'[p] \in {"moveFailed", "logFailed", "excuse"} => "fail" \in rows'[j]
                /\ step'[p] \in {"reply", "log"} => at'[j] = "done"
                /\ step'[p] \in {"reply", "excuse"} => j \in Reply
    PROVE  AtJobInv' /\ ListedWasSubmitted'
<1>1. ASSUME NEW q \in Pid \ {p}, NEW j \in Job, First(q, j)'
      PROVE  /\ step'[q] \in {"commit", "moveDone"} => "ok" \in rows'[j]
             /\ step'[q] \in {"moveFailed", "logFailed", "excuse"} => "fail" \in rows'[j]
             /\ step'[q] \in {"reply", "log"} => at'[j] = "done"
             /\ step'[q] \in {"reply", "excuse"} => j \in Reply
  <2>1. First(q, j)
    BY <1>1 DEF First
  <2> QED BY <2>1, Stable DEF KernelInv, AtJobInv
<1>2. AtJobInv'
  BY <1>1 DEF AtJobInv
<1>3. ASSUME NEW q \in Pid, NEW j \in todo'[q] PROVE at'[j] # "none"
  <2>1. j \in todo[q] \/ j \in Queued
    BY <1>3
  <2>2. j \in Job /\ at[j] # "none"
    BY <2>1 DEF KernelInv, KernelTypeOK, ListedWasSubmitted, Queued
  <2> QED BY <2>2, Stable DEF KernelInv
<1> QED BY <1>2, <1>3 DEF ListedWasSubmitted

\* A step that changes no locals keeps them as well.
LEMMA LocalsKept ==
    ASSUME KernelInv, [Next]_vars, UNCHANGED <<step, todo>>
    PROVE  AtJobInv' /\ ListedWasSubmitted'
<1>1. ASSUME NEW q \in Pid, NEW j \in Job, First(q, j)' PROVE First(q, j)
  BY <1>1 DEF First
<1> QED BY <1>1, Stable DEF KernelInv, KernelTypeOK, AtJobInv, ListedWasSubmitted

\* Places of a drain of which AtJobInv says nothing.
Quiet == {"none", "handList", "list", "read", "job", "running", "ledger", "push",
          "release", "fatal"}

\* A process that goes to a quiet place has nothing to show.
LEMMA QuietStep ==
    ASSUME KernelInv, [Next]_vars, NEW p \in Pid,
           \A q \in Pid \ {p} : step'[q] = step[q] /\ todo'[q] = todo[q],
           todo'[p] \subseteq todo[p] \cup Queued,
           step'[p] \in Quiet
    PROVE  AtJobInv' /\ ListedWasSubmitted'
BY OthersKeep DEF Quiet

\* A process that stays with its job shows what AtJobInv wants for that job.
LEMMA GoStep ==
    ASSUME KernelInv, [Next]_vars, NEW p \in Pid, NEW j \in Job, NEW s, First(p, j),
           Go(p, s),
           s \in {"commit", "moveDone"} => "ok" \in rows'[j],
           s \in {"moveFailed", "logFailed", "excuse"} => "fail" \in rows'[j],
           s \in {"reply", "log"} => at'[j] = "done",
           s \in {"reply", "excuse"} => j \in Reply
    PROVE  AtJobInv' /\ ListedWasSubmitted'
<1>1. /\ step'[p] = s /\ todo' = todo
      /\ \A q \in Pid \ {p} : step'[q] = step[q]
  BY DEF Go, KernelInv, KernelTypeOK
<1>2. \A k \in Job : First(p, k)' => k = j
  BY <1>1, FirstIsUnique DEF First
<1> QED BY <1>1, <1>2, OthersKeep

\* A process that finishes its job is at a quiet place.
LEMMA FinishStep ==
    ASSUME KernelInv, [Next]_vars, NEW p \in Pid, NEW j \in Job, Finish(p, j)
    PROVE  AtJobInv' /\ ListedWasSubmitted'
<1>1. /\ step'[p] = "job" /\ todo'[p] \subseteq todo[p]
      /\ \A q \in Pid \ {p} : step'[q] = step[q] /\ todo'[q] = todo[q]
  BY DEF Finish, KernelInv, KernelTypeOK
<1> QED BY <1>1, QuietStep DEF Quiet

\* The steps of the job loop keep AtJobInv and ListedWasSubmitted ...
LEMMA JobStepInv ==
    ASSUME KernelInv, [Next]_vars, NEW p \in Pid, RunJob(p)
    PROVE  AtJobInv' /\ ListedWasSubmitted'
<1> USE DEF AtJob
<1>1. PICK j \in Job :
          \/ BeginJob(p, j) \/ JobOk(p, j) \/ JobThrows(p, j)
          \/ CommitJob(p, j) \/ CommitThrows(p, j)
          \/ MoveDone(p, j) \/ MoveDoneThrows(p, j) \/ TellThrows(p, j) \/ SendReply(p, j)
          \/ LogDone(p, j) \/ MoveFailed(p, j) \/ LogFailed(p, j)
          \/ SendExcuse(p, j) \/ CatchThrows(p, j)
  BY DEF RunJob
<1>2. First(p, j)
  BY <1>1 DEF BeginJob, JobOk, JobThrows, CommitJob, CommitThrows, MoveDone,
              MoveDoneThrows, SendReply, LogDone, MoveFailed, LogFailed, SendExcuse, TellThrows, CatchThrows
<1>3. CASE BeginJob(p, j)
  <2>1. Go(p, "running")
    BY <1>3 DEF BeginJob
  <2> QED BY <1>2, <2>1, GoStep
<1>4. CASE JobOk(p, j)
  <2>1. \E s \in {"moveDone", "commit"} : Go(p, s)
    BY <1>4 DEF JobOk
  <2>2. "ok" \in rows'[j]
    BY <1>4 DEF JobOk, KernelInv, KernelTypeOK
  <2> QED BY <1>2, <2>1, <2>2, GoStep
<1>5. CASE JobThrows(p, j) \/ CommitThrows(p, j) \/ MoveDoneThrows(p, j) \/ TellThrows(p, j)
  <2>1. Caught(p, j)
    BY <1>5 DEF JobThrows, CommitThrows, MoveDoneThrows, TellThrows
  <2>2. "fail" \in rows'[j] /\ Go(p, "moveFailed")
    BY <2>1 DEF Caught, KernelInv, KernelTypeOK
  <2> QED BY <1>2, <2>2, GoStep
<1>6. CASE CommitJob(p, j)
  <2>1. Go(p, "moveDone") /\ step[p] = "commit" /\ UNCHANGED rows
    BY <1>6 DEF CommitJob, logVars
  <2>2. "ok" \in rows'[j]
    BY <1>2, <2>1 DEF KernelInv, AtJobInv
  <2> QED BY <1>2, <2>1, <2>2, GoStep
<1>7. CASE MoveDone(p, j)
  <2>1. at'[j] = "done"
    BY <1>7 DEF MoveDone, KernelInv, KernelTypeOK
  <2>2. Finish(p, j) \/ (Go(p, "reply") /\ j \in Reply) \/ Go(p, "log")
    BY <1>7 DEF MoveDone
  <2> QED BY <1>2, <2>1, <2>2, GoStep, FinishStep
<1>8. CASE MoveFailed(p, j)
  <2>1. UNCHANGED rows /\ step[p] = "moveFailed"
    BY <1>8 DEF MoveFailed, logVars
  <2>2. "fail" \in rows'[j]
    BY <1>2, <2>1 DEF KernelInv, AtJobInv
  <2>3. Finish(p, j) \/ Go(p, "logFailed")
    BY <1>8 DEF MoveFailed
  <2> QED BY <1>2, <2>2, <2>3, GoStep, FinishStep
<1>9. CASE SendReply(p, j)
  <2>1. Go(p, "log") /\ step[p] = "reply" /\ UNCHANGED at
    BY <1>9 DEF SendReply
  <2>2. at'[j] = "done"
    BY <1>2, <2>1 DEF KernelInv, AtJobInv
  <2> QED BY <1>2, <2>1, <2>2, GoStep
<1>10. CASE LogFailed(p, j)
  <2>1. UNCHANGED rows /\ step[p] = "logFailed"
    BY <1>10 DEF LogFailed
  <2>2. "fail" \in rows'[j]
    BY <1>2, <2>1 DEF KernelInv, AtJobInv
  <2>3. Finish(p, j) \/ (Go(p, "excuse") /\ j \in Reply)
    BY <1>10 DEF LogFailed
  <2> QED BY <1>2, <2>2, <2>3, GoStep, FinishStep
<1>11. CASE LogDone(p, j) \/ SendExcuse(p, j)
  BY <1>11, FinishStep DEF LogDone, SendExcuse
<1>12. CASE CatchThrows(p, j)
  <2>1. Go(p, "fatal")
    BY <1>12 DEF CatchThrows
  <2> QED BY <1>2, <2>1, GoStep
<1> QED BY <1>12, <1>1, <1>3, <1>4, <1>5, <1>6, <1>7, <1>8, <1>9, <1>10, <1>11

\* ... and so does every other step.
LEMMA OtherStepInv ==
    ASSUME KernelInv, [Next]_vars, ~(\E p \in Pid : RunJob(p))
    PROVE  AtJobInv' /\ ListedWasSubmitted'
<1> USE DEF KernelInv, KernelTypeOK
<1>1. CASE UNCHANGED vars \/ FlipMovingIn \/ Surroundings \/ \E j \in Job : Enqueue(j)
  BY <1>1, LocalsKept DEF vars, drainVars, FlipMovingIn, Surroundings, Enqueue
<1>2. CASE \E p \in Pid : StartDaemon(p) \/ StartOnce(p) \/ StartDry(p)
  BY <1>2, LocalsKept DEF StartDaemon, StartOnce, StartDry, Launch, drainVars
<1>3. CASE RestartBox
  BY <1>3 DEF RestartBox, AtJobInv, ListedWasSubmitted, First
<1>4. ASSUME NEW p \in Pid, Kill(p) \/ DrainStep(p)
      PROVE  AtJobInv' /\ ListedWasSubmitted'
  <2>1. CASE BeginDrain(p) \/ TryLock(p)
    BY <2>1, LocalsKept DEF BeginDrain, TryLock, drainVars
  <2>2. CASE Kill(p) \/ EndDrain(p) \/ NextDrain(p)
    <3>1. \E s \in Quiet : Forget(p, s)
      BY <2>2 DEF Kill, EndDrain, NextDrain, Quiet
    <3>2. /\ step'[p] \in Quiet /\ todo'[p] \subseteq todo[p]
          /\ \A q \in Pid \ {p} : step'[q] = step[q] /\ todo'[q] = todo[q]
      BY <3>1 DEF Forget
    <3> QED BY <3>2, QuietStep
  <2>3. CASE BeginMovingIn(p)
    <3>1. CASE UNCHANGED <<step, todo>>
      BY <3>1, LocalsKept
    <3>2. CASE /\ step' = [step EXCEPT ![p] = "handList"]
               /\ todo' = [todo EXCEPT ![p] = Queued]
      BY <3>2, QuietStep DEF Quiet
    <3> QED BY <2>3, <3>1, <3>2 DEF BeginMovingIn
  <2>4. CASE HandRead(p)
    <3>1. step' = [step EXCEPT ![p] = "none"]
      BY <2>4 DEF HandRead
    <3>2. \E T \in SUBSET todo[p] : todo' = [todo EXCEPT ![p] = T]
      BY <2>4 DEF HandRead
    <3> QED BY <3>1, <3>2, QuietStep DEF Quiet
  <2>5. CASE EnterDrain(p) \/ ReadQueue(p)
    <3>1. /\ UNCHANGED todo
          /\ \E s \in Quiet : step' = [step EXCEPT ![p] = s]
      BY <2>5 DEF EnterDrain, ReadQueue, Quiet
    <3> QED BY <3>1, QuietStep
  <2>6. CASE ListQueue(p)
    <3>1. /\ todo' = [todo EXCEPT ![p] = Queued]
          /\ \E s \in Quiet : step' = [step EXCEPT ![p] = s]
      BY <2>6 DEF ListQueue, Quiet
    <3> QED BY <3>1, QuietStep
  <2>7. CASE EndOfJobs(p) \/ CommitLedger(p) \/ CommitLedgerThrows(p) \/ Push(p)
    <3>1. \E s \in Quiet : Go(p, s)
      BY <2>7 DEF EndOfJobs, CommitLedger, CommitLedgerThrows, Push, Quiet
    <3> QED BY <3>1, QuietStep DEF Go
  <2> QED BY <1>4, <2>1, <2>2, <2>3, <2>4, <2>5, <2>6, <2>7 DEF DrainStep
<1> QED BY <1>1, <1>2, <1>3, <1>4 DEF Next

\* A job is settled only by the kernel that recorded its outcome.
LEMMA SettledStepInv ==
    ASSUME KernelInv, [Next]_vars
    PROVE  SettledIsRecorded'
<1> USE DEF KernelInv, KernelTypeOK
<1>1. ASSUME NEW j \in Job, at'[j] = at[j]
      PROVE  (at'[j] = "done" => "ok" \in rows'[j]) /\ (at'[j] = "failed" => "fail" \in rows'[j])
  BY <1>1, Stable DEF SettledIsRecorded
<1>2. CASE \E p \in Pid, k \in Job : MoveDone(p, k)
  <2>1. PICK p \in Pid, k \in Job : MoveDone(p, k)
    BY <1>2
  <2>2. "ok" \in rows[k] /\ rows' = rows /\ at' = [at EXCEPT ![k] = "done"]
    BY <2>1 DEF MoveDone, AtJob, AtJobInv, logVars
  <2> QED BY <1>1, <2>2 DEF SettledIsRecorded
<1>3. CASE \E p \in Pid, k \in Job : MoveFailed(p, k)
  <2>1. PICK p \in Pid, k \in Job : MoveFailed(p, k)
    BY <1>3
  <2>2. /\ "fail" \in rows[k] /\ rows' = rows
        /\ at' = [at EXCEPT ![k] = "failed"] \/ at' = at
    BY <2>1 DEF MoveFailed, AtJob, AtJobInv, logVars
  <2> QED BY <1>1, <2>2 DEF SettledIsRecorded
<1>4. CASE \E k \in Job : Enqueue(k)
  <2>1. PICK k \in Job : at' = [at EXCEPT ![k] = "queue"]
    BY <1>4 DEF Enqueue
  <2> QED BY <1>1, <2>1 DEF SettledIsRecorded
<1>5. CASE UNCHANGED at
  BY <1>1, <1>5 DEF SettledIsRecorded
<1>6. ASSUME NEW p \in Pid, RunJob(p)
      PROVE  \/ UNCHANGED at
             \/ \E k \in Job : MoveDone(p, k) \/ MoveFailed(p, k)
  BY <1>6 DEF RunJob, BeginJob, JobOk, JobThrows, CommitJob, CommitThrows, MoveDoneThrows,
              SendReply, LogDone, LogFailed, SendExcuse, TellThrows, CatchThrows, Caught
<1>7. ASSUME NEW p \in Pid, DrainStep(p), ~RunJob(p) PROVE UNCHANGED at
  BY <1>7 DEF DrainStep, BeginDrain, BeginMovingIn, HandRead, TryLock, EnterDrain, ListQueue,
              ReadQueue, EndOfJobs, CommitLedger, CommitLedgerThrows, Push, EndDrain, NextDrain
<1>8. CASE \/ RestartBox \/ FlipMovingIn \/ Surroundings \/ UNCHANGED vars
           \/ \E p \in Pid : StartDaemon(p) \/ StartOnce(p) \/ StartDry(p) \/ Kill(p)
  BY <1>5, <1>8 DEF RestartBox, FlipMovingIn, Surroundings, vars, StartDaemon, StartOnce,
                    StartDry, Launch, Kill
<1> QED BY <1>2, <1>3, <1>4, <1>5, <1>6, <1>7, <1>8 DEF Next

\* Initially no job is anywhere.
LEMMA KernelInitInv == Init => KernelInv
<1> SUFFICES ASSUME Init PROVE KernelInv
  OBVIOUS
<1>1. KernelTypeOK
  BY InitTypeOK DEF TypeOK, KernelTypeOK
<1>2. ListedWasSubmitted /\ AtJobInv
  BY DEF Init, ListedWasSubmitted, AtJobInv
<1>3. SettledIsRecorded
  BY DEF Init, SettledIsRecorded
<1> QED BY <1>1, <1>2, <1>3 DEF KernelInv

\* Every step keeps KernelInv.
LEMMA KernelStepInv == KernelInv /\ [Next]_vars => KernelInv'
<1> SUFFICES ASSUME KernelInv, [Next]_vars PROVE KernelInv'
  OBVIOUS
<1>1. KernelTypeOK'
  BY StepTypeOK DEF KernelInv
<1>2. AtJobInv' /\ ListedWasSubmitted'
  BY JobStepInv, OtherStepInv
<1> QED BY <1>1, <1>2, SettledStepInv DEF KernelInv

\* No job is in done/ or failed/ without the run-ledger row that says so, for any
\* number of kernels, jobs, crashes and robbed locks.
THEOREM SettledJobsAreRecorded == Spec => []SettledIsRecorded
<1>1. KernelInv => SettledIsRecorded
  BY DEF KernelInv
<1> QED BY <1>1, KernelInitInv, KernelStepInv, PTL DEF Spec

-----------------------------------------------------------------------------
(* The kernel implements JobLifecycle.                                     *)

\* A step that leaves the job files, the run ledger and the outbox alone.
LEMMA UnseenStep ==
    ASSUME UNCHANGED <<at, rows, replies>>
    PROVE  [Lifecycle!Next]_(Lifecycle!jobVars)
BY DEF Lifecycle!jobVars

\* The steps of the job loop are JobLifecycle's actions ...
LEMMA JobStepRefines ==
    ASSUME KernelInv, NEW p \in Pid, RunJob(p)
    PROVE  [Lifecycle!Next]_(Lifecycle!jobVars)
<1> USE DEF AtJob, gitVars, logVars
<1>1. PICK j \in Job :
          \/ BeginJob(p, j) \/ JobOk(p, j) \/ JobThrows(p, j)
          \/ CommitJob(p, j) \/ CommitThrows(p, j)
          \/ MoveDone(p, j) \/ MoveDoneThrows(p, j) \/ TellThrows(p, j) \/ SendReply(p, j)
          \/ LogDone(p, j) \/ MoveFailed(p, j) \/ LogFailed(p, j)
          \/ SendExcuse(p, j) \/ CatchThrows(p, j)
  BY DEF RunJob
<1>2. at[j] # "none" /\ First(p, j)
  <2>1. First(p, j)
    BY <1>1 DEF BeginJob, JobOk, JobThrows, CommitJob, CommitThrows, MoveDone,
                MoveDoneThrows, SendReply, LogDone, MoveFailed, LogFailed, SendExcuse, TellThrows, CatchThrows
  <2> QED BY <2>1 DEF First, KernelInv, ListedWasSubmitted
<1>3. CASE BeginJob(p, j) \/ CommitJob(p, j) \/ LogDone(p, j) \/ LogFailed(p, j) \/ CatchThrows(p, j)
  BY <1>3, UnseenStep DEF BeginJob, CommitJob, LogDone, LogFailed, CatchThrows
<1>4. CASE JobOk(p, j)
  <2>1. Lifecycle!Record(j, "ok")
    BY <1>2, <1>4 DEF JobOk, Lifecycle!Record
  <2> QED BY <2>1 DEF Lifecycle!Next
<1>5. CASE JobThrows(p, j) \/ CommitThrows(p, j) \/ MoveDoneThrows(p, j) \/ TellThrows(p, j)
  <2>1. Lifecycle!Record(j, "fail")
    BY <1>2, <1>5 DEF JobThrows, CommitThrows, MoveDoneThrows, TellThrows, Caught, Lifecycle!Record
  <2> QED BY <2>1 DEF Lifecycle!Next
<1>6. CASE MoveDone(p, j)
  <2>1. "ok" \in rows[j]
    BY <1>2, <1>6 DEF MoveDone, KernelInv, AtJobInv
  <2>2. Lifecycle!Settle(j, "done", "ok")
    BY <1>6, <2>1 DEF MoveDone, Lifecycle!Settle
  <2> QED BY <2>2 DEF Lifecycle!Next
<1>7. CASE MoveFailed(p, j)
  <2>1. "fail" \in rows[j]
    BY <1>2, <1>7 DEF MoveFailed, KernelInv, AtJobInv
  <2>2. CASE at[j] = "queue"
    <3>1. Lifecycle!Settle(j, "failed", "fail")
      BY <1>7, <2>1, <2>2 DEF MoveFailed, Lifecycle!Settle
    <3> QED BY <3>1 DEF Lifecycle!Next
  <2>3. CASE at[j] # "queue"
    BY <1>7, <2>3, UnseenStep DEF MoveFailed
  <2> QED BY <2>2, <2>3
<1>8. CASE SendReply(p, j)
  <2>1. at[j] = "done" /\ j \in Reply
    BY <1>2, <1>8 DEF SendReply, KernelInv, AtJobInv
  <2>2. Lifecycle!Answer(j)
    BY <1>8, <2>1 DEF SendReply, Lifecycle!Answer
  <2> QED BY <2>2 DEF Lifecycle!Next
<1>9. CASE SendExcuse(p, j)
  <2>1. "fail" \in rows[j] /\ j \in Reply
    BY <1>2, <1>9 DEF SendExcuse, KernelInv, AtJobInv
  <2>2. Lifecycle!Apologise(j)
    BY <1>9, <2>1 DEF SendExcuse, Lifecycle!Apologise
  <2> QED BY <2>2 DEF Lifecycle!Next
<1> QED BY <1>1, <1>3, <1>4, <1>5, <1>6, <1>7, <1>8, <1>9

\* ... and no other step but Enqueue does anything JobLifecycle sees.
LEMMA StepRefines ==
    KernelInv /\ [Next]_vars => [Lifecycle!Next]_(Lifecycle!jobVars)
<1> SUFFICES ASSUME KernelInv, [Next]_vars PROVE [Lifecycle!Next]_(Lifecycle!jobVars)
  OBVIOUS
<1> USE DEF logVars
<1>1. CASE \E p \in Pid : RunJob(p)
  BY <1>1, JobStepRefines
<1>2. ASSUME NEW p \in Pid, DrainStep(p), ~RunJob(p)
      PROVE  UNCHANGED <<at, rows, replies>>
  BY <1>2 DEF DrainStep, BeginDrain, BeginMovingIn, HandRead, TryLock, EnterDrain, ListQueue,
              ReadQueue, EndOfJobs, CommitLedger, CommitLedgerThrows, Push, EndDrain, NextDrain
<1>3. CASE \/ RestartBox \/ FlipMovingIn \/ Surroundings \/ UNCHANGED vars
           \/ \E p \in Pid : StartDaemon(p) \/ StartOnce(p) \/ StartDry(p) \/ Kill(p)
  BY <1>3, UnseenStep DEF RestartBox, FlipMovingIn, Surroundings, vars, StartDaemon,
                          StartOnce, StartDry, Launch, Kill
<1>4. CASE \E j \in Job : Enqueue(j)
  <2>1. PICK j \in Job : Lifecycle!Submit(j)
    BY <1>4 DEF Enqueue, Lifecycle!Submit
  <2> QED BY <2>1 DEF Lifecycle!Next
<1> QED BY <1>1, <1>2, <1>3, <1>4, UnseenStep DEF Next

\* Every behaviour of the kernel is one that JobLifecycle allows.
THEOREM KernelImplementsJobLifecycle == Spec => ImplementsJobLifecycle
<1>1. Init => Lifecycle!Init
  BY DEF Init, Lifecycle!Init
<1>2. Spec => []KernelInv
  BY KernelInitInv, KernelStepInv, PTL DEF Spec
<1> QED BY <1>1, <1>2, StepRefines, PTL DEF Spec, ImplementsJobLifecycle, Lifecycle!Spec
-----------------------------------------------------------------------------
(* What one writer at a time and a mode that only an adopted brain has give.  *)

\* The steps of a hand drain under the lock: it never commits and never answers.
HandSteps == {"job", "running", "moveDone", "moveFailed", "release"}

\* Only an adopted brain has a move-in, hand drains and jobs run by them.
ModeOK ==
    /\ movingIn => Adopted
    /\ handRan # {} => Adopted
    /\ \A p \in Pid : step[p] = "handList" \/ byHand[p] => Adopted
    /\ \A p \in Pid : byHand[p] /\ stage[p] = "held" => step[p] \in HandSteps

\* On a pebble a job's edits are in the tree or in a commit while it runs, and in a
\* commit when it is about to be moved.
CommittedOK ==
    ~Adopted =>
        \A p \in Pid, j \in Job : First(p, j) =>
            /\ step[p] \in {"running", "commit"} => j \in dirty \cup head
            /\ step[p] = "moveDone" => j \in head

\* With one writer, what a drain has listed under the lock and not yet come to is
\* still in the queue, and what it came to is there until it is moved: by the drain
\* itself, to done/ and into the catch block, or to failed/.
Loop == {"job", "running", "commit", "moveDone", "moveFailed"}
ListedOK ==
    ~robbed =>
        /\ \A j \in untold : at[j] = "done"
        /\ \A p \in Pid : stage[p] = "held" /\ ~byHand[p] => \A j \in todo[p] :
            /\ step[p] \in Loop \ {"moveFailed"} => at[j] = "queue"
            /\ step[p] = "moveFailed" => at[j] = "queue" \/ (First(p, j) /\ j \in untold)
            /\ step[p] \in {"reply", "log"} => First(p, j) \/ at[j] = "queue"
            /\ step[p] \in {"logFailed", "excuse"} =>
                  IF First(p, j) THEN j \in untold \/ at[j] = "failed" ELSE at[j] = "queue"

\* A run of a job that neither was settled nor is under way died.
InHand(p, j) ==
    stage[p] = "held" /\ First(p, j) /\ step[p] \in {"running", "commit", "moveDone", "moveFailed"}
CountOK ==
    ~robbed => \A j \in Job \ handRan :
        /\ runs[j] <= 1 + deaths
        /\ at[j] \in {"none", "queue"} /\ (\A p \in Pid : ~InHand(p, j)) => runs[j] <= deaths

\* What hand runs left uncommitted is in the tree, and among the paths the drain
\* under way found there and will leave alone.
Listing == Loop \cup {"read", "reply", "log", "logFailed", "excuse", "ledger"}
HandOK ==
    ~robbed =>
        /\ handRan \ head \subseteq dirty
        /\ \A p \in Pid : stage[p] = "held" /\ ~byHand[p] =>
            /\ step[p] \in {"running", "commit"} => handRan \ head \subseteq before[p]
            /\ step[p] \in Listing => handRan \ head \subseteq base[p]

\* A robbery is for good ...
LEMMA RobbedForGood == robbed /\ [Next]_vars => robbed'
<1> SUFFICES ASSUME robbed, [Next]_vars PROVE robbed'
  OBVIOUS
<1>1. [LockNext]_lockVars
  BY KernelStepIsLockStep
<1> USE DEF Unlink
<1>2. ASSUME NEW p \in Pid, Drain(p) PROVE robbed'
  BY <1>2 DEF Drain, Start, Begin, BeginPastHuman, Skip, Poll, Exit, Release, Acquire, HumanGate,
              Create, WritePid, ReadPid, Probe, RemoveStale, Retake, OpenExclusive
<1>3. ASSUME NEW p \in Pid, Die(p) \/ Recycle(p) \/ Vacate(p) PROVE robbed'
  BY <1>3 DEF Die, Recycle, Vacate
<1> QED BY <1>1, <1>2, <1>3 DEF LockNext, lockVars, Restart, HumanTakes, HumanLeaves

\* ... and until there is one, one process is in a drain.
LEMMA OneDrain ==
    ASSUME LockInv, ~robbed, NEW p \in Pid, NEW q \in Pid, stage[p] = "held", stage[q] = "held"
    PROVE  p = q
BY DEF LockInv, HolderOwnsFile, Holding

\* Nothing the drain of p uses changes: a step of another process beside it.
Beside(p) ==
    /\ stage[p] = "held"
    /\ step'[p] = step[p] /\ todo'[p] = todo[p] /\ byHand'[p] = byHand[p]
    /\ before'[p] = before[p] /\ base'[p] = base[p]
    /\ UNCHANGED <<dirty, head, logVars, histVars>>
    /\ UNCHANGED at \/ \E j \in Job : Enqueue(j)

\* What a process does outside the job loop and the last commit leaves jobs, tree
\* and records alone.
LEMMA OutsideLoop ==
    ASSUME NEW q \in Pid, DrainStep(q), ~RunJob(q), ~CommitLedger(q)
    PROVE  UNCHANGED <<at, dirty, head, logVars, histVars>>
BY DEF DrainStep, BeginDrain, BeginMovingIn, HandRead, TryLock, EnterDrain, ListQueue, ReadQueue,
       EndOfJobs, CommitLedgerThrows, Push, EndDrain, NextDrain, gitVars

\* A step of q's changes no locals but q's.
LEMMA OwnLocals ==
    ASSUME LockInv, KernelTypeOK, NEW q \in Pid, DrainStep(q) \/ Kill(q), NEW p \in Pid \ {q}
    PROVE  /\ stage'[p] = stage[p]
           /\ step'[p] = step[p] /\ todo'[p] = todo[p] /\ byHand'[p] = byHand[p]
           /\ before'[p] = before[p] /\ base'[p] = base[p]
<1> USE DEF KernelTypeOK, LockInv, LockTypeOK, lockVars, drainVars, Goto
<1>1. CASE BeginDrain(q) \/ TryLock(q)
  BY <1>1 DEF BeginDrain, Begin, TryLock, HumanGate, Create, ReadPid, Probe, RemoveStale, Retake,
              OpenExclusive
<1>2. CASE BeginMovingIn(q)
  BY <1>2 DEF BeginMovingIn, Skip
<1>3. CASE HandRead(q)
  BY <1>3 DEF HandRead, BeginPastHuman, Skip
<1>4. CASE EnterDrain(q) \/ ListQueue(q) \/ ReadQueue(q)
  BY <1>4 DEF EnterDrain, WritePid, ListQueue, ReadQueue
<1>5. CASE EndOfJobs(q) \/ CommitLedger(q) \/ CommitLedgerThrows(q) \/ Push(q)
  BY <1>5 DEF EndOfJobs, CommitLedger, CommitLedgerThrows, Push, Go
<1>6. CASE EndDrain(q) \/ NextDrain(q) \/ Kill(q)
  BY <1>6 DEF EndDrain, NextDrain, Kill, Release, Poll, Exit, Die, Forget
<1>7. CASE RunJob(q)
  <2>1. PICK j \in Job :
            \/ BeginJob(q, j) \/ JobOk(q, j) \/ JobThrows(q, j)
            \/ CommitJob(q, j) \/ CommitThrows(q, j)
            \/ MoveDone(q, j) \/ MoveDoneThrows(q, j) \/ TellThrows(q, j) \/ SendReply(q, j) \/ LogDone(q, j)
            \/ MoveFailed(q, j) \/ LogFailed(q, j) \/ SendExcuse(q, j) \/ CatchThrows(q, j)
    BY <1>7 DEF RunJob
  <2>2. CASE BeginJob(q, j) \/ JobOk(q, j) \/ CommitJob(q, j)
    BY <2>2 DEF BeginJob, JobOk, CommitJob, Go
  <2>3. CASE JobThrows(q, j) \/ CommitThrows(q, j) \/ MoveDoneThrows(q, j) \/ TellThrows(q, j)
    BY <2>3 DEF JobThrows, CommitThrows, MoveDoneThrows, TellThrows, Caught, Go
  <2>4. CASE MoveDone(q, j) \/ SendReply(q, j) \/ LogDone(q, j)
    BY <2>4 DEF MoveDone, SendReply, LogDone, Go, Finish
  <2>5. CASE MoveFailed(q, j) \/ LogFailed(q, j) \/ SendExcuse(q, j) \/ CatchThrows(q, j)
    BY <2>5 DEF MoveFailed, LogFailed, SendExcuse, CatchThrows, Go, Finish
  <2> QED BY <2>1, <2>2, <2>3, <2>4, <2>5
<1> QED BY <1>1, <1>2, <1>3, <1>4, <1>5, <1>6, <1>7 DEF DrainStep

\* The loop and the last commit run under the lock.
LEMMA LoopIsHeld ==
    ASSUME NEW q \in Pid, RunJob(q) \/ CommitLedger(q)
    PROVE  stage[q] = "held" /\ UNCHANGED lockVars
BY DEF RunJob, CommitLedger, BeginJob, JobOk, JobThrows, CommitJob, CommitThrows, MoveDone,
       MoveDoneThrows, SendReply, LogDone, MoveFailed, LogFailed, SendExcuse, TellThrows, CatchThrows, Caught, AtJob

\* Until a robbery, every step is the one of the drain under way, or beside it.
LEMMA Alone ==
    ASSUME LockInv, KernelTypeOK, [Next]_vars, ~robbed', NEW p \in Pid, stage'[p] = "held"
    PROVE  DrainStep(p) \/ Beside(p)
<1> USE DEF KernelTypeOK, LockInv, LockTypeOK, lockVars, drainVars, gitVars, Goto
<1>1. ~robbed
  BY RobbedForGood
<1>2. CASE UNCHANGED vars \/ FlipMovingIn \/ Surroundings \/ \E j \in Job : Enqueue(j)
  <2>1. UNCHANGED <<stage, drainVars, dirty, head, logVars, histVars>>
    BY <1>2 DEF vars, FlipMovingIn, Enqueue, Surroundings, HumanTakes, HumanLeaves, Recycle, Vacate
  <2>2. UNCHANGED at \/ \E j \in Job : Enqueue(j)
    BY <1>2 DEF vars, FlipMovingIn, Surroundings
  <2> QED BY <2>1, <2>2 DEF Beside
<1>3. CASE RestartBox
  BY <1>3 DEF RestartBox, Restart
<1>4. ASSUME NEW q \in Pid, StartDaemon(q) \/ StartOnce(q) \/ StartDry(q) PROVE Beside(p)
  <2>1. Start(q) /\ UNCHANGED <<at, drainVars, gitVars, logVars, histVars>>
    BY <1>4 DEF StartDaemon, StartOnce, StartDry, Launch
  <2>2. stage[p] = "held"
    BY <2>1 DEF Start
  <2> QED BY <2>1, <2>2 DEF Beside
<1>5. ASSUME NEW q \in Pid, Kill(q) PROVE Beside(p)
  <2>1. p # q /\ UNCHANGED <<at, gitVars, logVars, histVars>>
    BY <1>5 DEF Kill, Die
  <2> QED BY <1>5, <2>1, OwnLocals DEF Beside
<1>6. ASSUME NEW q \in Pid, DrainStep(q), p # q PROVE Beside(p)
  <2>1. stage[p] = "held"
    BY <1>6, OwnLocals
  <2>2. ~RunJob(q) /\ ~CommitLedger(q)
    BY <1>1, <1>6, <2>1, LoopIsHeld, OneDrain
  <2>3. UNCHANGED <<at, dirty, head, logVars, histVars>>
    BY <1>6, <2>2, OutsideLoop
  <2> QED BY <1>6, <2>1, <2>3, OwnLocals DEF Beside
<1> QED BY <1>2, <1>3, <1>4, <1>5, <1>6 DEF Next

\* A step of the job loop keeps ModeOK ...
LEMMA ModeJobStep ==
    ASSUME LockInv, KernelTypeOK, ModeOK, NEW q \in Pid, RunJob(q)
    PROVE  ModeOK'
<1> USE DEF KernelTypeOK, ModeOK, HandSteps, AtJob, Go, Finish, drainVars, boxVars, histVars, lockVars
<1>1. PICK j \in Job :
          \/ BeginJob(q, j) \/ JobOk(q, j) \/ JobThrows(q, j)
          \/ CommitJob(q, j) \/ CommitThrows(q, j)
          \/ MoveDone(q, j) \/ MoveDoneThrows(q, j) \/ TellThrows(q, j) \/ SendReply(q, j) \/ LogDone(q, j)
          \/ MoveFailed(q, j) \/ LogFailed(q, j) \/ SendExcuse(q, j) \/ CatchThrows(q, j)
  BY DEF RunJob
<1>2. CASE BeginJob(q, j)
  BY <1>2 DEF BeginJob
<1>3. CASE JobOk(q, j)
  BY <1>3 DEF JobOk
<1>4. CASE JobThrows(q, j) \/ CommitThrows(q, j) \/ MoveDoneThrows(q, j) \/ TellThrows(q, j)
  BY <1>4 DEF JobThrows, CommitThrows, MoveDoneThrows, TellThrows, Caught
<1>5. CASE CommitJob(q, j)
  BY <1>5 DEF CommitJob
<1>6. CASE MoveDone(q, j)
  BY <1>6 DEF MoveDone
<1>7. CASE SendReply(q, j) \/ LogDone(q, j)
  BY <1>7 DEF SendReply, LogDone
<1>8. CASE MoveFailed(q, j)
  BY <1>8 DEF MoveFailed
<1>9. CASE LogFailed(q, j) \/ SendExcuse(q, j) \/ CatchThrows(q, j)
  BY <1>9 DEF LogFailed, SendExcuse, CatchThrows
<1> QED BY <1>1, <1>2, <1>3, <1>4, <1>5, <1>6, <1>7, <1>8, <1>9

\* ... and so does every other step.
LEMMA ModeStep == LockInv /\ KernelTypeOK /\ ModeOK /\ [Next]_vars => ModeOK'
<1> SUFFICES ASSUME LockInv, KernelTypeOK, ModeOK, [Next]_vars PROVE ModeOK'
  OBVIOUS
<1> USE DEF KernelTypeOK, LockInv, LockTypeOK, ModeOK, HandSteps, Goto, drainVars, boxVars, histVars, lockVars
<1>1. CASE UNCHANGED vars \/ \E j \in Job : Enqueue(j)
  BY <1>1 DEF vars, Enqueue
<1>2. CASE FlipMovingIn
  BY <1>2 DEF FlipMovingIn
<1>3. CASE Surroundings
  BY <1>3 DEF Surroundings, HumanTakes, HumanLeaves, Recycle, Vacate
<1>4. CASE RestartBox
  BY <1>4 DEF RestartBox, Restart
<1>5. ASSUME NEW q \in Pid, StartDaemon(q) \/ StartOnce(q) \/ StartDry(q) PROVE ModeOK'
  BY <1>5 DEF StartDaemon, StartOnce, StartDry, Launch, Start
<1>6. ASSUME NEW q \in Pid, Kill(q) PROVE ModeOK'
  BY <1>6 DEF Kill, Die, Forget
<1>7. ASSUME NEW q \in Pid, DrainStep(q) PROVE ModeOK'
  <2>1. CASE BeginDrain(q) \/ TryLock(q)
    BY <2>1 DEF BeginDrain, Begin, TryLock, HumanGate, Create, ReadPid, Probe, RemoveStale, Retake,
                OpenExclusive
  <2>2. CASE BeginMovingIn(q)
    BY <2>2 DEF BeginMovingIn, Skip
  <2>3. CASE HandRead(q)
    BY <2>3 DEF HandRead, BeginPastHuman, Skip
  <2>4. CASE EnterDrain(q)
    BY <2>4 DEF EnterDrain, WritePid
  <2>5. CASE ListQueue(q) \/ ReadQueue(q)
    <3>1. CASE ListQueue(q)
      <4>1. \A p \in Pid : p = q \/ step'[p] = step[p]
        BY <3>1 DEF ListQueue
      <4>2. step[q] = "list" /\ stage[q] = "held" /\ step'[q] \in {"release", "read"}
        BY <3>1 DEF ListQueue
      <4>3. stage' = stage /\ byHand' = byHand /\ movingIn' = movingIn /\ handRan' = handRan
        BY <3>1 DEF ListQueue
      <4> QED BY <4>1, <4>2, <4>3
    <3>2. CASE ReadQueue(q)
      BY <3>2 DEF ReadQueue
    <3> QED BY <2>5, <3>1, <3>2
  <2>6. CASE EndOfJobs(q) \/ CommitLedger(q) \/ CommitLedgerThrows(q) \/ Push(q)
    <3>1. CASE EndOfJobs(q)
      BY <3>1 DEF EndOfJobs, Go
    <3>2. CASE CommitLedger(q) \/ CommitLedgerThrows(q)
      BY <3>2 DEF CommitLedger, CommitLedgerThrows, Go
    <3>3. CASE Push(q)
      BY <3>3 DEF Push, Go
    <3> QED BY <2>6, <3>1, <3>2, <3>3
  <2>7. CASE EndDrain(q) \/ NextDrain(q)
    BY <2>7 DEF EndDrain, NextDrain, Release, Poll, Exit, Forget
  <2> QED BY <1>7, <2>1, <2>2, <2>3, <2>4, <2>5, <2>6, <2>7, ModeJobStep DEF DrainStep
<1> QED BY <1>1, <1>2, <1>3, <1>4, <1>5, <1>6, <1>7 DEF Next

\* On a pebble a commit takes everything, and nothing is taken back.
LEMMA PebbleCommits ==
    ASSUME KernelTypeOK, ~Adopted, [Next]_vars
    PROVE  /\ head \subseteq head' /\ dirty \cup head \subseteq dirty' \cup head'
           /\ \A p \in Pid, j \in Job : CommitJob(p, j) => dirty \cup head \subseteq head'
<1> USE DEF KernelTypeOK, gitVars, Commit, NoCommit
<1>1. ASSUME NEW p \in Pid, CommitLedger(p)
      PROVE  head' = head \cup dirty
  BY <1>1 DEF CommitLedger
<1>2. ASSUME NEW p \in Pid, NEW j \in Job, CommitJob(p, j)
      PROVE  head' = head \cup dirty
  BY <1>2 DEF CommitJob
<1>3. ASSUME NEW p \in Pid, NEW j \in Job, BeginJob(p, j)
      PROVE  head' = head /\ dirty' = dirty \cup {j}
  BY <1>3 DEF BeginJob
<1>4. ASSUME NEW p \in Pid, RunJob(p)
      PROVE  \/ UNCHANGED <<dirty, head>>
             \/ \E j \in Job : CommitJob(p, j) \/ BeginJob(p, j)
  BY <1>4 DEF RunJob, JobOk, JobThrows, CommitThrows, MoveDone, MoveDoneThrows, SendReply, LogDone,
              MoveFailed, LogFailed, SendExcuse, TellThrows, CatchThrows, Caught
<1>5. ASSUME NEW p \in Pid, DrainStep(p), ~RunJob(p), ~CommitLedger(p)
      PROVE  UNCHANGED <<dirty, head>>
  BY <1>5, OutsideLoop
<1>6. \/ UNCHANGED vars \/ RestartBox \/ FlipMovingIn \/ Surroundings
      \/ \E j \in Job : Enqueue(j)
      \/ \E p \in Pid : StartDaemon(p) \/ StartOnce(p) \/ StartDry(p) \/ Kill(p)
      => UNCHANGED <<dirty, head>>
  BY DEF vars, RestartBox, FlipMovingIn, Surroundings, Enqueue, StartDaemon, StartOnce,
         StartDry, Launch, Kill
<1>7. \/ UNCHANGED <<dirty, head>>
      \/ \E p \in Pid : CommitLedger(p)
      \/ \E p \in Pid, j \in Job : CommitJob(p, j) \/ BeginJob(p, j)
  BY <1>4, <1>5, <1>6 DEF Next
<1>8. head \subseteq head' /\ dirty \cup head \subseteq dirty' \cup head'
  <2>1. CASE UNCHANGED <<dirty, head>>
    BY <2>1
  <2>2. CASE head' = head \cup dirty
    BY <2>2
  <2>3. CASE \E p \in Pid, j \in Job : BeginJob(p, j)
    BY <2>3, <1>3
  <2> QED BY <1>1, <1>2, <1>7, <2>1, <2>2, <2>3
<1> QED BY <1>2, <1>8

\* A process that is not in the job loop after a step has nothing to commit or move.
LEMMA LoopStep ==
    ASSUME LockInv, KernelTypeOK, [Next]_vars, NEW p \in Pid
    PROVE  \/ step'[p] = step[p] /\ todo'[p] = todo[p]
           \/ RunJob(p)
           \/ step'[p] \notin {"running", "commit", "moveDone", "moveFailed"}
<1> USE DEF KernelTypeOK, drainVars
<1>1. CASE \/ UNCHANGED vars \/ FlipMovingIn \/ Surroundings
           \/ \E j \in Job : Enqueue(j)
           \/ \E q \in Pid : StartDaemon(q) \/ StartOnce(q) \/ StartDry(q)
  BY <1>1 DEF vars, FlipMovingIn, Surroundings, Enqueue, StartDaemon, StartOnce, StartDry, Launch
<1>2. CASE RestartBox
  BY <1>2 DEF RestartBox
<1>3. ASSUME NEW q \in Pid, q # p, DrainStep(q) \/ Kill(q)
      PROVE  step'[p] = step[p] /\ todo'[p] = todo[p]
  BY <1>3, OwnLocals
<1>4. CASE DrainStep(p) \/ Kill(p)
  <2>1. CASE BeginDrain(p) \/ TryLock(p)
    BY <2>1 DEF BeginDrain, TryLock
  <2>2. CASE BeginMovingIn(p) \/ HandRead(p)
    BY <2>2 DEF BeginMovingIn, HandRead
  <2>3. CASE EnterDrain(p) \/ ListQueue(p) \/ ReadQueue(p)
    BY <2>3 DEF EnterDrain, ListQueue, ReadQueue
  <2>4. CASE EndOfJobs(p) \/ CommitLedger(p) \/ CommitLedgerThrows(p) \/ Push(p)
    BY <2>4 DEF EndOfJobs, CommitLedger, CommitLedgerThrows, Push, Go
  <2>5. CASE EndDrain(p) \/ NextDrain(p) \/ Kill(p)
    BY <2>5 DEF EndDrain, NextDrain, Kill, Forget
  <2> QED BY <1>4, <2>1, <2>2, <2>3, <2>4, <2>5 DEF DrainStep
<1> QED BY <1>1, <1>2, <1>3, <1>4 DEF Next

\* A job's file is moved by its submission and by the two renames.
LEMMA WhoMoves ==
    ASSUME KernelTypeOK, [Next]_vars, NEW j \in Job, at'[j] # at[j]
    PROVE  \/ at[j] = "none" /\ at'[j] = "queue" /\ Enqueue(j)
           \/ at[j] = "queue" /\ at'[j] = "done" /\ \E p \in Pid : MoveDone(p, j)
           \/ at[j] = "queue" /\ at'[j] = "failed" /\ \E p \in Pid : MoveFailed(p, j)
<1> USE DEF KernelTypeOK
<1>1. ASSUME NEW k \in Job, Enqueue(k) PROVE k = j /\ at[j] = "none" /\ at'[j] = "queue"
  BY <1>1 DEF Enqueue
<1>2. ASSUME NEW p \in Pid, NEW k \in Job, MoveDone(p, k)
      PROVE  k = j /\ at[j] = "queue" /\ at'[j] = "done"
  BY <1>2 DEF MoveDone
<1>3. ASSUME NEW p \in Pid, NEW k \in Job, MoveFailed(p, k)
      PROVE  k = j /\ at[j] = "queue" /\ at'[j] = "failed"
  BY <1>3 DEF MoveFailed
<1>4. ASSUME NEW p \in Pid, RunJob(p) PROVE \E k \in Job : MoveDone(p, k) \/ MoveFailed(p, k)
  BY <1>4 DEF RunJob, BeginJob, JobOk, JobThrows, CommitJob, CommitThrows, MoveDoneThrows,
              SendReply, LogDone, LogFailed, SendExcuse, TellThrows, CatchThrows, Caught
<1>5. ASSUME NEW p \in Pid, DrainStep(p), ~RunJob(p) PROVE FALSE
  BY <1>5, OutsideLoop DEF CommitLedger
<1>6. ~(UNCHANGED vars \/ RestartBox \/ FlipMovingIn \/ Surroundings
        \/ \E p \in Pid : StartDaemon(p) \/ StartOnce(p) \/ StartDry(p) \/ Kill(p))
  BY DEF vars, RestartBox, FlipMovingIn, Surroundings, StartDaemon, StartOnce, StartDry, Launch, Kill
<1> QED BY <1>1, <1>2, <1>3, <1>4, <1>5, <1>6 DEF Next

\* A step keeps CommittedOK, and DoneIsCommitted with it.
LEMMA CommittedStep ==
    ASSUME LockInv, KernelTypeOK, ModeOK, CommittedOK, DoneIsCommitted, [Next]_vars
    PROVE  CommittedOK' /\ DoneIsCommitted'
<1> SUFFICES ASSUME ~Adopted PROVE CommittedOK' /\ DoneIsCommitted'
  BY DEF CommittedOK, DoneIsCommitted
<1> USE DEF AtJob, Go, Finish
<1>1. ASSUME NEW p \in Pid, NEW j \in Job, First(p, j)'
      PROVE  /\ step'[p] \in {"running", "commit"} => j \in dirty' \cup head'
             /\ step'[p] = "moveDone" => j \in head'
  <2>1. CASE step'[p] = step[p] /\ todo'[p] = todo[p]
    <3>1. First(p, j)
      BY <1>1, <2>1 DEF First
    <3> QED BY <2>1, <3>1, PebbleCommits DEF CommittedOK
  <2>2. CASE RunJob(p)
    <3>1. PICK k \in Job :
              \/ BeginJob(p, k) \/ JobOk(p, k) \/ JobThrows(p, k)
              \/ CommitJob(p, k) \/ CommitThrows(p, k)
              \/ MoveDone(p, k) \/ MoveDoneThrows(p, k) \/ TellThrows(p, k) \/ SendReply(p, k) \/ LogDone(p, k)
              \/ MoveFailed(p, k) \/ LogFailed(p, k) \/ SendExcuse(p, k) \/ CatchThrows(p, k)
      BY <2>2 DEF RunJob
    <3>2. CASE BeginJob(p, k) \/ JobOk(p, k) \/ CommitJob(p, k)
      <4>1. todo' = todo /\ First(p, k)
        BY <3>2 DEF BeginJob, JobOk, CommitJob
      <4>2. j = k
        <5>1. First(p, j)
          BY <1>1, <4>1 DEF First
        <5> QED BY <4>1, <5>1, FirstIsUnique
      <4>3. CASE BeginJob(p, k)
        BY <4>2, <4>3 DEF BeginJob, KernelTypeOK
      <4>4. CASE JobOk(p, k)
        <5>1. step[p] = "running" /\ step'[p] = "commit"
          BY <4>4 DEF JobOk, KernelTypeOK, ModeOK
        <5> QED BY <4>1, <4>2, <5>1, PebbleCommits DEF CommittedOK
      <4>5. CASE CommitJob(p, k)
        <5>1. step[p] = "commit" /\ step'[p] = "moveDone"
          BY <4>5 DEF CommitJob, KernelTypeOK
        <5>2. k \in dirty \cup head
          BY <4>1, <5>1 DEF CommittedOK
        <5> QED BY <4>2, <4>5, <5>1, <5>2, PebbleCommits
      <4> QED BY <3>2, <4>3, <4>4, <4>5
    <3>3. CASE JobThrows(p, k) \/ CommitThrows(p, k) \/ MoveDoneThrows(p, k) \/ TellThrows(p, k)
      BY <3>3 DEF JobThrows, CommitThrows, MoveDoneThrows, TellThrows, Caught, KernelTypeOK
    <3>4. CASE MoveDone(p, k) \/ SendReply(p, k) \/ LogDone(p, k)
      BY <3>4 DEF MoveDone, SendReply, LogDone, KernelTypeOK
    <3>5. CASE MoveFailed(p, k) \/ LogFailed(p, k) \/ SendExcuse(p, k) \/ CatchThrows(p, k)
      BY <3>5 DEF MoveFailed, LogFailed, SendExcuse, CatchThrows, KernelTypeOK
    <3> QED BY <3>1, <3>2, <3>3, <3>4, <3>5
  <2> QED BY <2>1, <2>2, LoopStep
<1>2. ASSUME NEW j \in Job, at'[j] = "done" PROVE j \in head'
  <2>1. CASE at[j] = "done"
    BY <2>1, PebbleCommits DEF DoneIsCommitted
  <2>2. CASE at[j] # "done"
    <3>1. PICK p \in Pid : MoveDone(p, j)
      BY <1>2, <2>2, WhoMoves
    <3>2. First(p, j) /\ step[p] = "moveDone"
      BY <3>1 DEF MoveDone
    <3> QED BY <3>2, PebbleCommits DEF CommittedOK
  <2> QED BY <2>1, <2>2
<1> QED BY <1>1, <1>2 DEF CommittedOK, DoneIsCommitted

\* A job becomes untold when a throw meets it after the rename, and stays so.
LEMMA WhoIsUntold ==
    ASSUME [Next]_vars
    PROVE  /\ untold \subseteq untold'
           /\ \A j \in untold' \ untold : j \in Job /\ \E p \in Pid : First(p, j) /\ step[p] \in {"reply", "log"}
<1>1. ASSUME NEW p \in Pid, NEW j \in Job, Caught(p, j), First(p, j)
      PROVE  /\ untold \subseteq untold'
             /\ \A k \in untold' \ untold : k = j /\ step[p] \in {"reply", "log"}
  BY <1>1 DEF Caught
<1>2. ASSUME NEW p \in Pid, RunJob(p)
      PROVE  \/ UNCHANGED untold
             \/ \E j \in Job : Caught(p, j) /\ First(p, j)
  BY <1>2 DEF RunJob, BeginJob, JobOk, JobThrows, CommitJob, CommitThrows, MoveDone, MoveDoneThrows,
              SendReply, LogDone, MoveFailed, LogFailed, SendExcuse, TellThrows, CatchThrows, AtJob, histVars
<1>3. ASSUME NEW p \in Pid, DrainStep(p), ~RunJob(p) PROVE UNCHANGED untold
  BY <1>3, OutsideLoop DEF CommitLedger, histVars
<1>4. \/ UNCHANGED vars \/ RestartBox \/ FlipMovingIn \/ Surroundings
      \/ \E k \in Job : Enqueue(k)
      \/ \E p \in Pid : StartDaemon(p) \/ StartOnce(p) \/ StartDry(p) \/ Kill(p)
      => UNCHANGED untold
  BY DEF vars, RestartBox, FlipMovingIn, Surroundings, Enqueue, StartDaemon, StartOnce,
         StartDry, Launch, Kill, histVars
<1> QED BY <1>1, <1>2, <1>3, <1>4 DEF Next

\* The list of a drain under the lock stays queued until the drain comes to it.
LEMMA ListedStep ==
    ASSUME LockInv, KernelInv, ModeOK, ListedOK, [Next]_vars
    PROVE  ListedOK'
<1>0. SUFFICES ASSUME ~robbed' PROVE ListedOK'
  BY DEF ListedOK
<1>a. ~robbed
  BY <1>0, RobbedForGood
<1>b. \A j \in untold' : at'[j] = "done"
  <2>1. ASSUME NEW j \in untold' \ untold PROVE at[j] = "done"
    <3>1. \E p \in Pid : First(p, j) /\ step[p] \in {"reply", "log"} /\ j \in Job
      BY <2>1, WhoIsUntold
    <3> QED BY <3>1 DEF KernelInv, AtJobInv
  <2>2. \A j \in untold' : j \in Job
    BY KernelStepInv DEF KernelInv, KernelTypeOK
  <2> QED BY <1>a, <2>1, <2>2, Stable DEF ListedOK, KernelInv
<1>c. untold \subseteq untold'
  BY WhoIsUntold
<1> SUFFICES ASSUME NEW p \in Pid, stage'[p] = "held", ~byHand'[p], NEW j \in todo'[p]
             PROVE  /\ step'[p] \in Loop \ {"moveFailed"} => at'[j] = "queue"
                    /\ step'[p] = "moveFailed" => at'[j] = "queue" \/ (First(p, j)' /\ j \in untold')
                    /\ step'[p] \in {"reply", "log"} => First(p, j)' \/ at'[j] = "queue"
                    /\ step'[p] \in {"logFailed", "excuse"} =>
                          IF First(p, j)' THEN j \in untold' \/ at'[j] = "failed" ELSE at'[j] = "queue"
  BY <1>b DEF ListedOK
<1> USE <1>0, <1>a, <1>c DEF ListedOK, KernelInv, KernelTypeOK, Loop
<1>1. CASE Beside(p)
  <2>1. stage[p] = "held" /\ ~byHand[p] /\ j \in todo[p] /\ step'[p] = step[p]
    BY <1>1 DEF Beside
  <2>2. First(p, j)' <=> First(p, j)
    BY <1>1 DEF Beside, First
  <2>3. at'[j] = at[j]
    BY <1>1, <2>1 DEF Beside, Enqueue, ListedWasSubmitted
  <2> QED BY <2>1, <2>2, <2>3
<1>2. CASE DrainStep(p)
  <2> USE DEF LockInv, LockTypeOK, Goto
  <2>1. CASE BeginDrain(p) \/ BeginMovingIn(p) \/ HandRead(p)
    BY <2>1 DEF BeginDrain, BeginMovingIn, HandRead, Begin, BeginPastHuman, Skip, lockVars
  <2>2. CASE TryLock(p)
    BY <2>2 DEF TryLock, HumanGate, Create, ReadPid, Probe, RemoveStale, Retake, OpenExclusive
  <2>3. CASE EndDrain(p) \/ NextDrain(p)
    BY <2>3 DEF EndDrain, NextDrain, Release, Poll, Exit
  <2>4. CASE EnterDrain(p) \/ ListQueue(p)
    <3>1. step'[p] \in {"list", "release", "read"}
      BY <2>4 DEF EnterDrain, ListQueue
    <3> QED BY <3>1
  <2>5. CASE ReadQueue(p)
    BY <2>5 DEF ReadQueue, Queued
  <2>6. CASE EndOfJobs(p) \/ CommitLedger(p) \/ CommitLedgerThrows(p) \/ Push(p)
    <3>1. step'[p] \in {"release", "push", "ledger", "fatal"}
      BY <2>6 DEF EndOfJobs, CommitLedger, CommitLedgerThrows, Push, Go
    <3> QED BY <3>1
  <2>7. CASE RunJob(p)
    <3> USE DEF AtJob, Go, Finish
    <3>1. PICK k \in Job :
              \/ BeginJob(p, k) \/ JobOk(p, k) \/ JobThrows(p, k)
              \/ CommitJob(p, k) \/ CommitThrows(p, k)
              \/ MoveDone(p, k) \/ MoveDoneThrows(p, k) \/ TellThrows(p, k) \/ SendReply(p, k) \/ LogDone(p, k)
              \/ MoveFailed(p, k) \/ LogFailed(p, k) \/ SendExcuse(p, k) \/ CatchThrows(p, k)
      BY <2>7 DEF RunJob
    <3>2. /\ stage[p] = "held" /\ First(p, k) /\ byHand' = byHand
          /\ todo' = todo \/ todo' = [todo EXCEPT ![p] = @ \ {k}]
      BY <3>1 DEF BeginJob, JobOk, JobThrows, CommitJob, CommitThrows, MoveDone, MoveDoneThrows,
                  SendReply, LogDone, MoveFailed, LogFailed, SendExcuse, TellThrows, CatchThrows, Caught
    <3>3. ~byHand[p] /\ j \in todo[p] /\ j \in Job
      BY <3>2
    <3>4. First(p, j) => j = k
      BY <3>2, <3>3, FirstIsUnique
    <3>5. todo' = todo => (First(p, j)' <=> First(p, j))
      BY DEF First
    <3>6. CASE BeginJob(p, k) \/ JobOk(p, k) \/ CommitJob(p, k)
      <4>1. step[p] \in Loop \ {"moveFailed"} /\ step'[p] \in Loop \ {"moveFailed"} /\ at' = at
        BY <3>6 DEF BeginJob, JobOk, CommitJob
      <4> QED BY <3>2, <3>3, <4>1
    <3>7. CASE JobThrows(p, k) \/ CommitThrows(p, k) \/ MoveDoneThrows(p, k)
      <4>1. step[p] \in Loop \ {"moveFailed"} /\ step'[p] = "moveFailed" /\ at' = at
        BY <3>7 DEF JobThrows, CommitThrows, MoveDoneThrows, Caught
      <4> QED BY <3>2, <3>3, <4>1
    <3>13. CASE TellThrows(p, k)
      <4>1. /\ step[p] \in {"reply", "log"} /\ step'[p] = "moveFailed" /\ at' = at /\ todo' = todo
            /\ k \in untold'
        BY <3>13 DEF TellThrows, Caught
      <4>2. First(p, j) \/ at[j] = "queue"
        BY <3>2, <3>3, <4>1
      <4> QED BY <3>4, <3>5, <4>1, <4>2
    <3>14. CASE CatchThrows(p, k)
      <4>1. step'[p] = "fatal"
        BY <3>14 DEF CatchThrows
      <4> QED BY <4>1
    <3>8. CASE MoveDone(p, k)
      <4>1. /\ step[p] = "moveDone" /\ step'[p] \in {"reply", "log"} /\ todo' = todo
            /\ at' = [at EXCEPT ![k] = "done"]
        BY <3>3, <3>8 DEF MoveDone
      <4>2. at[j] = "queue"
        BY <3>2, <3>3, <4>1
      <4>3. j # k => at'[j] = "queue"
        BY <3>3, <4>1, <4>2
      <4> QED BY <3>2, <3>5, <4>1, <4>3
    <3>9. CASE SendReply(p, k)
      <4>1. step[p] = "reply" /\ step'[p] = "log" /\ todo' = todo /\ at' = at
        BY <3>9 DEF SendReply
      <4> QED BY <3>2, <3>3, <3>5, <4>1
    <3>10. CASE LogDone(p, k)
      <4>1. step[p] = "log" /\ step'[p] = "job" /\ j # k /\ at' = at
        BY <3>10 DEF LogDone
      <4> QED BY <3>2, <3>3, <3>4, <4>1
    <3>11. CASE MoveFailed(p, k)
      <4>1. /\ step[p] = "moveFailed" /\ step'[p] = "logFailed" /\ todo' = todo
            /\ at' = IF at[k] = "queue" THEN [at EXCEPT ![k] = "failed"] ELSE at
        BY <3>3, <3>11 DEF MoveFailed
      <4>2. /\ j # k => at[j] = "queue"
            /\ at[k] = "queue" \/ k \in untold
        <5>1. k \in todo[p]
          BY <3>2 DEF First
        <5> QED BY <3>2, <3>3, <3>4, <4>1, <5>1
      <4>3. IF j = k THEN at'[j] = "failed" \/ j \in untold' ELSE at'[j] = "queue"
        BY <3>3, <4>1, <4>2
      <4> QED BY <3>2, <3>4, <3>5, <4>1, <4>3
    <3>12. CASE LogFailed(p, k) \/ SendExcuse(p, k)
      <4>1. /\ step[p] \in {"logFailed", "excuse"} /\ at' = at
            /\ \/ step'[p] = "excuse" /\ todo' = todo
               \/ step'[p] = "job" /\ j # k
        BY <3>12 DEF LogFailed, SendExcuse
      <4> QED BY <3>2, <3>3, <3>4, <3>5, <4>1
    <3> QED BY <3>1, <3>6, <3>7, <3>8, <3>9, <3>10, <3>11, <3>12, <3>13, <3>14
  <2> QED BY <1>2, <2>1, <2>2, <2>3, <2>4, <2>5, <2>6, <2>7 DEF DrainStep
<1> QED BY <1>1, <1>2, Alone

\* Who writes to the outbox and the action ledger.
LEMMA WhoTells ==
    ASSUME KernelTypeOK, [Next]_vars, NEW j \in Job
    PROVE  /\ "answer" \in replies'[j] \/ "ok" \in acts'[j] =>
                \/ "answer" \in replies[j] \/ "ok" \in acts[j]
                \/ \E p \in Pid : SendReply(p, j) \/ LogDone(p, j)
           /\ "error" \in replies'[j] \/ "error" \in acts'[j] =>
                \/ "error" \in replies[j] \/ "error" \in acts[j]
                \/ \E p \in Pid : LogFailed(p, j) \/ SendExcuse(p, j)
<1> USE DEF KernelTypeOK
<1>1. CASE UNCHANGED <<replies, acts>>
  BY <1>1
<1>2. ASSUME NEW p \in Pid, NEW k \in Job, SendReply(p, k)
      PROVE  acts' = acts /\ replies' = [replies EXCEPT ![k] = @ \cup {"answer"}]
  BY <1>2 DEF SendReply
<1>3. ASSUME NEW p \in Pid, NEW k \in Job, LogDone(p, k)
      PROVE  replies' = replies /\ acts' = [acts EXCEPT ![k] = @ \cup {"ok"}]
  BY <1>3 DEF LogDone
<1>4. ASSUME NEW p \in Pid, NEW k \in Job, LogFailed(p, k)
      PROVE  replies' = replies /\ acts' = [acts EXCEPT ![k] = @ \cup {"error"}]
  BY <1>4 DEF LogFailed
<1>5. ASSUME NEW p \in Pid, NEW k \in Job, SendExcuse(p, k)
      PROVE  acts' = acts /\ replies' = [replies EXCEPT ![k] = @ \cup {"error"}]
  BY <1>5 DEF SendExcuse
<1>6. ASSUME NEW p \in Pid, RunJob(p)
      PROVE  \/ UNCHANGED <<replies, acts>>
             \/ \E k \in Job : SendReply(p, k) \/ LogDone(p, k) \/ LogFailed(p, k) \/ SendExcuse(p, k)
  BY <1>6 DEF RunJob, BeginJob, JobOk, JobThrows, CommitJob, CommitThrows, MoveDone, MoveDoneThrows,
              TellThrows, MoveFailed, CatchThrows, Caught, logVars
<1>7. ASSUME NEW p \in Pid, DrainStep(p), ~RunJob(p) PROVE UNCHANGED <<replies, acts>>
  BY <1>7, OutsideLoop DEF CommitLedger, logVars
<1>8. \/ UNCHANGED vars \/ RestartBox \/ FlipMovingIn \/ Surroundings
      \/ \E k \in Job : Enqueue(k)
      \/ \E p \in Pid : StartDaemon(p) \/ StartOnce(p) \/ StartDry(p) \/ Kill(p)
      => UNCHANGED <<replies, acts>>
  BY DEF vars, RestartBox, FlipMovingIn, Surroundings, Enqueue, StartDaemon, StartOnce,
         StartDry, Launch, Kill, logVars
<1>9. \/ UNCHANGED <<replies, acts>>
      \/ \E p \in Pid, k \in Job :
            SendReply(p, k) \/ LogDone(p, k) \/ LogFailed(p, k) \/ SendExcuse(p, k)
  BY <1>6, <1>7, <1>8 DEF Next
<1> QED BY <1>1, <1>2, <1>3, <1>4, <1>5, <1>9

\* What is told is what the drain has just settled, or the throw of one that had.
LEMMA ToldStep ==
    ASSUME LockInv, KernelInv, ModeOK, ListedOK, ToldIsOutcome, [Next]_vars
    PROVE  ToldIsOutcome'
<1> SUFFICES ASSUME ~robbed', NEW j \in Job
             PROVE  /\ "answer" \in replies'[j] \/ "ok" \in acts'[j] => at'[j] = "done"
                    /\ "error" \in replies'[j] \/ "error" \in acts'[j] =>
                          at'[j] = IF j \in untold' THEN "done" ELSE "failed"
  BY DEF ToldIsOutcome
<1>1. ~robbed
  BY RobbedForGood
<1>2. (at[j] = "done" => at'[j] = "done") /\ (at[j] = "failed" => at'[j] = "failed")
  BY WhoMoves DEF KernelInv
<1>3. ASSUME NEW p \in Pid, SendReply(p, j) \/ LogDone(p, j) PROVE at[j] = "done"
  <2>1. First(p, j) /\ step[p] \in {"reply", "log"}
    BY <1>3 DEF SendReply, LogDone, AtJob
  <2> QED BY <2>1 DEF KernelInv, AtJobInv
<1>4. ASSUME NEW p \in Pid, LogFailed(p, j) \/ SendExcuse(p, j)
      PROVE  at[j] = "failed" \/ j \in untold
  <2>1. stage[p] = "held" /\ First(p, j) /\ step[p] \in {"logFailed", "excuse"}
    BY <1>4 DEF LogFailed, SendExcuse, AtJob
  <2>2. ~byHand[p]
    BY <2>1 DEF ModeOK, HandSteps
  <2>3. j \in todo[p]
    BY <2>1 DEF First
  <2> QED BY <1>1, <2>1, <2>2, <2>3 DEF ListedOK
<1>5. j \in untold => j \in untold' /\ at[j] = "done"
  BY <1>1, WhoIsUntold DEF ListedOK
<1>6. j \in untold' \ untold => at[j] = "done"
  BY WhoIsUntold DEF KernelInv, AtJobInv
<1> QED BY <1>1, <1>2, <1>3, <1>4, <1>5, <1>6, WhoTells DEF KernelInv, ToldIsOutcome

\* A run begins in BeginJob.
LEMMA WhoRuns ==
    ASSUME KernelTypeOK, [Next]_vars
    PROVE  \/ UNCHANGED <<runs, handRan>>
           \/ \E p \in Pid, k \in Job : BeginJob(p, k)
<1>1. ASSUME NEW p \in Pid, RunJob(p)
      PROVE  UNCHANGED <<runs, handRan>> \/ \E k \in Job : BeginJob(p, k)
  BY <1>1 DEF RunJob, JobOk, JobThrows, CommitJob, CommitThrows, MoveDone, MoveDoneThrows,
              SendReply, LogDone, MoveFailed, LogFailed, SendExcuse, TellThrows, CatchThrows, Caught, histVars
<1>2. ASSUME NEW p \in Pid, DrainStep(p), ~RunJob(p) PROVE UNCHANGED <<runs, handRan>>
  BY <1>2, OutsideLoop DEF CommitLedger, histVars
<1>3. \/ UNCHANGED vars \/ RestartBox \/ FlipMovingIn \/ Surroundings
      \/ \E k \in Job : Enqueue(k)
      \/ \E p \in Pid : StartDaemon(p) \/ StartOnce(p) \/ StartDry(p) \/ Kill(p)
      => UNCHANGED <<runs, handRan>>
  BY DEF vars, RestartBox, FlipMovingIn, Surroundings, Enqueue, StartDaemon, StartOnce,
         StartDry, Launch, Kill, histVars
<1> QED BY <1>1, <1>2, <1>3 DEF Next

\* One step is one death at the most.
LEMMA DeathsCount ==
    ASSUME LockInv, [Next]_vars
    PROVE  deaths' = deaths \/ deaths' = deaths + 1
<1>1. [LockNext]_lockVars
  BY KernelStepIsLockStep
<1>2. ASSUME NEW p \in Pid, Drain(p) PROVE deaths' = deaths
  BY <1>2 DEF Drain, Start, Begin, BeginPastHuman, Skip, Poll, Exit, Release, Acquire, HumanGate,
              Create, WritePid, ReadPid, Probe, RemoveStale, Retake, OpenExclusive
<1>3. ASSUME NEW p \in Pid, Die(p) \/ Recycle(p) \/ Vacate(p)
      PROVE  deaths' = deaths \/ deaths' = deaths + 1
  BY <1>3 DEF Die, Recycle, Vacate
<1> QED BY <1>1, <1>2, <1>3 DEF LockNext, lockVars, Restart, HumanTakes, HumanLeaves

\* A run goes on until its job is settled, unless its kernel dies.
LEMMA StaysInHand ==
    ASSUME LockInv, KernelInv, [Next]_vars, deaths' = deaths,
           NEW p \in Pid, NEW j \in Job, InHand(p, j)
    PROVE  InHand(p, j)' \/ at'[j] \notin {"none", "queue"}
<1> USE DEF KernelInv, KernelTypeOK, LockInv, LockTypeOK, InHand
<1>1. \/ stage'[p] = stage[p] /\ step'[p] = step[p] /\ todo'[p] = todo[p]
      \/ RunJob(p)
  <2>1. CASE UNCHANGED vars \/ FlipMovingIn \/ Surroundings \/ \E k \in Job : Enqueue(k)
    BY <2>1 DEF vars, FlipMovingIn, Enqueue, Surroundings, HumanTakes, HumanLeaves, Recycle, Vacate,
                lockVars, drainVars
  <2>2. ~RestartBox /\ \A q \in Pid : ~Kill(q)
    BY DEF RestartBox, Restart, Kill, Die
  <2>3. ASSUME NEW q \in Pid, StartDaemon(q) \/ StartOnce(q) \/ StartDry(q)
        PROVE  stage'[p] = stage[p] /\ step'[p] = step[p] /\ todo'[p] = todo[p]
    BY <2>3 DEF StartDaemon, StartOnce, StartDry, Launch, Start, Goto, drainVars
  <2>4. ASSUME NEW q \in Pid, q # p, DrainStep(q)
        PROVE  stage'[p] = stage[p] /\ step'[p] = step[p] /\ todo'[p] = todo[p]
    BY <2>4, OwnLocals
  <2>5. ASSUME DrainStep(p) PROVE RunJob(p)
    BY <2>5 DEF DrainStep, BeginDrain, Begin, BeginMovingIn, Skip, HandRead, TryLock, HumanGate, Create,
                ReadPid, Probe, RemoveStale, Retake, OpenExclusive, EnterDrain, WritePid, ListQueue,
                ReadQueue, EndOfJobs, CommitLedger, CommitLedgerThrows, Push, EndDrain, NextDrain,
                Poll, Exit
  <2> QED BY <2>1, <2>2, <2>3, <2>4, <2>5 DEF Next
<1>2. CASE stage'[p] = stage[p] /\ step'[p] = step[p] /\ todo'[p] = todo[p]
  BY <1>2 DEF First
<1>3. CASE RunJob(p)
  <2> USE DEF AtJob, Go, lockVars
  <2>1. PICK k \in Job :
            \/ BeginJob(p, k) \/ JobOk(p, k) \/ JobThrows(p, k)
            \/ CommitJob(p, k) \/ CommitThrows(p, k)
            \/ MoveDone(p, k) \/ MoveDoneThrows(p, k) \/ TellThrows(p, k) \/ SendReply(p, k) \/ LogDone(p, k)
            \/ MoveFailed(p, k) \/ LogFailed(p, k) \/ SendExcuse(p, k) \/ CatchThrows(p, k)
    BY <1>3 DEF RunJob
  <2>2. First(p, k)
    BY <2>1 DEF BeginJob, JobOk, JobThrows, CommitJob, CommitThrows, MoveDone, MoveDoneThrows,
                SendReply, LogDone, MoveFailed, LogFailed, SendExcuse, TellThrows, CatchThrows
  <2>3. k = j
    BY <2>2, FirstIsUnique
  <2>4. CASE JobOk(p, k) \/ CommitJob(p, k) \/ JobThrows(p, k) \/ CommitThrows(p, k) \/ MoveDoneThrows(p, k) \/ TellThrows(p, k)
    <3>1. /\ stage' = stage /\ todo' = todo
          /\ step'[p] \in {"commit", "moveDone", "moveFailed"}
      BY <2>4 DEF JobOk, CommitJob, JobThrows, CommitThrows, MoveDoneThrows, TellThrows, Caught
    <3> QED BY <3>1 DEF First
  <2>5. CASE MoveDone(p, k)
    BY <2>3, <2>5 DEF MoveDone
  <2>6. CASE MoveFailed(p, k)
    <3>1. at[j] # "none"
      BY DEF First, ListedWasSubmitted
    <3> QED BY <2>3, <2>6, <3>1 DEF MoveFailed
  <2>7. /\ ~BeginJob(p, k) /\ ~SendReply(p, k) /\ ~LogDone(p, k) /\ ~TellThrows(p, k)
        /\ ~LogFailed(p, k) /\ ~SendExcuse(p, k) /\ ~CatchThrows(p, k)
    BY DEF BeginJob, SendReply, LogDone, TellThrows, LogFailed, SendExcuse, CatchThrows, AtJob
  <2> QED BY <2>1, <2>4, <2>5, <2>6, <2>7
<1> QED BY <1>1, <1>2, <1>3

\* A second run of a job is begun only when the first one died: nobody has it in
\* hand, and it is still in the queue.
LEMMA CountStep ==
    ASSUME LockInv, KernelInv, ModeOK, ListedOK, CountOK, [Next]_vars
    PROVE  CountOK'
<1> SUFFICES ASSUME ~robbed', NEW j \in Job, j \notin handRan'
             PROVE  /\ runs'[j] <= 1 + deaths'
                    /\ at'[j] \in {"none", "queue"} /\ (\A p \in Pid : ~InHand(p, j)')
                          => runs'[j] <= deaths'
  BY DEF CountOK
<1> USE DEF KernelInv, KernelTypeOK
<1>1. ~robbed
  BY RobbedForGood
<1>2. /\ deaths \in Nat /\ deaths' \in Nat /\ runs[j] \in Nat
      /\ deaths' = deaths \/ deaths' = deaths + 1
  BY DeathsCount DEF LockInv, LockTypeOK
<1>3. CASE \E p \in Pid : BeginJob(p, j)
  <2>1. PICK p \in Pid : BeginJob(p, j)
    BY <1>3
  <2>2. /\ stage[p] = "held" /\ step[p] = "job" /\ First(p, j)
        /\ stage' = stage /\ step'[p] = "running" /\ todo' = todo /\ deaths' = deaths
        /\ runs'[j] = runs[j] + 1
    BY <2>1 DEF BeginJob, AtJob, Go, lockVars
  <2>3. ~byHand[p] /\ j \notin handRan
    BY <2>1 DEF BeginJob
  <2>4. at[j] = "queue"
    BY <1>1, <2>2, <2>3 DEF ListedOK, Loop, First
  <2>5. \A q \in Pid : ~InHand(q, j)
    BY <1>1, <2>2, OneDrain DEF InHand
  <2>6. runs[j] <= deaths
    BY <1>1, <2>3, <2>4, <2>5 DEF CountOK
  <2>7. InHand(p, j)'
    BY <2>2 DEF InHand, First
  <2> QED BY <1>2, <2>2, <2>6, <2>7
<1>4. CASE ~ \E p \in Pid : BeginJob(p, j)
  <2>1. runs'[j] = runs[j] /\ j \notin handRan
    <3>1. CASE UNCHANGED <<runs, handRan>>
      BY <3>1
    <3>2. CASE \E p \in Pid, k \in Job : BeginJob(p, k)
      <4>1. PICK p \in Pid, k \in Job : BeginJob(p, k)
        BY <3>2
      <4>2. k # j
        BY <1>4, <4>1
      <4> QED BY <4>1, <4>2 DEF BeginJob
    <3> QED BY <3>1, <3>2, WhoRuns
  <2>2. runs[j] <= 1 + deaths
    BY <1>1, <2>1 DEF CountOK
  <2>3. ASSUME at'[j] \in {"none", "queue"}, \A p \in Pid : ~InHand(p, j)'
        PROVE  runs'[j] <= deaths'
    <3>1. CASE deaths' = deaths + 1
      BY <1>2, <2>1, <2>2, <3>1
    <3>2. CASE deaths' = deaths
      <4>1. \A p \in Pid : ~InHand(p, j)
        BY <2>3, <3>2, StaysInHand
      <4>2. at[j] \in {"none", "queue"}
        BY <2>3, WhoMoves
      <4> QED BY <1>1, <2>1, <3>2, <4>1, <4>2 DEF CountOK
    <3> QED BY <1>2, <3>1, <3>2
  <2> QED BY <1>2, <2>1, <2>2, <2>3
<1> QED BY <1>3, <1>4

\* What a commit takes: on an adopted brain what its drain did not find there.
LEMMA WhoCommits ==
    ASSUME KernelTypeOK, [Next]_vars
    PROVE  \/ UNCHANGED <<dirty, head>>
           \/ \E p \in Pid, k \in Job : BeginJob(p, k)
           \/ \E p \in Pid, k \in Job : AtJob(p, "commit", k) /\ Commit(before[p])
           \/ \E p \in Pid : stage[p] = "held" /\ step[p] = "ledger" /\ Commit(base[p])
<1>1. ASSUME NEW p \in Pid, RunJob(p)
      PROVE  \/ UNCHANGED <<dirty, head>>
             \/ \E k \in Job : BeginJob(p, k)
             \/ \E k \in Job : AtJob(p, "commit", k) /\ Commit(before[p])
  BY <1>1 DEF RunJob, JobOk, JobThrows, CommitJob, NoCommit, CommitThrows, MoveDone, MoveDoneThrows,
              SendReply, LogDone, MoveFailed, LogFailed, SendExcuse, TellThrows, CatchThrows, Caught, gitVars
<1>2. ASSUME NEW p \in Pid, CommitLedger(p)
      PROVE  \/ UNCHANGED <<dirty, head>>
             \/ stage[p] = "held" /\ step[p] = "ledger" /\ Commit(base[p])
  BY <1>2 DEF CommitLedger, NoCommit, gitVars
<1>3. ASSUME NEW p \in Pid, DrainStep(p), ~RunJob(p), ~CommitLedger(p) PROVE UNCHANGED <<dirty, head>>
  BY <1>3, OutsideLoop
<1>4. \/ UNCHANGED vars \/ RestartBox \/ FlipMovingIn \/ Surroundings
      \/ \E k \in Job : Enqueue(k)
      \/ \E p \in Pid : StartDaemon(p) \/ StartOnce(p) \/ StartDry(p) \/ Kill(p)
      => UNCHANGED <<dirty, head>>
  BY DEF vars, RestartBox, FlipMovingIn, Surroundings, Enqueue, StartDaemon, StartOnce,
         StartDry, Launch, Kill, gitVars
<1> QED BY <1>1, <1>2, <1>3, <1>4 DEF Next

\* No step commits what a hand run left uncommitted, and all of it stays in the tree.
LEMMA HandWork ==
    ASSUME LockInv, KernelTypeOK, ModeOK, HandOK, [Next]_vars, ~robbed'
    PROVE  /\ (handRan \ head) \cap head' = {}
           /\ handRan' \ head' \subseteq dirty'
<1> USE DEF KernelTypeOK
<1>1. ~robbed
  BY RobbedForGood
<1>2. handRan \ head \subseteq dirty
  BY <1>1 DEF HandOK
<1>3. CASE UNCHANGED <<dirty, head>> /\ UNCHANGED handRan
  BY <1>2, <1>3
<1>4. CASE \E p \in Pid, k \in Job : BeginJob(p, k)
  <2>1. PICK p \in Pid, k \in Job : BeginJob(p, k)
    BY <1>4
  <2>2. head' = head /\ dirty' = dirty \cup {k} /\ handRan' \subseteq handRan \cup {k}
    BY <2>1 DEF BeginJob
  <2> QED BY <1>2, <2>2
<1>5. ASSUME NEW clean \in SUBSET Job, Commit(clean), handRan \ head \subseteq clean,
             UNCHANGED handRan
      PROVE  /\ (handRan \ head) \cap head' = {}
             /\ handRan' \ head' \subseteq dirty'
  <2>1. CASE Adopted
    BY <1>2, <1>5, <2>1 DEF Commit
  <2>2. CASE ~Adopted
    <3>1. handRan = {}
      BY <2>2 DEF ModeOK
    <3> QED BY <1>5, <3>1
  <2> QED BY <2>1, <2>2
<1>6. CASE \E p \in Pid, k \in Job : AtJob(p, "commit", k) /\ Commit(before[p])
  <2>1. PICK p \in Pid, k \in Job : AtJob(p, "commit", k) /\ Commit(before[p])
    BY <1>6
  <2>2. ~byHand[p]
    BY <2>1 DEF AtJob, ModeOK, HandSteps
  <2>3. handRan \ head \subseteq before[p]
    BY <1>1, <2>1, <2>2 DEF AtJob, HandOK
  <2>4. CASE UNCHANGED handRan
    BY <1>5, <2>1, <2>3, <2>4
  <2> QED BY <1>4, <2>4, WhoRuns
<1>7. CASE \E p \in Pid : stage[p] = "held" /\ step[p] = "ledger" /\ Commit(base[p])
  <2>1. PICK p \in Pid : stage[p] = "held" /\ step[p] = "ledger" /\ Commit(base[p])
    BY <1>7
  <2>2. ~byHand[p]
    BY <2>1 DEF ModeOK, HandSteps
  <2>3. handRan \ head \subseteq base[p]
    BY <1>1, <2>1, <2>2 DEF HandOK, Listing
  <2>4. CASE UNCHANGED handRan
    BY <1>5, <2>1, <2>3, <2>4
  <2> QED BY <1>4, <2>4, WhoRuns
<1> QED BY <1>3, <1>4, <1>6, <1>7, WhoCommits, WhoRuns

\* A drain that commits has what hand runs left among the paths it leaves alone:
\* it looked when it listed the queue and when it began its job.
LEMMA HandStep ==
    ASSUME LockInv, KernelTypeOK, ModeOK, HandOK, [Next]_vars
    PROVE  HandOK'
<1> SUFFICES ASSUME ~robbed'
             PROVE  /\ handRan' \ head' \subseteq dirty'
                    /\ \A p \in Pid : stage'[p] = "held" /\ ~byHand'[p] =>
                        /\ step'[p] \in {"running", "commit"} => handRan' \ head' \subseteq before'[p]
                        /\ step'[p] \in Listing => handRan' \ head' \subseteq base'[p]
  BY DEF HandOK
<1> USE DEF KernelTypeOK
<1>1. ~robbed
  BY RobbedForGood
<1>2. ASSUME NEW p \in Pid, stage'[p] = "held", ~byHand'[p]
      PROVE  /\ step'[p] \in {"running", "commit"} => handRan' \ head' \subseteq before'[p]
             /\ step'[p] \in Listing => handRan' \ head' \subseteq base'[p]
  <2> USE DEF Listing, Loop
  <2>1. CASE Beside(p)
    BY <1>1, <1>2, <2>1 DEF Beside, HandOK, histVars
  <2>2. CASE DrainStep(p)
    <3> USE DEF LockInv, LockTypeOK, Goto
    <3>1. CASE BeginDrain(p) \/ BeginMovingIn(p) \/ HandRead(p)
      BY <1>2, <3>1 DEF BeginDrain, BeginMovingIn, HandRead, Begin, BeginPastHuman, Skip, lockVars
    <3>2. CASE TryLock(p)
      BY <1>2, <3>2 DEF TryLock, HumanGate, Create, ReadPid, Probe, RemoveStale, Retake, OpenExclusive
    <3>3. CASE EndDrain(p) \/ NextDrain(p)
      BY <1>2, <3>3 DEF EndDrain, NextDrain, Release, Poll, Exit
    <3>4. CASE EnterDrain(p)
      <4>1. step'[p] = "list"
        BY <1>2, <3>4 DEF EnterDrain
      <4> QED BY <4>1
    <3>5. CASE ListQueue(p)
      <4>1. /\ step'[p] \in {"release", "read"} /\ base'[p] = (IF Adopted THEN dirty ELSE {})
            /\ UNCHANGED <<head, handRan>>
        BY <3>5 DEF ListQueue, gitVars, histVars
      <4>2. handRan \ head \subseteq base'[p]
        BY <1>1, <4>1 DEF HandOK, ModeOK
      <4> QED BY <4>1, <4>2
    <3>6. CASE ReadQueue(p)
      <4>1. /\ step[p] = "read" /\ step'[p] \in {"job", "fatal"} /\ stage[p] = "held"
            /\ UNCHANGED <<head, handRan, byHand, base>>
        BY <3>6 DEF ReadQueue, gitVars, histVars
      <4> QED BY <1>1, <1>2, <4>1 DEF HandOK
    <3>7. CASE EndOfJobs(p)
      <4>1. /\ step[p] = "job" /\ step'[p] \in {"release", "push", "ledger"} /\ stage[p] = "held"
            /\ UNCHANGED <<head, handRan, byHand, base>>
        BY <3>7 DEF EndOfJobs, Go, gitVars, histVars
      <4> QED BY <1>1, <1>2, <4>1 DEF HandOK
    <3>8. CASE CommitLedger(p) \/ CommitLedgerThrows(p) \/ Push(p)
      <4>1. step'[p] \in {"push", "fatal", "release"}
        BY <3>8 DEF CommitLedger, CommitLedgerThrows, Push, Go
      <4> QED BY <4>1
    <3>9. CASE RunJob(p)
      <4> USE DEF AtJob, Go, Finish
      <4>1. PICK k \in Job :
                \/ BeginJob(p, k) \/ JobOk(p, k) \/ JobThrows(p, k)
                \/ CommitJob(p, k) \/ CommitThrows(p, k)
                \/ MoveDone(p, k) \/ MoveDoneThrows(p, k) \/ TellThrows(p, k) \/ SendReply(p, k) \/ LogDone(p, k)
                \/ MoveFailed(p, k) \/ LogFailed(p, k) \/ SendExcuse(p, k) \/ CatchThrows(p, k)
        BY <3>9 DEF RunJob
      <4>2. stage[p] = "held" /\ step[p] \in Listing /\ byHand' = byHand /\ base' = base
        BY <4>1 DEF BeginJob, JobOk, JobThrows, CommitJob, CommitThrows, MoveDone, MoveDoneThrows,
                    SendReply, LogDone, MoveFailed, LogFailed, SendExcuse, TellThrows, CatchThrows, Caught
      <4>3. handRan \ head \subseteq base[p]
        BY <1>1, <1>2, <4>2 DEF HandOK
      <4>4. CASE BeginJob(p, k)
        <5>1. /\ UNCHANGED <<head, handRan>>
              /\ before'[p] = (IF Adopted THEN dirty ELSE {})
          BY <1>2, <4>2, <4>4 DEF BeginJob
        <5>2. handRan \ head \subseteq before'[p]
          BY <1>1, <5>1 DEF HandOK, ModeOK
        <5> QED BY <4>2, <4>3, <5>1, <5>2
      <4>5. CASE ~BeginJob(p, k)
        <5>1. handRan' = handRan /\ head \subseteq head' /\ before' = before
          BY <4>1, <4>5 DEF JobOk, JobThrows, CommitJob, Commit, NoCommit, CommitThrows, MoveDone,
                MoveDoneThrows, SendReply, LogDone, MoveFailed, LogFailed, SendExcuse, TellThrows, CatchThrows, Caught, gitVars, histVars
        <5>2. step'[p] \in {"running", "commit"} => step[p] = "running"
          BY <4>1, <4>5 DEF JobOk, JobThrows, CommitJob, CommitThrows, MoveDone, MoveDoneThrows,
                SendReply, LogDone, MoveFailed, LogFailed, SendExcuse, TellThrows, CatchThrows, Caught
        <5> QED BY <1>1, <1>2, <4>2, <4>3, <5>1, <5>2 DEF HandOK
      <4> QED BY <4>4, <4>5
    <3> QED BY <2>2, <3>1, <3>2, <3>3, <3>4, <3>5, <3>6, <3>7, <3>8, <3>9 DEF DrainStep
  <2> QED BY <1>2, <2>1, <2>2, Alone
<1> QED BY <1>2, HandWork

-----------------------------------------------------------------------------
(* The kernel's promises.                                                     *)

\* The whole inductive invariant of the kernel.
DrainInv ==
    /\ LockInv /\ KernelInv /\ ModeOK
    /\ CommittedOK /\ DoneIsCommitted /\ ListedOK /\ ToldIsOutcome /\ CountOK /\ HandOK

\* Initially.
LEMMA DrainInitInv == Init => DrainInv
<1> SUFFICES ASSUME Init PROVE DrainInv
  OBVIOUS
<1>1. LockInv /\ KernelInv
  BY LockInitInv, KernelInitInv DEF Init
<1>2. ModeOK /\ CommittedOK /\ ListedOK /\ HandOK
  BY BoxAssumption DEF Init, LockInit, ModeOK, CommittedOK, First, ListedOK, HandOK
<1>3. DoneIsCommitted /\ ToldIsOutcome
  BY DEF Init, DoneIsCommitted, ToldIsOutcome
<1>4. CountOK
  BY DEF Init, LockInit, CountOK
<1> QED BY <1>1, <1>2, <1>3, <1>4 DEF DrainInv

\* Every step keeps it, each part by its own lemma.
LEMMA DrainStepInv == DrainInv /\ [Next]_vars => DrainInv'
<1> SUFFICES ASSUME DrainInv, [Next]_vars PROVE DrainInv'
  OBVIOUS
<1> USE DEF DrainInv
<1>1. LockInv' /\ KernelInv'
  BY LockStepInv, KernelStepIsLockStep, KernelStepInv
<1>2. KernelTypeOK
  BY DEF KernelInv
<1>3. ModeOK' /\ CommittedOK' /\ DoneIsCommitted'
  BY <1>2, ModeStep, CommittedStep
<1>4. ListedOK' /\ ToldIsOutcome' /\ CountOK'
  BY ListedStep, ToldStep, CountStep
<1>5. HandOK'
  BY <1>2, HandStep
<1> QED BY <1>1, <1>3, <1>4, <1>5

\* On a pebble no job is in done/ before its edits are committed, whatever dies and
\* however many kernels are at work (commitAll before the rename in kernel.mjs).
THEOREM DoneJobsAreCommitted == Spec => []DoneIsCommitted
<1>1. DrainInv => DoneIsCommitted
  BY DEF DrainInv
<1> QED BY <1>1, DrainInitInv, DrainStepInv, PTL DEF Spec

\* With one writer a job is told of as it ended: the answer and the ok of a job in
\* done/, the apology and the error of one in failed/, or of one whose answer or
\* row could not be written once it was in done/.
THEOREM TellsTheOutcome == Spec => []ToldIsOutcome
<1>1. DrainInv => ToldIsOutcome
  BY DEF DrainInv
<1> QED BY <1>1, DrainInitInv, DrainStepInv, PTL DEF Spec

\* With one writer a job begins at most once more than there were deaths.
THEOREM RunsAreBounded == Spec => []AttemptsBounded
<1>1. DrainInv => AttemptsBounded
  BY DEF DrainInv, CountOK, AttemptsBounded
<1> QED BY <1>1, DrainInitInv, DrainStepInv, PTL DEF Spec

\* With one writer no commit takes what a hand run of a move-in left uncommitted.
THEOREM HandWorkIsLeftAlone == Spec => HandWorkStaysUncommitted
<1>1. DrainInv /\ [Next]_vars => [~robbed' => \A j \in handRan \ head : j \notin head']_vars
  BY HandWork DEF DrainInv, KernelInv
<1> QED BY <1>1, DrainInitInv, DrainStepInv, PTL DEF Spec, HandWorkStaysUncommitted

=============================================================================
