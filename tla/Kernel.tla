-------------------------------- MODULE Kernel --------------------------------
(***************************************************************************)
(* The per-instance kernel: engine/kernel/kernel.mjs draining the job      *)
(* queue of engine/kernel/lib/queue.mjs, one action for every await at     *)
(* which another process may run or a crash may cut the drain off.  The    *)
(* lock is KernelLock; every action here that moves a process through its  *)
(* lock stages conjoins the KernelLock action of the same name.            *)
(*                                                                         *)
(* A job is a number: the rank of its timestamped file name, the order     *)
(* listQueued sorts by.  The job's file is in one of three directories,    *)
(* `at'.  What a run of the job writes into the brain is the job itself:   *)
(* `dirty' are the jobs whose edits are uncommitted, `head' those whose    *)
(* edits are committed, `remote' those pushed.                             *)
(***************************************************************************)
EXTENDS KernelLock

CONSTANTS
    Job,         \* the jobs that may be queued, ordered as their file names
    Hand,        \* jobs with source `dashboard': started by a person in the app
    Kicked,      \* jobs whose enqueuer then starts `kernel.mjs --once'
    Reply,       \* jobs with a reply_to
    Comms,       \* the box has Telegram or Slack: start-comms.sh runs the daemon
    Adopted,     \* ownership.json: this brain was a person's before
    MaxFlips     \* bound: how often the move-in flag changes

ASSUME JobAssumption == Job \subseteq Nat
ASSUME JobKindAssumption == Hand \subseteq Job /\ Kicked \subseteq Job /\ Reply \subseteq Job
ASSUME BoxAssumption == Comms \in BOOLEAN /\ Adopted \in BOOLEAN
ASSUME MaxFlipsAssumption == MaxFlips \in Nat

VARIABLES
    at,          \* per job: the directory its file is in ("none": not submitted)
    kind,        \* per pid: daemon, once (--once) or dry (--once with DRY_RUN=1)
    step,        \* per pid: where its process is inside a drain
    byHand,      \* per pid: this drain is drainMovingIn
    todo,        \* per pid: the jobs it listed and has not finished
    sha,         \* per pid: the job under way was committed
    committed,   \* per pid: a commit was made in this drain
    before,      \* per pid: dirtyPaths when the current run began
    base,        \* per pid: dirtyPaths when the drain began (drainBefore)
    rows,        \* per job: the statuses in its run-ledger rows
    acts,        \* per job: the outcomes in its action-ledger rows
    replies,     \* per job: what was put into the outbox for it
    dirty, head, remote,
    movingIn,    \* ownership.json: moving_in
    flips,       \* changes of moving_in so far
    kicks,       \* `--once' launches due: the enqueue has returned, the kernel is next
    booted,      \* box-up.sh got past its dry-run kernel of this boot
    pidfile,     \* .kernel/kernel.pid: the daemon start-comms.sh launched last
    runs,        \* history, per job: how often a run of it began
    handRan,     \* history: jobs a drainMovingIn ran
    untold       \* history: jobs moved to done/ whose answer or action row threw

drainVars == <<step, byHand, todo, sha, committed, before, base>>
gitVars == <<dirty, head, remote>>
logVars == <<rows, acts, replies>>
boxVars == <<kind, movingIn, flips, kicks, booted, pidfile>>
histVars == <<runs, handRan, untold>>
vars == <<lockVars, at, drainVars, gitVars, logVars, boxVars, histVars>>

Steps == {"none", "handList", "list", "read", "job", "running", "commit",
          "moveDone", "reply", "log", "moveFailed", "logFailed", "excuse",
          "ledger", "push", "release", "fatal"}

Queued == {j \in Job : at[j] = "queue"}

Init ==
    /\ LockInit
    /\ at = [j \in Job |-> "none"]
    /\ kind = [p \in Pid |-> "once"]
    /\ step = [p \in Pid |-> "none"]
    /\ byHand = [p \in Pid |-> FALSE]
    /\ todo = [p \in Pid |-> {}]
    /\ sha = [p \in Pid |-> FALSE]
    /\ committed = [p \in Pid |-> FALSE]
    /\ before = [p \in Pid |-> {}]
    /\ base = [p \in Pid |-> {}]
    /\ rows = [j \in Job |-> {}]
    /\ acts = [j \in Job |-> {}]
    /\ replies = [j \in Job |-> {}]
    /\ dirty = {} /\ head = {} /\ remote = {}
    /\ movingIn = Adopted
    /\ flips = 0
    /\ kicks = 0
    /\ booted = TRUE
    /\ pidfile = NoPid
    /\ runs = [j \in Job |-> 0]
    /\ handRan = {}
    /\ untold = {}

-----------------------------------------------------------------------------
(* Who submits jobs, starts kernels and sets the move-in flag.             *)

\* enqueue.mjs publishes the job file with one rename; the scheduler and the
\* app's Run now start a `--once' kernel after it, the chat bridges do not.
Enqueue(j) ==
    /\ at[j] = "none"
    /\ at' = [at EXCEPT ![j] = "queue"]
    /\ kicks' = kicks + (IF j \in Kicked THEN 1 ELSE 0)
    /\ UNCHANGED <<lockVars, drainVars, gitVars, logVars, kind, movingIn,
                   flips, booted, pidfile, histVars>>

\* A process of kind k.
Launch(p, k) ==
    /\ Start(p)
    /\ kind' = [kind EXCEPT ![p] = k]
    /\ UNCHANGED <<at, drainVars, gitVars, logVars, movingIn, flips, histVars>>

\* The locals of p's drain are gone; s is what main still knows of it.
Forget(p, s) ==
    /\ step' = [step EXCEPT ![p] = s]
    /\ byHand' = [byHand EXCEPT ![p] = FALSE]
    /\ todo' = [todo EXCEPT ![p] = {}]
    /\ sha' = [sha EXCEPT ![p] = FALSE]
    /\ committed' = [committed EXCEPT ![p] = FALSE]
    /\ before' = [before EXCEPT ![p] = {}]
    /\ base' = [base EXCEPT ![p] = {}]

NoneRuns(k) == \A p \in Pid : stage[p] = "off" \/ kind[p] # k

\* kill -0 of the pid in the pidfile finds no process at all.
PidfileDead == \A p \in Pid : p = pidfile => ~Alive(p)

\* start-comms.sh: once box-up.sh's dry run is over and every two minutes after,
\* unless the pidfile's pid is somebody's, the daemon's or not.
StartDaemon(p) ==
    /\ Comms /\ booted /\ ~movingIn
    /\ PidfileDead /\ NoneRuns("dry")
    /\ Launch(p, "daemon")
    /\ pidfile' = p
    /\ UNCHANGED <<kicks, booted>>

StartOnce(p) ==
    /\ kicks > 0
    /\ Launch(p, "once")
    /\ kicks' = kicks - 1
    /\ UNCHANGED <<booted, pidfile>>

\* box-up.sh: DRY_RUN=1 kernel.mjs --once, before anything else of the boot.
StartDry(p) ==
    /\ ~booted
    /\ Launch(p, "dry")
    /\ booted' = TRUE
    /\ UNCHANGED <<kicks, pidfile>>

Kill(p) ==
    /\ Die(p)
    /\ Forget(p, "none")
    /\ UNCHANGED <<at, gitVars, logVars, boxVars, histVars>>

\* The launches that were due die with the processes that owed them.  box-up.sh
\* removes the pidfile as it goes, if it is given the time to.
RestartBox ==
    /\ Restart
    /\ pidfile' \in {pidfile, NoPid}
    /\ booted' = FALSE
    /\ kicks' = 0
    /\ step' = [p \in Pid |-> "none"]
    /\ byHand' = [p \in Pid |-> FALSE]
    /\ todo' = [p \in Pid |-> {}]
    /\ sha' = [p \in Pid |-> FALSE]
    /\ committed' = [p \in Pid |-> FALSE]
    /\ before' = [p \in Pid |-> {}]
    /\ base' = [p \in Pid |-> {}]
    /\ UNCHANGED <<at, gitVars, logVars, kind, movingIn, flips, histVars>>

\* move-in/apply.mjs: finish clears the flag, moveOutBegin sets it again.
FlipMovingIn ==
    /\ Adopted
    /\ flips < MaxFlips
    /\ movingIn' = ~movingIn
    /\ flips' = flips + 1
    /\ UNCHANGED <<lockVars, at, drainVars, gitVars, logVars, kind, kicks,
                   booted, pidfile, histVars>>

\* The human-lock and the reuse of pids, as in KernelLock.
Surroundings ==
    /\ \/ HumanTakes \/ HumanLeaves
       \/ \E p \in Pid : Recycle(p) \/ Vacate(p)
    /\ UNCHANGED <<at, drainVars, gitVars, logVars, boxVars, histVars>>

-----------------------------------------------------------------------------
(* The start and the end of a drain.                                       *)

BeginDrain(p) ==
    /\ ~movingIn
    /\ step[p] = "none"
    /\ Begin(p)
    /\ UNCHANGED <<at, drainVars, gitVars, logVars, boxVars, histVars>>

\* drainMovingIn runs jobs in a `--once' kernel that is not a dry run, only.
BeginMovingIn(p) ==
    /\ movingIn
    /\ step[p] = "none"
    /\ \/ /\ kind[p] # "once" \/ Queued = {}
          /\ Skip(p)
          /\ UNCHANGED <<step, todo>>
       \/ /\ kind[p] = "once" /\ Queued # {}
          /\ stage[p] = "idle"
          /\ step' = [step EXCEPT ![p] = "handList"]
          /\ todo' = [todo EXCEPT ![p] = Queued]
          /\ UNCHANGED lockVars
    /\ UNCHANGED <<at, byHand, sha, committed, before, base, gitVars, logVars,
                   boxVars, histVars>>

\* listQueued reads every file readdir named; one that is gone by then throws.
HandRead(p) ==
    /\ step[p] = "handList"
    /\ \/ /\ todo[p] \subseteq Queued /\ todo[p] \cap Hand # {}
          /\ BeginPastHuman(p)
          /\ todo' = [todo EXCEPT ![p] = @ \cap Hand]
          /\ byHand' = [byHand EXCEPT ![p] = TRUE]
       \/ /\ ~(todo[p] \subseteq Queued /\ todo[p] \cap Hand # {})
          /\ Skip(p)
          /\ todo' = [todo EXCEPT ![p] = {}]
          /\ UNCHANGED byHand
    /\ step' = [step EXCEPT ![p] = "none"]
    /\ UNCHANGED <<at, sha, committed, before, base, gitVars, logVars, boxVars, histVars>>

\* acquireLock, up to its last step; that one enters the try block.
TryLock(p) ==
    /\ \/ HumanGate(p) \/ Create(p) \/ ReadPid(p) \/ Probe(p)
       \/ RemoveStale(p) \/ Retake(p)
    /\ UNCHANGED <<at, drainVars, gitVars, logVars, boxVars, histVars>>

EnterDrain(p) ==
    /\ WritePid(p)
    /\ step' = [step EXCEPT ![p] = IF byHand[p] THEN "job" ELSE "list"]
    /\ UNCHANGED <<at, byHand, todo, sha, committed, before, base, gitVars, logVars,
                   boxVars, histVars>>

\* listQueued again, now under the lock: readdir ...
ListQueue(p) ==
    /\ step[p] = "list"
    /\ stage[p] = "held"
    /\ todo' = [todo EXCEPT ![p] = Queued]
    /\ base' = [base EXCEPT ![p] = IF Adopted THEN dirty ELSE {}]
    /\ committed' = [committed EXCEPT ![p] = FALSE]
    /\ step' = [step EXCEPT ![p] = IF Queued = {} THEN "release" ELSE "read"]
    /\ UNCHANGED <<lockVars, at, byHand, sha, before, gitVars, logVars, boxVars, histVars>>

\* ... then readFile of each.  A throw ends the drain and the process.
ReadQueue(p) ==
    /\ step[p] = "read"
    /\ stage[p] = "held"
    /\ step' = [step EXCEPT ![p] = IF todo[p] \subseteq Queued THEN "job" ELSE "fatal"]
    /\ UNCHANGED <<lockVars, at, byHand, todo, sha, committed, before, base, gitVars,
                   logVars, boxVars, histVars>>

-----------------------------------------------------------------------------
(* The job loop, for the first job of todo[p] by file name.                *)

First(p, j) == j \in todo[p] /\ \A k \in todo[p] : j <= k

\* p, holding the lock, is at step s of its run of job j.
AtJob(p, s, j) == stage[p] = "held" /\ step[p] = s /\ First(p, j)

Go(p, s) ==
    /\ step' = [step EXCEPT ![p] = s]
    /\ UNCHANGED <<byHand, todo>>

\* The loop is done with j and goes on to the next job.
Finish(p, j) ==
    /\ step' = [step EXCEPT ![p] = "job"]
    /\ todo' = [todo EXCEPT ![p] = @ \ {j}]
    /\ UNCHANGED byHand

\* Mutant of Commit: git add -A on an adopted brain too.
CommitEverything(clean) ==
    /\ head' = head \cup dirty
    /\ dirty' = {}
    /\ UNCHANGED remote

\* What commitAll puts into a commit: everything (git add -A), or on an adopted
\* brain the paths that were clean when the run or the drain began (commitOurs).
Commit(clean) ==
    LET ours == IF Adopted THEN dirty \ clean ELSE dirty IN
    /\ head' = head \cup ours
    /\ dirty' = dirty \ ours
    /\ UNCHANGED remote

\* On an adopted brain commitAll returns null while the person's own rebase or
\* merge is in progress, and commitOurs when git commit fails.
NoCommit == Adopted /\ UNCHANGED gitVars

BeginJob(p, j) ==
    /\ AtJob(p, "job", j)
    /\ Go(p, "running")
    /\ before' = [before EXCEPT ![p] = IF Adopted /\ ~byHand[p] THEN dirty ELSE {}]
    /\ dirty' = dirty \cup {j}
    /\ runs' = [runs EXCEPT ![j] = @ + 1]
    /\ handRan' = IF byHand[p] THEN handRan \cup {j} ELSE handRan
    /\ UNCHANGED <<lockVars, at, sha, committed, base, head, remote, logVars, boxVars, untold>>

\* Mutant of JobOk: the job is settled before its commit.
JobOkUncommitted(p, j) ==
    /\ AtJob(p, "running", j)
    /\ rows' = [rows EXCEPT ![j] = @ \cup {"ok"}]
    /\ Go(p, "moveDone")
    /\ UNCHANGED <<lockVars, at, sha, committed, before, base, gitVars, acts, replies,
                   boxVars, histVars>>

\* runSkill returned; the run-ledger row and commitAll's move-in check follow
\* without an await.
JobOk(p, j) ==
    /\ AtJob(p, "running", j)
    /\ rows' = [rows EXCEPT ![j] = @ \cup {"ok"}]
    /\ Go(p, IF byHand[p] \/ movingIn THEN "moveDone" ELSE "commit")
    /\ UNCHANGED <<lockVars, at, sha, committed, before, base, gitVars, acts, replies,
                   boxVars, histVars>>

\* The catch block: runSkill threw, git failed, the job file was gone, or the answer
\* or the action row of a job already in done/ could not be written.
Caught(p, j) ==
    /\ rows' = [rows EXCEPT ![j] = @ \cup {"fail"}]
    /\ untold' = (IF step[p] \in {"reply", "log"} THEN untold \cup {j} ELSE untold)
    /\ sha' = [sha EXCEPT ![p] = FALSE]
    /\ Go(p, "moveFailed")
    /\ UNCHANGED <<lockVars, at, committed, before, base, gitVars, acts, replies,
                   boxVars, runs, handRan>>

JobThrows(p, j) == AtJob(p, "running", j) /\ Caught(p, j)

CommitThrows(p, j) == AtJob(p, "commit", j) /\ Caught(p, j)

\* Mutant of CommitJob: the reply goes out before the job is settled.
CommitJobReplyFirst(p, j) ==
    /\ AtJob(p, "commit", j)
    /\ \/ Commit(before[p]) /\ sha' = [sha EXCEPT ![p] = dirty' # dirty]
       \/ NoCommit /\ UNCHANGED sha
    /\ Go(p, IF j \in Reply THEN "reply" ELSE "moveDone")
    /\ UNCHANGED <<lockVars, at, committed, before, base, logVars, boxVars, histVars>>

CommitJob(p, j) ==
    /\ AtJob(p, "commit", j)
    /\ \/ Commit(before[p]) /\ sha' = [sha EXCEPT ![p] = dirty' # dirty]
       \/ NoCommit /\ UNCHANGED sha
    /\ Go(p, "moveDone")
    /\ UNCHANGED <<lockVars, at, committed, before, base, logVars, boxVars, histVars>>

\* Mutant of MoveDone: the file is written anew instead of renamed.
MoveDoneAnew(p, j) ==
    /\ AtJob(p, "moveDone", j)
    /\ at' = [at EXCEPT ![j] = "done"]
    /\ IF byHand[p] THEN Finish(p, j) ELSE Go(p, IF j \in Reply THEN "reply" ELSE "log")
    /\ UNCHANGED <<lockVars, sha, committed, before, base, gitVars, logVars, boxVars, histVars>>

\* rename into done/; it throws when another kernel has moved the file already.
MoveDone(p, j) ==
    /\ AtJob(p, "moveDone", j)
    /\ at[j] = "queue"
    /\ at' = [at EXCEPT ![j] = "done"]
    /\ IF byHand[p] THEN Finish(p, j) ELSE Go(p, IF j \in Reply THEN "reply" ELSE "log")
    /\ UNCHANGED <<lockVars, sha, committed, before, base, gitVars, logVars, boxVars, histVars>>

MoveDoneThrows(p, j) == AtJob(p, "moveDone", j) /\ at[j] # "queue" /\ Caught(p, j)

SendReply(p, j) ==
    /\ AtJob(p, "reply", j)
    /\ replies' = [replies EXCEPT ![j] = @ \cup {"answer"}]
    /\ Go(p, "log")
    /\ UNCHANGED <<lockVars, at, sha, committed, before, base, gitVars, rows, acts,
                   boxVars, histVars>>

LogDone(p, j) ==
    /\ AtJob(p, "log", j)
    /\ acts' = [acts EXCEPT ![j] = @ \cup {"ok"}]
    /\ committed' = [committed EXCEPT ![p] = @ \/ sha[p]]
    /\ sha' = [sha EXCEPT ![p] = FALSE]
    /\ Finish(p, j)
    /\ UNCHANGED <<lockVars, at, before, base, gitVars, rows, replies, boxVars, histVars>>

\* The outbox or the action ledger cannot be written: the catch block gets a job
\* that is in done/.
TellThrows(p, j) ==
    /\ AtJob(p, "reply", j) \/ AtJob(p, "log", j)
    /\ Caught(p, j)

\* Mutant of MoveFailed: a failed job stays in the queue.
MoveFailedRetries(p, j) ==
    /\ AtJob(p, "moveFailed", j)
    /\ UNCHANGED at
    /\ IF byHand[p] THEN Finish(p, j) ELSE Go(p, "logFailed")
    /\ UNCHANGED <<lockVars, sha, committed, before, base, gitVars, logVars, boxVars, histVars>>

\* rename into failed/, whose own error is swallowed.
MoveFailed(p, j) ==
    /\ AtJob(p, "moveFailed", j)
    /\ at' = IF at[j] = "queue" THEN [at EXCEPT ![j] = "failed"] ELSE at
    /\ IF byHand[p] THEN Finish(p, j) ELSE Go(p, "logFailed")
    /\ UNCHANGED <<lockVars, sha, committed, before, base, gitVars, logVars, boxVars, histVars>>

LogFailed(p, j) ==
    /\ AtJob(p, "logFailed", j)
    /\ acts' = [acts EXCEPT ![j] = @ \cup {"error"}]
    /\ IF j \in Reply THEN Go(p, "excuse") ELSE Finish(p, j)
    /\ UNCHANGED <<lockVars, at, sha, committed, before, base, gitVars, rows, replies,
                   boxVars, histVars>>

SendExcuse(p, j) ==
    /\ AtJob(p, "excuse", j)
    /\ replies' = [replies EXCEPT ![j] = @ \cup {"error"}]
    /\ Finish(p, j)
    /\ UNCHANGED <<lockVars, at, sha, committed, before, base, gitVars, rows, acts,
                   boxVars, histVars>>

\* Neither can it for the apology: nothing in the catch block catches that.
CatchThrows(p, j) ==
    /\ AtJob(p, "logFailed", j) \/ AtJob(p, "excuse", j)
    /\ Go(p, "fatal")
    /\ UNCHANGED <<lockVars, at, sha, committed, before, base, gitVars, logVars, boxVars,
                   histVars>>

-----------------------------------------------------------------------------
(* After the last job.                                                     *)

\* A hand drain is done; any other writes the state view, and commits it with
\* the ledger rows unless the move-in flag is set.
EndOfJobs(p) ==
    /\ stage[p] = "held" /\ step[p] = "job" /\ todo[p] = {}
    /\ Go(p, IF byHand[p] THEN "release" ELSE IF movingIn THEN "push" ELSE "ledger")
    /\ UNCHANGED <<lockVars, at, sha, committed, before, base, gitVars, logVars,
                   boxVars, histVars>>

CommitLedger(p) ==
    /\ stage[p] = "held" /\ step[p] = "ledger"
    /\ \/ Commit(base[p]) /\ committed' = [committed EXCEPT ![p] = TRUE]
       \/ NoCommit /\ UNCHANGED committed
    /\ Go(p, "push")
    /\ UNCHANGED <<lockVars, at, sha, before, base, logVars, boxVars, histVars>>

\* Nothing catches an error of this commit before main does.
CommitLedgerThrows(p) ==
    /\ stage[p] = "held" /\ step[p] = "ledger"
    /\ Go(p, "fatal")
    /\ UNCHANGED <<lockVars, at, sha, committed, before, base, gitVars, logVars,
                   boxVars, histVars>>

\* syncPush, as one step: GitSync has its inside.  A failed push is reported,
\* never retried before the next commit.
Push(p) ==
    /\ stage[p] = "held" /\ step[p] = "push"
    /\ remote' \in IF committed[p] /\ ~movingIn THEN {remote, head} ELSE {remote}
    /\ Go(p, "release")
    /\ UNCHANGED <<lockVars, at, sha, committed, before, base, dirty, head, logVars,
                   boxVars, histVars>>

\* finally: the lock goes, and what is left of a failed drain with it.
EndDrain(p) ==
    /\ step[p] \in {"release", "fatal"}
    /\ Release(p)
    /\ Forget(p, IF step[p] = "fatal" THEN "fatal" ELSE "none")
    /\ UNCHANGED <<at, gitVars, logVars, boxVars, histVars>>

\* main: the daemon polls; every other process exits, and so does one whose
\* drain threw.
NextDrain(p) ==
    /\ IF kind[p] = "daemon" /\ step[p] # "fatal" THEN Poll(p) ELSE Exit(p)
    /\ Forget(p, "none")
    /\ UNCHANGED <<at, gitVars, logVars, boxVars, histVars>>

-----------------------------------------------------------------------------

RunJob(p) ==
    \E j \in Job :
        \/ BeginJob(p, j) \/ JobOk(p, j) \/ JobThrows(p, j)
        \/ CommitJob(p, j) \/ CommitThrows(p, j)
        \/ MoveDone(p, j) \/ MoveDoneThrows(p, j) \/ SendReply(p, j) \/ LogDone(p, j)
        \/ TellThrows(p, j)
        \/ MoveFailed(p, j) \/ LogFailed(p, j) \/ SendExcuse(p, j) \/ CatchThrows(p, j)

DrainStep(p) ==
    \/ BeginDrain(p) \/ BeginMovingIn(p) \/ HandRead(p) \/ TryLock(p) \/ EnterDrain(p)
    \/ ListQueue(p) \/ ReadQueue(p) \/ RunJob(p) \/ EndOfJobs(p)
    \/ CommitLedger(p) \/ CommitLedgerThrows(p) \/ Push(p) \/ EndDrain(p) \/ NextDrain(p)

Next ==
    \/ \E j \in Job : Enqueue(j)
    \/ \E p \in Pid : StartDaemon(p) \/ StartOnce(p) \/ StartDry(p) \/ DrainStep(p) \/ Kill(p)
    \/ RestartBox \/ FlipMovingIn \/ Surroundings

Spec == Init /\ [][Next]_vars

\* start-comms.sh launches a daemon when kill -0 finds nobody, the launches that are due
\* happen, a running kernel goes on (a Claude turn has a time limit), and the
\* scheduler releases the boot human-lock.  No job is submitted, nothing dies
\* and the move-in flag does not change by fairness.
FairSpec ==
    /\ Spec
    /\ \A p \in Pid : WF_vars(DrainStep(p))
    /\ WF_vars(\E p \in Pid : StartDaemon(p))
    /\ WF_vars(\E p \in Pid : StartOnce(p))
    /\ WF_vars(\E p \in Pid : StartDry(p))
-----------------------------------------------------------------------------
(* Properties.                                                             *)

\* Every variable has its type.
TypeOK ==
    /\ LockTypeOK
    /\ at \in [Job -> {"none", "queue", "done", "failed"}]
    /\ kind \in [Pid -> {"daemon", "once", "dry"}]
    /\ step \in [Pid -> Steps]
    /\ byHand \in [Pid -> BOOLEAN]
    /\ todo \in [Pid -> SUBSET Job]
    /\ sha \in [Pid -> BOOLEAN]
    /\ committed \in [Pid -> BOOLEAN]
    /\ before \in [Pid -> SUBSET Job]
    /\ base \in [Pid -> SUBSET Job]
    /\ rows \in [Job -> SUBSET {"ok", "fail"}]
    /\ acts \in [Job -> SUBSET {"ok", "error"}]
    /\ replies \in [Job -> SUBSET {"answer", "error"}]
    /\ dirty \in SUBSET Job /\ head \in SUBSET Job /\ remote \in SUBSET Job
    /\ movingIn \in BOOLEAN /\ flips \in Nat /\ kicks \in Nat /\ booted \in BOOLEAN
    /\ pidfile \in Pid \cup {NoPid}
    /\ runs \in [Job -> Nat]
    /\ handRan \in SUBSET Job /\ untold \in SUBSET Job

\* A job file reaches done/ or failed/ only after the run ledger has the row
\* that says so, whatever crashes and whoever else is draining: a reader of the
\* directories never finds an outcome the ledger does not explain.
SettledIsRecorded ==
    \A j \in Job :
        /\ at[j] = "done" => "ok" \in rows[j]
        /\ at[j] = "failed" => "fail" \in rows[j]

\* On a brain the person did not bring along, a job is in done/ only when what
\* it wrote is committed: a crash between the run and the commit leaves the job
\* in the queue.  (An adopted brain may leave a path that was dirty before.)
DoneIsCommitted == ~Adopted => \A j \in Job : at[j] = "done" => j \in head

\* A job is run again only because a kernel died under it: with one writer, it
\* begins at most once more than there were deaths.  Jobs of a hand drain are
\* left out: drainMovingIn lists them before it takes the lock, and so can run
\* one that another kernel has just finished.
AttemptsBounded == ~robbed => \A j \in Job \ handRan : runs[j] <= 1 + deaths

\* With one writer, what the outbox and the action ledger say of a job is its
\* outcome: an answer and an ok for a job in done/, the apology and an error for
\* one in failed/.  The exception is a job whose answer or row could not be
\* written after the rename: it stays in done/, and the chat may be sent the
\* answer first and the apology after it.
ToldIsOutcome ==
    ~robbed => \A j \in Job :
        /\ "answer" \in replies[j] \/ "ok" \in acts[j] => at[j] = "done"
        /\ "error" \in replies[j] \/ "error" \in acts[j] =>
               at[j] = IF j \in untold THEN "done" ELSE "failed"

\* What a hand-started run writes during a move-in stays uncommitted, also after
\* the move-in is over and ordinary drains commit again: those edits are left to
\* the person's own jobs (kernel.mjs, the comment above drainMovingIn).
HandWorkStaysUncommitted ==
    [][~robbed' => \A j \in handRan \ head : j \notin head']_vars

\* The pidfile of a daemon that is gone names a process that is no kernel:
\* start-comms.sh takes it for the daemon.
Shadowed == pidfile \in foreign

\* Every queued job leaves the queue in the end, whatever dies and restarts,
\* unless a wedged lock file or a human-lock stops every drain, or another program
\* keeps the daemon's old pid.
QueueDrainsUnlessWedged ==
    <>[](~human /\ ~movingIn /\ ~Shadowed) =>
        \A j \in Job : at[j] = "queue" ~> (at[j] # "queue" \/ Wedged)

-----------------------------------------------------------------------------

Lifecycle == INSTANCE JobLifecycle

\* The kernel does to a job what JobLifecycle allows and nothing else, with any
\* number of kernels, crashes, robbed locks and changes of the move-in flag.
ImplementsJobLifecycle == Lifecycle!Spec
=============================================================================
