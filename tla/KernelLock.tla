------------------------------ MODULE KernelLock ------------------------------
(***************************************************************************)
(* The kernel's lock file, .kernel/lock, as acquireLock and the finally    *)
(* blocks of engine/kernel/kernel.mjs use it.  Many kernel processes run   *)
(* beside each other: the polling daemon start-comms.sh keeps up, and one  *)
(* `--once' process for every cron job or hand-started skill.  The file    *)
(* holds a pid.  Creating it (open with O_EXCL) and writing the pid are    *)
(* two system calls; reading it, probing the pid, removing a stale file    *)
(* and creating the next one are four more, and any process may run        *)
(* between two of them.                                                    *)
(*                                                                         *)
(* A kernel is named by its pid.  A pid whose process is gone may be taken *)
(* by a program that is no kernel (`foreign'), or by the next kernel.      *)
(***************************************************************************)
EXTENDS Naturals

CONSTANTS
    Pid,         \* the pids a kernel process may get
    NoPid,       \* no lock file, or nothing read yet
    Reusable,    \* the pids a program that is no kernel may be given later
    MaxDeaths    \* bound: kernel deaths and container restarts in a behaviour

ASSUME PidAssumption == NoPid \notin Pid
ASSUME ReusableAssumption == Reusable \subseteq Pid
ASSUME MaxDeathsAssumption == MaxDeaths \in Nat

VARIABLES
    stage,       \* per pid: where its process is in a drain ("off": no process)
    owner,       \* the pid whose process created the lock file, NoPid if absent
    filled,      \* the lock file holds that pid (FALSE: created, still empty)
    seen,        \* per pid: the pid acquireLock read from the lock file
    human,       \* .kernel/human-lock exists
    foreign,     \* pids now used by programs that are not kernels
    deaths,      \* deaths so far
    robbed       \* history: a process removed the lock file of a live holder

lockVars == <<stage, owner, filled, seen, human, foreign, deaths, robbed>>

Stages == {"off", "idle", "gate", "create", "write", "read", "probe",
           "remove", "retake", "held", "over"}

\* acquireLock has created the file: it will return true, whatever happens to it.
Holding(p) == stage[p] \in {"write", "held"}

\* process.kill(pid, 0) finds a process.
Alive(p) == stage[p] # "off" \/ p \in foreign

LockInit ==
    /\ stage = [p \in Pid |-> "off"]
    /\ owner = NoPid
    /\ filled = FALSE
    /\ seen = [p \in Pid |-> NoPid]
    /\ human = FALSE
    /\ foreign = {}
    /\ deaths = 0
    /\ robbed = FALSE

Goto(p, s) == stage' = [stage EXCEPT ![p] = s]

\* The lock file is unlinked, whoever made it.
Unlink(p) ==
    /\ owner' = NoPid
    /\ filled' = FALSE
    /\ robbed' = (robbed \/ (owner \in Pid \ {p} /\ Holding(owner)))

-----------------------------------------------------------------------------
(* A process and its drains.                                               *)

Start(p) ==
    /\ stage[p] = "off"
    /\ p \notin foreign
    /\ Goto(p, "idle")
    /\ UNCHANGED <<owner, filled, seen, human, foreign, deaths, robbed>>

\* A drain starts and will try for the lock; a hand run skips the human gate.
Begin(p) ==
    /\ stage[p] = "idle"
    /\ Goto(p, "gate")
    /\ UNCHANGED <<owner, filled, seen, human, foreign, deaths, robbed>>

BeginPastHuman(p) ==
    /\ stage[p] = "idle"
    /\ Goto(p, "create")
    /\ UNCHANGED <<owner, filled, seen, human, foreign, deaths, robbed>>

\* A drain that ends before it tries for the lock.
Skip(p) ==
    /\ stage[p] = "idle"
    /\ Goto(p, "over")
    /\ UNCHANGED <<owner, filled, seen, human, foreign, deaths, robbed>>

\* The daemon sleeps KERNEL_POLL_MS and drains again; `--once' exits.
Poll(p) ==
    /\ stage[p] = "over"
    /\ Goto(p, "idle")
    /\ UNCHANGED <<owner, filled, seen, human, foreign, deaths, robbed>>

Exit(p) ==
    /\ stage[p] = "over"
    /\ Goto(p, "off")
    /\ seen' = [seen EXCEPT ![p] = NoPid]
    /\ UNCHANGED <<owner, filled, human, foreign, deaths, robbed>>

-----------------------------------------------------------------------------
(* acquireLock.                                                            *)

HumanGate(p) ==
    /\ stage[p] = "gate"
    /\ Goto(p, IF human THEN "over" ELSE "create")
    /\ UNCHANGED <<owner, filled, seen, human, foreign, deaths, robbed>>

\* Mutant of OpenExclusive: flag 'w'.
OpenAnyway(p, from, lost) ==
    /\ stage[p] = from
    /\ owner' = p
    /\ filled' = FALSE
    /\ Goto(p, "write")
    /\ UNCHANGED <<seen, human, foreign, deaths, robbed>>

\* writeFile(..., { flag: 'wx' }): the open half.  `lost' is where EEXIST leads.
OpenExclusive(p, from, lost) ==
    /\ stage[p] = from
    /\ \/ /\ owner = NoPid
          /\ owner' = p
          /\ Goto(p, "write")
       \/ /\ owner # NoPid
          /\ owner' = owner
          /\ Goto(p, lost)
    /\ UNCHANGED <<filled, seen, human, foreign, deaths, robbed>>

Create(p) == OpenExclusive(p, "create", "read")

\* ... and the write half.  A file unlinked in between takes the pid with it.
WritePid(p) ==
    /\ stage[p] = "write"
    /\ filled' = (filled \/ owner = p)
    /\ Goto(p, "held")
    /\ UNCHANGED <<owner, seen, human, foreign, deaths, robbed>>

\* No file any more: give up.  An empty file reads as pid 0, and kill(0, 0)
\* always succeeds: give up.  Otherwise a pid to probe.
ReadPid(p) ==
    /\ stage[p] = "read"
    /\ \/ /\ filled
          /\ seen' = [seen EXCEPT ![p] = owner]
          /\ Goto(p, "probe")
       \/ /\ ~filled
          /\ seen' = seen
          /\ Goto(p, "over")
    /\ UNCHANGED <<owner, filled, human, foreign, deaths, robbed>>

\* Mutant of Probe: any pid in the file counts as alive.
ProbeTrusting(p) ==
    /\ stage[p] = "probe"
    /\ Goto(p, "over")
    /\ UNCHANGED <<owner, filled, seen, human, foreign, deaths, robbed>>

Probe(p) ==
    /\ stage[p] = "probe"
    /\ Goto(p, IF Alive(seen[p]) THEN "over" ELSE "remove")
    /\ UNCHANGED <<owner, filled, seen, human, foreign, deaths, robbed>>

\* rm(p.lock): whatever the path names by now.
RemoveStale(p) ==
    /\ stage[p] = "remove"
    /\ Unlink(p)
    /\ Goto(p, "retake")
    /\ UNCHANGED <<seen, human, foreign, deaths>>

Retake(p) == OpenExclusive(p, "retake", "over")

\* The finally block: rm(p.lock) without a look at whose it is.
Release(p) ==
    /\ stage[p] = "held"
    /\ Unlink(p)
    /\ Goto(p, "over")
    /\ UNCHANGED <<seen, human, foreign, deaths>>

-----------------------------------------------------------------------------
(* The surroundings.                                                       *)

Die(p) ==
    /\ stage[p] # "off"
    /\ deaths < MaxDeaths
    /\ Goto(p, "off")
    /\ seen' = [seen EXCEPT ![p] = NoPid]
    /\ deaths' = deaths + 1
    /\ UNCHANGED <<owner, filled, human, foreign, robbed>>

\* The container restarts: every process is gone, .kernel/ is on the volume.
Restart ==
    /\ deaths < MaxDeaths
    /\ stage' = [p \in Pid |-> "off"]
    /\ seen' = [p \in Pid |-> NoPid]
    /\ foreign' = {}
    /\ deaths' = deaths + 1
    /\ UNCHANGED <<owner, filled, human, robbed>>

\* Another program is given the pid of a kernel that is gone, or ends.
Recycle(p) ==
    /\ p \in Reusable \ foreign
    /\ stage[p] = "off"
    /\ foreign' = foreign \cup {p}
    /\ UNCHANGED <<stage, owner, filled, seen, human, deaths, robbed>>

Vacate(p) ==
    /\ p \in foreign
    /\ foreign' = foreign \ {p}
    /\ UNCHANGED <<stage, owner, filled, seen, human, deaths, robbed>>

\* box-up.sh takes the human-lock at boot; live cadence releases it.
HumanTakes ==
    /\ ~human
    /\ human' = TRUE
    /\ UNCHANGED <<stage, owner, filled, seen, foreign, deaths, robbed>>

HumanLeaves ==
    /\ human
    /\ human' = FALSE
    /\ UNCHANGED <<stage, owner, filled, seen, foreign, deaths, robbed>>

Acquire(p) ==
    \/ HumanGate(p) \/ Create(p) \/ WritePid(p) \/ ReadPid(p) \/ Probe(p)
    \/ RemoveStale(p) \/ Retake(p)

Drain(p) ==
    \/ Start(p) \/ Begin(p) \/ BeginPastHuman(p) \/ Skip(p)
    \/ Poll(p) \/ Exit(p) \/ Acquire(p) \/ Release(p)

LockNext ==
    \/ \E p \in Pid : Drain(p) \/ Die(p) \/ Recycle(p) \/ Vacate(p)
    \/ Restart \/ HumanTakes \/ HumanLeaves

LockSpec == LockInit /\ [][LockNext]_lockVars
-----------------------------------------------------------------------------
(* Properties.                                                             *)

\* Every variable has its type.
LockTypeOK ==
    /\ stage \in [Pid -> Stages]
    /\ owner \in Pid \cup {NoPid}
    /\ filled \in BOOLEAN
    /\ seen \in [Pid -> Pid \cup {NoPid}]
    /\ human \in BOOLEAN
    /\ foreign \in SUBSET Pid
    /\ deaths \in Nat
    /\ robbed \in BOOLEAN

\* At most one kernel is past acquireLock.  kernel.mjs calls itself "the ONLY
\* process that commits"; the stale-pid takeover does not keep it.
SingleWriter == \A p, q \in Pid : Holding(p) /\ Holding(q) => p = q

\* Every kernel past acquireLock has its own lock file on disk, until somebody
\* removes the file of a live holder.  The strengthening SingleWriterUnlessRobbed
\* needs: it is what makes the O_EXCL create of the next kernel fail.
HolderOwnsFile == ~robbed => \A p \in Pid : Holding(p) => owner = p

\* Two kernels write at once only after one removed the other's lock file: the
\* takeover's rm is the one door through which a second writer comes in.
SingleWriterUnlessRobbed == ~robbed => SingleWriter

\* No path through a drain leaves the lock file behind: with no death and no
\* robbery, a lock file belongs to a kernel that still holds it.
StaleOnlyAfterDeath ==
    deaths = 0 /\ ~robbed /\ owner # NoPid => Holding(owner)

\* A lock file no kernel will ever judge stale while things stay as they are:
\* its maker died before writing the pid, or the pid is somebody else's now.
Wedged ==
    /\ owner # NoPid
    /\ \/ ~filled /\ stage[owner] # "write"
       \/ filled /\ owner \in foreign
       \/ filled /\ stage[owner] \notin {"off", "held"}
=============================================================================
