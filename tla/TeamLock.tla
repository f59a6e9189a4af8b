------------------------------- MODULE TeamLock -------------------------------
(***************************************************************************)
(* withBrainLock of engine/team/team-lock.mjs: the directory lock around   *)
(* every write to the company brain's clone (the hourly merge, the owner's *)
(* decision, a proposal from Slack, the shared inbox).                     *)
(*                                                                         *)
(* mkdir takes the lock; a token file inside it says whose it is.  A       *)
(* waiter looks at the directory's age: past STALE_MS it removes it, past  *)
(* its own deadline it gives up, else it sleeps and tries again.  Every    *)
(* system call is a step, so any process may run between two of them.      *)
(*                                                                         *)
(* A directory's age is its mtime's, which the kernel of the operating     *)
(* system renews whenever an entry of it is created or removed.            *)
(***************************************************************************)
EXTENDS Naturals

CONSTANTS
    Writer,         \* processes that write the company brain
    None,           \* no directory, or no token in it
    Torn,           \* a token file whose write failed half-way
    MaxLockFaults,  \* bound: deaths and failed token writes in a behaviour
    MaxPauses       \* bound: pauses of STALE_MS of a live process, see Paused

ASSUME NoneAssumption == None \notin Writer /\ Torn \notin Writer /\ None # Torn
ASSUME LockBounds == MaxLockFaults \in Nat /\ MaxPauses \in Nat

VARIABLES
    stage,       \* per process: the next step of withBrainLock
    maker,       \* whose mkdir made .brain.lock, None if there is none
    token,       \* whose token is in it: None (no file), Torn, or a process
    aged,        \* the directory's mtime is more than STALE_MS ago
    late,        \* the waiters whose waitMs are over
    lockFaults,  \* faults so far
    pauses,      \* pauses so far
    broken       \* history: a waiter removed the directory of a live holder

lockVars == <<stage, maker, token, aged, late, lockFaults, pauses, broken>>

LockStages == {"off", "mkdir", "stat", "break", "token", "inside", "check",
               "empty", "rmdir"}

Waiting(p) == stage[p] \in {"mkdir", "stat", "break"}

\* mkdir has succeeded and the lock has not been given back.
Holding(p) == stage[p] \in {"token", "inside", "check", "empty", "rmdir"}

LockInit ==
    /\ stage = [p \in Writer |-> "off"]
    /\ maker = None
    /\ token = None
    /\ aged = FALSE
    /\ late = {}
    /\ lockFaults = 0
    /\ pauses = 0
    /\ broken = FALSE

Proceed(p, s) == stage' = [stage EXCEPT ![p] = s]

-----------------------------------------------------------------------------
(* Taking the lock.                                                        *)

Arrive(p) ==
    /\ stage[p] = "off"
    /\ Proceed(p, "mkdir")
    /\ late' = late \ {p}
    /\ UNCHANGED <<maker, token, aged, lockFaults, pauses, broken>>

\* Mutant of Mkdir: mkdir -p, which an existing directory does not stop.
MkdirAnyway(p) ==
    /\ stage[p] = "mkdir"
    /\ maker' = p
    /\ aged' = (aged /\ maker # None)
    /\ Proceed(p, "token")
    /\ UNCHANGED <<token, late, lockFaults, pauses, broken>>

Mkdir(p) ==
    /\ stage[p] = "mkdir"
    /\ \/ /\ maker = None
          /\ maker' = p
          /\ aged' = FALSE
          /\ Proceed(p, "token")
       \/ /\ maker # None
          /\ Proceed(p, "stat")
          /\ UNCHANGED <<maker, aged>>
    /\ UNCHANGED <<token, late, lockFaults, pauses, broken>>

\* Mutant of Stat: age is compared before it is computed, so nothing is stale.
StatNeverStale(p) ==
    /\ stage[p] = "stat"
    /\ Proceed(p, IF maker # None /\ p \in late THEN "off" ELSE "mkdir")
    /\ UNCHANGED <<maker, token, aged, late, lockFaults, pauses, broken>>

\* The directory is gone: try again.  Stale: break it, whatever the deadline.
\* Past the deadline: throw.  Else sleep and try again.
Stat(p) ==
    /\ stage[p] = "stat"
    /\ \/ maker = None /\ Proceed(p, "mkdir")
       \/ maker # None /\ aged /\ Proceed(p, "break")
       \/ maker # None /\ ~aged /\ p \in late /\ Proceed(p, "off")
       \/ maker # None /\ ~aged /\ p \notin late /\ Proceed(p, "mkdir")
    /\ UNCHANGED <<maker, token, aged, late, lockFaults, pauses, broken>>

\* Mutant of Break: the directory is removed with what is in it.
BreakRecursively(p) ==
    /\ stage[p] = "break"
    /\ maker' = None
    /\ token' = None
    /\ aged' = FALSE
    /\ broken' = (broken \/ (maker # None /\ Holding(maker) /\ token = None))
    /\ Proceed(p, "mkdir")
    /\ UNCHANGED <<late, lockFaults, pauses>>

\* rmdir removes an empty directory, whosever it is by now; one with a token in
\* it stays, and the error is taken for `someone else broke it'.
Break(p) ==
    /\ stage[p] = "break"
    /\ \/ /\ maker # None /\ token = None
          /\ maker' = None
          /\ aged' = FALSE
          /\ broken' = (broken \/ Holding(maker))
       \/ /\ maker = None \/ token # None
          /\ UNCHANGED <<maker, aged, broken>>
    /\ Proceed(p, "mkdir")
    /\ UNCHANGED <<token, late, lockFaults, pauses>>

\* writeFile of the token.  No directory: the error is swallowed.  A new entry
\* renews the mtime, a rewritten one does not.
WriteToken(p) ==
    /\ stage[p] = "token"
    /\ token' = IF maker = None THEN None ELSE p
    /\ aged' = (aged /\ (maker = None \/ token # None))
    /\ Proceed(p, "inside")
    /\ UNCHANGED <<maker, late, lockFaults, pauses, broken>>

\* The disk is full: no entry, or an entry without the token.  Swallowed too.
WriteTokenFails(p) ==
    /\ stage[p] = "token"
    /\ lockFaults < MaxLockFaults
    /\ \/ UNCHANGED <<token, aged>>
       \/ /\ maker # None
          /\ token' = Torn
          /\ aged' = (aged /\ token # None)
    /\ lockFaults' = lockFaults + 1
    /\ Proceed(p, "inside")
    /\ UNCHANGED <<maker, late, pauses, broken>>

-----------------------------------------------------------------------------
(* Giving it back: the finally block.                                      *)

\* fn returns or throws.
Leave(p) ==
    /\ stage[p] = "inside"
    /\ Proceed(p, "check")
    /\ UNCHANGED <<maker, token, aged, late, lockFaults, pauses, broken>>

\* `still': only a lock with one's own token in it is removed.
Check(p) ==
    /\ stage[p] = "check"
    /\ Proceed(p, IF token = p THEN "empty" ELSE "off")
    /\ UNCHANGED <<maker, token, aged, late, lockFaults, pauses, broken>>

\* rmSync recursive: first the token file, then the directory if it is empty.
Empty(p) ==
    /\ stage[p] = "empty"
    /\ token' = None
    /\ aged' = (aged /\ token = None)
    /\ Proceed(p, "rmdir")
    /\ UNCHANGED <<maker, late, lockFaults, pauses, broken>>

Rmdir(p) ==
    /\ stage[p] = "rmdir"
    /\ \/ /\ token = None
          /\ maker' = None
          /\ aged' = FALSE
       \/ /\ token # None
          /\ UNCHANGED <<maker, aged>>
    /\ Proceed(p, "off")
    /\ UNCHANGED <<token, late, lockFaults, pauses, broken>>

-----------------------------------------------------------------------------
(* The surroundings.                                                       *)

\* The clock passes a waiter's deadline.
Expire(p) ==
    /\ Waiting(p) /\ p \notin late
    /\ late' = late \cup {p}
    /\ UNCHANGED <<stage, maker, token, aged, lockFaults, pauses, broken>>

\* A live process paused while the directory has no token: its holder, or one
\* between the two halves of the removal.
Paused ==
    /\ maker \in Writer /\ token = None
    /\ Holding(maker) \/ \E p \in Writer : stage[p] = "rmdir"

\* The clock takes the directory past STALE_MS.
Age ==
    /\ maker # None /\ ~aged
    /\ aged' = TRUE
    /\ Paused => pauses < MaxPauses
    /\ pauses' = IF Paused THEN pauses + 1 ELSE pauses
    /\ UNCHANGED <<stage, maker, token, late, lockFaults, broken>>

Die(p) ==
    /\ stage[p] # "off"
    /\ lockFaults < MaxLockFaults
    /\ Proceed(p, "off")
    /\ lockFaults' = lockFaults + 1
    /\ UNCHANGED <<maker, token, aged, late, pauses, broken>>

Step(p) ==
    \/ Mkdir(p) \/ Stat(p) \/ Break(p) \/ WriteToken(p)
    \/ Leave(p) \/ Check(p) \/ Empty(p) \/ Rmdir(p)

LockNext ==
    \/ \E p \in Writer :
          Arrive(p) \/ Step(p) \/ WriteTokenFails(p) \/ Expire(p) \/ Die(p)
    \/ Age

LockSpec == LockInit /\ [][LockNext]_lockVars

\* A process that has begun goes on (git's calls under the lock have a time limit
\* of their own), the clock runs, and the cron keeps sending writers.  A waiter's
\* stat, right behind its mkdir, does not find the directory gone every time: that
\* branch never looks at the deadline.  Nobody has to die or to pause.
LockFairSpec ==
    /\ LockSpec
    /\ \A p \in Writer :
          WF_lockVars(Step(p)) /\ WF_lockVars(Expire(p)) /\ SF_lockVars(maker # None /\ Stat(p))
    /\ WF_lockVars(Age)
    /\ WF_lockVars(\E p \in Writer : Arrive(p))

-----------------------------------------------------------------------------
(* Properties.                                                             *)

\* Every variable has its type; a token lies in a directory.
LockTypeOK ==
    /\ stage \in [Writer -> LockStages]
    /\ maker \in Writer \cup {None}
    /\ token \in Writer \cup {None, Torn}
    /\ aged \in BOOLEAN
    /\ late \in SUBSET Writer
    /\ lockFaults \in Nat
    /\ pauses \in Nat
    /\ broken \in BOOLEAN
    /\ maker = None => token = None

\* `One writer at a time in the company agent's brain clone' (line 1).  After one
\* death two waiters see the same stale empty directory; the slower one's rmdir
\* removes the directory the faster one has made since.
OneWriter ==
    \A p, q \in Writer : stage[p] = "inside" /\ stage[q] = "inside" => p = q

\* One writer at a time until a waiter has removed a live holder's directory: no
\* other interleaving of the waiters, of a dead process's leftovers or of the two
\* halves of the removal lets a second writer in.
OneWriterUnlessBroken == ~broken => OneWriter

\* The directory of every holder is its own until then: the strengthening.
HolderMadeIt == ~broken => \A p \in Writer : Holding(p) => maker = p

\* A live holder with its token in its directory keeps both however old they get
\* and whoever waits: what breaks a stale lock cannot break one in use.
InUse(p) == stage[p] = "inside" /\ maker = p /\ token = p
KeepsLockInUse ==
    [][\A p \in Writer : ~broken /\ InUse(p) => maker' = p /\ token' = p]_lockVars

\* The lock directory of a process that no longer holds it.
Orphaned == maker # None /\ ~Holding(maker)

\* A stale directory nobody can break: it has an entry, so rmdir fails.
Stuck == maker # None /\ aged /\ token # None

\* Unless the lock is stuck, a waiter gets in or is told the brain is busy.
WaitEndsUnlessStuck ==
    <>[]~Stuck => \A p \in Writer : Waiting(p) ~> ~Waiting(p)

\* A directory left behind without a token is broken in the end.
BrokenIfEmpty == (Orphaned /\ token = None) ~> (~Orphaned \/ token # None)

\* Both: a writer's turn comes, though others die.  Lines 8-9 promise more (`a lock
\* older than STALE_MS is a crashed holder and is broken'), which a token prevents.
TurnComes == WaitEndsUnlessStuck /\ BrokenIfEmpty
=============================================================================
