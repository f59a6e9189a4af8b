------------------------------ MODULE ScriptRuns ------------------------------
(* One script on a schedule (engine/cron): fire and Run now start it, the lock of *)
(* cadence-lock.mjs keeps its runs apart, the row of the run ledger says how they *)
(* went.  The scheduler is one process with several runs in flight, every Run now *)
(* is a process of its own.  What a process does without an await is one block;   *)
(* two processes interleave at every system call.  Locks of two scripts have      *)
(* nothing in common; the ledger's own steps are in RunLedger.                    *)
EXTENDS Naturals, FiniteSets

CONSTANTS
    Cron,         \* runs the scheduler can have in flight
    Dash,         \* Run now: one click and one exec process each
    None, Gone,   \* no run, a dead process
    MaxDeaths,    \* deaths of a process or of the container
    MaxFlips      \* changes of the switch

Run == Cron \cup Dash

ASSUME SlotAssumption == Cron \cap Dash = {} /\ {None, Gone} \cap Run = {} /\ None # Gone
ASSUME BoundAssumption == MaxDeaths \in Nat /\ MaxFlips \in Nat

VARIABLES
    on,         \* would fire start it: it is switched on, and no move-in is going on
    up,         \* the scheduler's process lives
    flips, deaths,
    pc,         \* where a run is in runScript
    child,      \* how its program stands: none, runs, late (past its limit), orphan
    ended,      \* how it ended last
    row,        \* whose row last-script-runs.json holds, and what it says
    told,       \* what Run now printed
    owner, filled, old,   \* the lock file: whose, written to, past its limit
    robbed      \* history: a lock was removed while another run of the script went on

lockVars == <<owner, filled, old, robbed>>
clockVars == <<on, up, flips, deaths>>
vars == <<clockVars, pc, child, ended, row, told, lockVars>>

InBlock(r) == pc[r] \notin {"off", "running", "dead"}
\* A process's block runs to its end before another of its callbacks does.
Turn(r) == \A q \in Cron \ {r} : r \in Cron => ~InBlock(q)
Step(r, from, to) == pc[r] = from /\ Turn(r) /\ pc' = [pc EXCEPT ![r] = to]

Init ==
    /\ on \in BOOLEAN /\ up = TRUE /\ flips = 0 /\ deaths = 0
    /\ pc = [r \in Run |-> "off"] /\ child = [r \in Run |-> "none"]
    /\ ended = [r \in Run |-> "none"] /\ row = [run |-> None, how |-> "none"]
    /\ told = [d \in Dash |-> "none"]
    /\ owner = None /\ filled = FALSE /\ old = FALSE /\ robbed = FALSE
-----------------------------------------------------------------------------
(* The scheduler and the Skills page.                                          *)

\* tick and fire in a minute its schedule matches: entry and move-in flag are
\* read again then.
Tick(r) ==
    /\ up /\ on /\ child[r] = "none" /\ Step(r, "off", "create")
    /\ UNCHANGED <<clockVars, child, ended, row, told, lockVars>>

Held == owner \in Run /\ filled /\ ~old

\* run: says so if it is running, else spawns exec and waits for its row.
RunNow(d) ==
    /\ told[d] = "none"
    /\ told' = [told EXCEPT ![d] = IF Held THEN "running" ELSE "waits"]
    /\ pc' = [pc EXCEPT ![d] = IF Held THEN "off" ELSE "create"]
    /\ UNCHANGED <<clockVars, child, ended, row, lockVars>>

\* Mutant of Report: the token is not compared.
ReportAny(d) ==
    /\ told[d] = "waits"
    /\ \E says \in {row.how, "still"} \ {"none"} : told' = [told EXCEPT ![d] = says]
    /\ UNCHANGED <<clockVars, pc, child, ended, row, lockVars>>

\* The row with its token says how it went; past the wait, "still running".
Report(d) ==
    /\ told[d] = "waits"
    /\ \E says \in {IF row.run = d THEN row.how ELSE "still", "still"} : told' = [told EXCEPT ![d] = says]
    /\ UNCHANGED <<clockVars, pc, child, ended, row, lockVars>>

\* saveChanges publishes the page's switch by a rename; a move-in ends.
Save ==
    /\ flips < MaxFlips /\ flips' = flips + 1 /\ on' = ~on
    /\ UNCHANGED <<up, deaths, pc, child, ended, row, told, lockVars>>
-----------------------------------------------------------------------------
(* takeRunLock, runLockHeld, releaseRunLock.                                   *)

\* Mutant of Create: the file is opened without O_EXCL.
CreateOver(r) ==
    /\ Step(r, "create", "write") \/ Step(r, "recreate", "write")
    /\ owner' = r /\ filled' = FALSE /\ old' = FALSE
    /\ UNCHANGED <<clockVars, child, ended, row, told, robbed>>

\* writeFileSync 'wx', its first half: the open fails if there is a file.
Create(r) ==
    /\ \/ Step(r, "create", IF owner = None THEN "write" ELSE "look")
       \/ Step(r, "recreate", IF owner = None THEN "write" ELSE "lookAgain")
    /\ IF owner = None THEN owner' = r /\ filled' = FALSE /\ old' = FALSE
                       ELSE UNCHANGED <<owner, filled, old>>
    /\ UNCHANGED <<clockVars, child, ended, row, told, robbed>>

\* ... and the pid, the time and the limit.  Then execFile.
Write(r) ==
    /\ Step(r, "write", "running")
    /\ filled' = (filled \/ owner = r)
    /\ child' = [child EXCEPT ![r] = "runs"]
    /\ UNCHANGED <<clockVars, ended, row, told, owner, old, robbed>>

\* Mutant of Look: a lock past its limit counts as held.
LookForEver(r) ==
    /\ \/ Step(r, "look", IF owner # None /\ filled THEN "off" ELSE "remove")
       \/ Step(r, "lookAgain", IF owner # None /\ filled THEN "off" ELSE "removeLast")
    /\ UNCHANGED <<clockVars, child, ended, row, told, lockVars>>

\* Over: the exec process of a Run now exits, the scheduler waits for the next minute.
Over(r) == IF r \in Dash THEN "dead" ELSE "off"

\* runLockHeld: not if it is unreadable, its pid gone or its limit past.  The pid
\* of a dead process may be somebody else's by now.
Look(r) ==
    /\ \E held \in {Held, owner # None /\ filled /\ ~old} :
          \/ Step(r, "look", IF held THEN Over(r) ELSE "remove")
          \/ Step(r, "lookAgain", IF held THEN Over(r) ELSE "removeLast")
    /\ UNCHANGED <<clockVars, child, ended, row, told, lockVars>>

\* Another run may be going on without its lock from here.
Drop(r) ==
    /\ owner' = None /\ filled' = FALSE /\ old' = FALSE
    /\ robbed' = (robbed \/ \E q \in Run \ {r} : pc[q] = "write" \/ child[q] # "none")

\* rmSync of the stale lock, then one more try; the second time it is all over.
RemoveStale(r) ==
    /\ Step(r, "remove", "recreate") \/ Step(r, "removeLast", Over(r))
    /\ Drop(r)
    /\ UNCHANGED <<clockVars, child, ended, row, told>>

\* releaseRunLock does not look whose lock it is.
Release(r) ==
    /\ Step(r, "release", Over(r))
    /\ Drop(r)
    /\ UNCHANGED <<clockVars, child, ended, row, told>>
-----------------------------------------------------------------------------
(* runScript's callback.                                                       *)

\* The program ends; its time limit ends it too, if it obeys SIGTERM.
End(r) ==
    /\ Step(r, "running", "append")
    /\ child' = [child EXCEPT ![r] = "none"]
    /\ \E how \in {"ok", "fail"} :
          /\ child[r] = "late" => how = "fail"
          /\ ended' = [ended EXCEPT ![r] = how]
    /\ UNCHANGED <<clockVars, row, told, lockVars>>

\* An orphan of a dead process ends with nobody to say so.
OrphanEnds(r) ==
    /\ child[r] = "orphan" /\ child' = [child EXCEPT ![r] = "none"]
    /\ UNCHANGED <<clockVars, pc, ended, row, told, lockVars>>

\* appendRun: the row, with this run's token, takes the place of the one before.
\* It is lost to another process in appendRun at the same time, or in its catch.
Record(r) ==
    /\ Step(r, "append", "release")
    /\ \/ row' = [run |-> r, how |-> ended[r]]
       \/ row' = [run |-> None, how |-> "none"]
       \/ UNCHANGED row
    /\ ended' = [ended EXCEPT ![r] = IF r \in Dash THEN @ ELSE "none"]
    /\ UNCHANGED <<clockVars, child, told, lockVars>>
-----------------------------------------------------------------------------
(* Time and death.                                                             *)

\* The lock passes the limit and a minute: the program got its SIGTERM a minute
\* ago, and if it still runs it ignores it.
Expire ==
    /\ filled /\ ~old /\ old' = TRUE
    /\ child' = [r \in Run |-> IF r = owner /\ child[r] = "runs" THEN "late" ELSE child[r]]
    /\ UNCHANGED <<clockVars, pc, ended, row, told, owner, filled, robbed>>

Die(gone) ==
    /\ deaths < MaxDeaths /\ deaths' = deaths + 1
    /\ pc' = [r \in Run |-> IF r \notin gone \/ pc[r] = "off" THEN pc[r]
                            ELSE Over(r)]
    /\ owner' = (IF owner \in gone THEN Gone ELSE owner)
    /\ ended' = [r \in Run |-> IF r \in gone \cap Cron THEN "none" ELSE ended[r]]
    /\ UNCHANGED <<on, flips, row, told, filled, old, robbed>>

\* A process is killed; what it started lives on.
Kill(gone) ==
    /\ \E r \in gone : (r \in Cron /\ up) \/ pc[r] \notin {"off", "dead"}
    /\ Die(gone) /\ up' = (up /\ gone \cap Cron = {})
    /\ child' = [r \in Run |-> IF r \in gone /\ child[r] # "none" THEN "orphan" ELSE child[r]]

\* The container restarts: everything in it is gone, and box-up.sh starts the
\* scheduler, which nothing else does.
Restart == Die(Run) /\ up' = TRUE /\ child' = [r \in Run |-> "none"]

RunStep(r) ==
    \/ Create(r) \/ Write(r) \/ Look(r) \/ RemoveStale(r) \/ End(r) \/ Record(r) \/ Release(r)

Next ==
    \/ Save \/ Expire \/ Restart \/ Kill(Cron)
    \/ \E r \in Cron : Tick(r)
    \/ \E d \in Dash : RunNow(d) \/ Report(d) \/ Kill({d})
    \/ \E r \in Run : RunStep(r) \/ OrphanEnds(r)

Spec == Init /\ [][Next]_vars

\* Programs end (their limit sees to it), locks grow old, minutes pass for a scheduler
\* that lives, and a process that can go on does.  A callback or a tick waits for the blocks of the
\* same process again and again: its event loop gets to it all the same.
FairSpec ==
    /\ Spec /\ WF_vars(Expire) /\ SF_vars(\E r \in Cron : Tick(r))
    /\ \A r \in Run : SF_vars(RunStep(r)) /\ WF_vars(OrphanEnds(r))
-----------------------------------------------------------------------------
\* Every variable stays in its range; the lock file is written to or old only
\* while there is one, and a run's process waits for a program as long as it runs.
TypeOK ==
    /\ on \in BOOLEAN /\ up \in BOOLEAN /\ flips \in 0..MaxFlips /\ deaths \in 0..MaxDeaths
    /\ pc \in [Run -> {"off", "create", "write", "look", "remove", "recreate", "lookAgain",
                       "removeLast", "running", "append", "release", "dead"}]
    /\ child \in [Run -> {"none", "runs", "late", "orphan"}]
    /\ ended \in [Run -> {"none", "ok", "fail"}]
    /\ row \in [run : Run \cup {None}, how : {"none", "ok", "fail"}]
    /\ told \in [Dash -> {"none", "running", "waits", "still", "ok", "fail"}]
    /\ owner \in Run \cup {None, Gone} /\ filled \in BOOLEAN /\ old \in BOOLEAN /\ robbed \in BOOLEAN
    /\ (old => filled) /\ (filled => owner # None)
    /\ \A r \in Run : (child[r] \in {"runs", "late"}) <=> (pc[r] = "running")

\* A second copy runs on top of the first only after a lock was removed while the
\* program it guarded went on: the exclusive create and the order create, look,
\* remove, create keep any number of starters apart (takeRunLock).
OneCopyUnlessRobbed ==
    robbed \/ \A r, q \in Run : r # q => "none" \in {child[r], child[q]}

\* What Run now says of a run that ended is how that very run ended, though a
\* scheduled run writes the same row (scripts.mjs run, the token).
ToldItsOwn == [][\A d \in Dash : told'[d] # told[d] /\ told'[d] \in {"ok", "fail"} => told'[d] = ended[d]]_vars

\* A script switched on outside a move-in runs again and again for as long as the
\* scheduler lives: no lock left by a crash, and no program past its limit, keeps it
\* from starting for good.
RunsAgain == <>[](on /\ up) => []<>(\E r \in Cron : child[r] = "runs")
=============================================================================
