-------------------------------- MODULE GitSync --------------------------------
(* A drain's way to the remote (engine/kernel/lib/git.mjs): clearRebase,         *)
(* commitAll, syncPush and adoptedPush, one action per git command, against a    *)
(* remote with other writers.  A pebble's box is the writer of record; on an     *)
(* adopted brain a person works in the same folder and nothing is overridden.    *)
(*                                                                               *)
(* A change is a commit's worth of edits.  A ref is the set of changes in its    *)
(* history and the set its tree shows; over[o] are the outside changes that own  *)
(* change o was made (or replayed) on top of.                                    *)
EXTENDS Naturals, Sequences, SequencesExt

CONSTANTS
    Ours,       \* edits of this box's jobs, scripts and sessions
    Theirs,     \* changes other writers push to the remote
    Hunk,       \* those that touch lines a job also touches
    Path,       \* those that remove or rename a file a job edits
    Retries,    \* attempts of one push (3 in the code)
    MaxCrashes

ASSUME ChangeAssumption ==
    IsFiniteSet(Ours) /\ Ours \cap Theirs = {} /\ Hunk \cup Path \subseteq Theirs
ASSUME BoundAssumption == Retries \in Nat \ {0} /\ MaxCrashes \in Nat

VARIABLES
    adopted,    \* isAdopted
    net,        \* whether the remote can be reached
    pc, then, tries,
    work,       \* own edits to tracked files that nobody has committed
    edit,       \* whether the person has uncommitted edits
    branch, remote, fetched,  \* the branch, the remote's and FETCH_HEAD
    over,
    op,         \* the git operation in progress and whose it is
    strays,     \* own commits on the detached HEAD of that operation
    saved,      \* those a clearRebase under way has found there
    mark,       \* .kernel/rebase-by-kernel exists
    crashes

gitVars == <<branch, remote, fetched, over>>
placeVars == <<op, strays, mark>>
runVars == <<pc, then, tries, saved>>
vars == <<adopted, net, runVars, work, edit, gitVars, placeVars, crashes>>

Ref == [hist : SUBSET (Ours \cup Theirs), tree : SUBSET (Ours \cup Theirs)]
Nothing == [hist |-> {}, tree |-> {}]

Init ==
    /\ adopted \in BOOLEAN /\ net = TRUE
    /\ pc = "idle" /\ then = "job" /\ tries = 0
    /\ work = {} /\ edit = FALSE
    /\ branch = Nothing /\ remote = Nothing /\ fetched = Nothing
    /\ over = [o \in Ours |-> {}]
    /\ op = "none" /\ strays = <<>> /\ saved = <<>> /\ mark = FALSE /\ crashes = 0

\* Own changes in the branch that `onto' does not have: what a rebase replays.
Pending(onto) == (branch.hist \ onto.hist) \cap Ours
\* The outside changes of `onto' that a replay meets in another form.
Behind(onto) == ~(onto.hist \subseteq branch.hist)
Clash(onto, kind) ==
    {t \in onto.hist \cap kind : Behind(onto) /\ \E o \in Pending(onto) : t \notin over[o]}
Committed == branch.hist \cup Range(strays) \cup Range(saved)

\* git rebase onto `onto', a clash of lines resolved for the replayed commit.
Replay(onto) ==
    /\ branch' = [hist |-> onto.hist \cup Pending(onto),
                  tree |-> (onto.tree \ Clash(onto, Hunk)) \cup Pending(onto)]
    /\ over' = [o \in Ours |-> IF o \in Pending(onto) THEN onto.hist \cap Theirs ELSE over[o]]
PullIn(onto) == IF Behind(onto) THEN Replay(onto) ELSE UNCHANGED <<branch, over>>
-----------------------------------------------------------------------------
(* The kernel.                                                                 *)

Goto(place) == pc' = place /\ UNCHANGED <<then, tries, saved>>
ClearThen(next) == pc' = "clear" /\ then' = next /\ UNCHANGED <<tries, saved>>

\* drain: crash remnants are cleared before any job edits a file.
Begin ==
    /\ pc = "idle" /\ pc' = "clear" /\ then' = "job" /\ tries' = 0 /\ saved' = saved
    /\ UNCHANGED <<adopted, net, work, edit, gitVars, placeVars, crashes>>

\* The jobs have run (their edits are Edit steps); commitAll clears again.
JobsEnd ==
    /\ pc = "job" /\ ClearThen("commit")
    /\ UNCHANGED <<adopted, net, work, edit, gitVars, placeVars, crashes>>

\* git rebase --abort resets the tracked files, whoever was editing them.
Abort == op' = "none" /\ work' = {} /\ edit' = FALSE /\ strays' = <<>>

\* Mutant of Clear: the mark is not asked for.
ClearAnyones ==
    /\ pc = "clear" /\ UNCHANGED <<then, tries>>
    /\ IF op = "none" THEN UNCHANGED <<op, work, edit, strays>> ELSE Abort
    /\ mark' = FALSE /\ saved' = strays
    /\ pc' = (IF strays = <<>> THEN then ELSE "rescue")
    /\ UNCHANGED <<adopted, net, gitVars, crashes>>

\* clearRebase: on an adopted brain only under the kernel's mark, which is all it
\* looks at.  A commit found on the detached HEAD is kept in memory.
Clear ==
    /\ pc = "clear" /\ UNCHANGED <<then, tries>>
    /\ \/ /\ op = "none" \/ (adopted /\ ~mark)
          /\ mark' = FALSE
          /\ pc' = then
          /\ UNCHANGED <<op, strays, saved, work, edit>>
       \/ /\ op # "none" /\ (adopted => mark)
          /\ Abort /\ mark' = FALSE /\ saved' = strays
          /\ pc' = (IF strays = <<>> THEN then ELSE "rescue")
    /\ UNCHANGED <<adopted, net, gitVars, crashes>>

\* The kernel's commit lands where HEAD is: on the branch, or on the detached HEAD
\* of an operation the person has begun meanwhile.
Land(changes) ==
    IF op = "none"
    THEN /\ branch' = [hist |-> branch.hist \cup changes, tree |-> branch.tree \cup changes]
         /\ over' = [o \in Ours |-> IF o \in changes THEN branch.hist \cap Theirs ELSE over[o]]
         /\ strays' = strays
    ELSE strays' = strays \o SetToSeq(changes) /\ UNCHANGED <<branch, over>>

\* Mutant of Rescue: the abort alone.
RescueNothing ==
    /\ pc = "rescue" /\ pc' = then /\ saved' = <<>>
    /\ UNCHANGED <<adopted, net, then, tries, work, edit, gitVars, placeVars, crashes>>

\* Nothing has come in the cherry-pick's way since the abort: no operation of the
\* person's, no edit of a tracked file, no file the branch has not in that form.
Unhindered == op = "none" /\ work = {} /\ ~edit /\ Path \cap fetched.hist = {}

\* clearRebaseNow: the commit the detached HEAD was at is cherry-picked, and given
\* up when that fails.
Rescue ==
    /\ pc = "rescue" /\ pc' = then /\ saved' = <<>>
    /\ \/ Land({Last(saved)})
       \/ ~Unhindered /\ UNCHANGED <<branch, over, strays>>
    /\ UNCHANGED <<adopted, net, then, tries, work, edit, remote, fetched, op, mark, crashes>>

\* commitAll: nothing is committed onto an operation of the person's ...
CommitCheck ==
    /\ pc = "commit"
    /\ Goto(IF adopted /\ op # "none" THEN "idle" ELSE "add")
    /\ UNCHANGED <<adopted, net, work, edit, gitVars, placeVars, crashes>>

\* ... as far as the check saw one.  commitAll, commitOurs: add and commit.
Commit ==
    /\ pc = "add"
    /\ Land(work) /\ work' = {}
    /\ pc' = "clear" /\ then' = (IF adopted THEN "ask" ELSE "pull") /\ tries' = 1
    /\ UNCHANGED <<adopted, net, saved, edit, remote, fetched, op, mark, crashes>>

\* syncPush: git pull --rebase -X theirs.  Files removed on the other side stop it.
Pull ==
    /\ pc = "pull" /\ net /\ work = {} /\ op = "none"
    /\ fetched' = remote
    /\ IF Clash(remote, Path) # {}
       THEN op' = "kernel" /\ ClearThen("fetch") /\ UNCHANGED <<branch, over>>
       ELSE PullIn(remote) /\ Goto("push") /\ op' = op
    /\ UNCHANGED <<adopted, net, work, edit, remote, strays, mark, crashes>>

\* The same fails: no network, somebody's edit in a tracked file, or another
\* kernel's drain has aborted the rebase (it clears before it asks for the lock).
PullFails ==
    /\ pc = "pull"
    /\ ClearThen("fetch")
    /\ UNCHANGED <<adopted, net, work, edit, gitVars, placeVars, crashes>>

\* The fallback, whatever the reason was: fetch ...
Fetch ==
    /\ pc = "fetch" /\ net
    /\ fetched' = remote
    /\ Goto("merge")
    /\ UNCHANGED <<adopted, net, work, edit, branch, remote, over, placeVars, crashes>>

\* Mutant of MergeOurs: the fallback forgets to merge.
MergeNothing ==
    /\ pc = "merge" /\ Goto("push")
    /\ UNCHANGED <<adopted, net, work, edit, gitVars, placeVars, crashes>>

\* ... and git merge -s ours: their history, the box's tree.
MergeOurs ==
    /\ pc = "merge"
    /\ branch' = [branch EXCEPT !.hist = @ \cup fetched.hist]
    /\ Goto("push")
    /\ UNCHANGED <<adopted, net, work, edit, remote, fetched, over, placeVars, crashes>>

\* git push is refused unless the remote's tip is in the pushed history.
Push ==
    /\ pc \in {"push", "sendOurs"} /\ net
    /\ remote.hist \subseteq branch.hist
    /\ remote' = branch
    /\ Goto("idle")
    /\ UNCHANGED <<adopted, net, work, edit, branch, fetched, over, placeVars, crashes>>

\* A command of the loop fails: clear, and try again or give up.
TryAgain(again) ==
    /\ tries' = (IF tries < Retries THEN tries + 1 ELSE 0) /\ saved' = saved
    /\ pc' = "clear" /\ then' = (IF tries < Retries THEN again ELSE "idle")

SyncFails ==
    /\ \/ pc = "fetch" /\ ~net
       \/ pc = "push" /\ (~net \/ ~(remote.hist \subseteq branch.hist))
    /\ TryAgain("pull")
    /\ UNCHANGED <<adopted, net, work, edit, gitVars, placeVars, crashes>>
-----------------------------------------------------------------------------
(* adoptedPush.                                                                *)

\* After its clearRebase: blocked by an operation that is not the kernel's.
Ask ==
    /\ pc = "ask"
    /\ Goto(IF op # "none" THEN "idle" ELSE "theirTip")
    /\ UNCHANGED <<adopted, net, work, edit, gitVars, placeVars, crashes>>

\* ls-remote, fetch, and what stands in the way of a replay: uncommitted edits
\* block it; otherwise the mark goes down first.
TheirTip ==
    /\ pc = "theirTip" /\ net
    /\ fetched' = remote
    /\ \/ ~Behind(remote) /\ Goto("sendOurs") /\ mark' = mark
       \/ Behind(remote) /\ (edit \/ work # {}) /\ Goto("idle") /\ mark' = mark
       \/ Behind(remote) /\ ~edit /\ work = {} /\ Goto("replay") /\ mark' = TRUE
    /\ UNCHANGED <<adopted, net, work, edit, branch, remote, over, op, strays, crashes>>

\* A throw inside adoptedPush's loop: straight to the next attempt.
NextAttempt ==
    /\ tries' = (IF tries < Retries THEN tries + 1 ELSE 0)
    /\ pc' = (IF tries < Retries THEN "theirTip" ELSE "idle") /\ UNCHANGED <<then, saved>>

\* Mutant of ReplayOurs: with the pebble's -X theirs, so that a clash of lines is
\* resolved for the box.
ReplayOverriding ==
    /\ pc = "replay" /\ mark' = FALSE
    /\ IF op = "none" /\ ~edit /\ work = {} /\ Clash(fetched, Path) = {}
       THEN PullIn(fetched) /\ Goto("sendOurs") /\ UNCHANGED <<op, strays, work, edit>>
       ELSE Goto("idle") /\ UNCHANGED <<branch, over, op, strays, work, edit>>
    /\ UNCHANGED <<adopted, net, remote, fetched, crashes>>

\* git rebase FETCH_HEAD.  Any clash stops it: abort, report, mark removed.  A
\* person's operation begun meanwhile makes it fail too; the look at the
\* repository then takes that one for a conflict of its own, and aborts it.
\* Uncommitted edits made meanwhile make it fail with nothing to abort.
ReplayOurs ==
    /\ pc = "replay" /\ mark' = FALSE
    /\ \/ /\ op = "none" /\ ~edit /\ work = {} /\ Clash(fetched, Hunk \cup Path) = {}
          /\ PullIn(fetched) /\ Goto("sendOurs") /\ UNCHANGED <<op, strays, work, edit>>
       \/ /\ op = "none" /\ ~edit /\ work = {} /\ Clash(fetched, Hunk \cup Path) # {}
          /\ Goto("idle") /\ UNCHANGED <<branch, over, op, strays, work, edit>>
       \/ /\ op = "none" /\ (edit \/ work # {})
          /\ NextAttempt /\ UNCHANGED <<branch, over, op, strays, work, edit>>
       \/ /\ op # "none" /\ Abort /\ Goto("idle") /\ UNCHANGED <<branch, over>>
    /\ UNCHANGED <<adopted, net, remote, fetched, crashes>>

\* A failed fetch or push, or a remote that moved.
AdoptedFails ==
    /\ \/ pc = "theirTip" /\ ~net
       \/ pc = "sendOurs" /\ (~net \/ ~(remote.hist \subseteq branch.hist))
    /\ NextAttempt
    /\ UNCHANGED <<adopted, net, work, edit, gitVars, placeVars, crashes>>
-----------------------------------------------------------------------------
(* Everybody else.                                                             *)

\* A job, a script or a session edits a tracked file.
Edit(o) ==
    /\ o \notin work \cup Committed
    /\ work' = work \cup {o}
    /\ UNCHANGED <<adopted, net, runVars, edit, gitVars, placeVars, crashes>>

\* Somebody commits where HEAD is while a dead kernel's rebase is in the way.
StrayCommit(o) ==
    /\ op = "kernel" /\ pc = "idle" /\ o \in work
    /\ work' = work \ {o} /\ strays' = Append(strays, o)
    /\ UNCHANGED <<adopted, net, runVars, edit, gitVars, op, mark, crashes>>

OutsidePush(t) ==
    /\ t \notin remote.hist
    /\ remote' = [hist |-> remote.hist \cup {t}, tree |-> remote.tree \cup {t}]
    /\ UNCHANGED <<adopted, net, runVars, work, edit, branch, fetched, over, placeVars, crashes>>

NetChanges ==
    /\ net' = ~net
    /\ UNCHANGED <<adopted, runVars, work, edit, gitVars, placeVars, crashes>>

\* The person of an adopted brain edits, and stops or starts a rebase of theirs.
PersonEdits ==
    /\ adopted /\ edit' = ~edit
    /\ UNCHANGED <<adopted, net, runVars, work, gitVars, placeVars, crashes>>

PersonStarts ==
    /\ adopted /\ op = "none" /\ op' = "person"
    /\ UNCHANGED <<adopted, net, runVars, work, edit, gitVars, strays, mark, crashes>>

\* Their rebase ends with the remote's commits merged by hand.
PersonEnds ==
    /\ op = "person" /\ op' = "none"
    /\ branch' = [hist |-> branch.hist \cup Range(strays) \cup remote.hist,
                  tree |-> branch.tree \cup Range(strays) \cup remote.tree]
    /\ over' = [o \in Ours |-> IF o \in branch'.hist THEN remote.hist \cap Theirs ELSE over[o]]
    /\ strays' = <<>>
    /\ UNCHANGED <<adopted, net, runVars, work, edit, remote, fetched, mark, crashes>>

\* Or they give it up, with whatever a drain has committed onto it meanwhile.
PersonAborts ==
    /\ op = "person" /\ Abort
    /\ UNCHANGED <<adopted, net, runVars, gitVars, mark, crashes>>

\* The kernel dies with its git child: in a replay the rebase state stays.
Crash ==
    /\ pc # "idle" /\ crashes < MaxCrashes
    /\ crashes' = crashes + 1
    /\ pc' = "idle" /\ then' = "job" /\ tries' = 0
    /\ \/ op' = op
       \/ pc \in {"pull", "replay"} /\ op = "none" /\ work = {} /\ ~edit /\ op' = "kernel"
    /\ saved' = <<>>
    /\ UNCHANGED <<adopted, net, work, edit, gitVars, strays, mark>>

Kernel ==
    \/ Begin \/ JobsEnd \/ Clear \/ Rescue \/ Commit \/ CommitCheck
    \/ Pull \/ PullFails \/ Fetch \/ MergeOurs \/ Push \/ SyncFails
    \/ Ask \/ TheirTip \/ ReplayOurs \/ AdoptedFails

Others ==
    \/ \E o \in Ours : Edit(o) \/ StrayCommit(o)
    \/ \E t \in Theirs : OutsidePush(t)
    \/ NetChanges \/ PersonEdits \/ PersonStarts \/ PersonEnds \/ PersonAborts
    \/ Crash

Next == Kernel \/ Others

Spec == Init /\ [][Next]_vars

\* The kernel goes on and drains again (jobs keep coming).  Nobody else has to do
\* anything; how often outsiders push is bounded by Theirs.
FairSpec == Spec /\ WF_vars(Kernel)
-----------------------------------------------------------------------------
(* Properties.                                                                 *)

\* Every variable has its type.
TypeOK ==
    /\ adopted \in BOOLEAN /\ net \in BOOLEAN /\ edit \in BOOLEAN /\ mark \in BOOLEAN
    /\ pc \in {"idle", "clear", "rescue", "job", "commit", "add", "pull", "fetch", "merge",
               "push", "ask", "theirTip", "replay", "sendOurs"}
    /\ then \in {"job", "commit", "pull", "fetch", "ask", "idle"}
    /\ tries \in 0..Retries /\ crashes \in 0..MaxCrashes
    /\ work \in SUBSET Ours
    /\ branch \in Ref /\ remote \in Ref /\ fetched \in Ref
    /\ over \in [Ours -> SUBSET Theirs]
    /\ op \in {"none", "kernel", "person"} /\ strays \in Seq(Ours) /\ saved \in Seq(Ours)

\* git.mjs, clearRebase: a crash and the abort that cleans up after it do "NOT
\* destroy work": what was committed, also onto the detached HEAD, stays, unless a
\* second commit landed on the same one, the cherry-pick is hindered (a file
\* removed over there, a tracked file edited or an operation begun since the abort),
\* the kernel dies between the two, or the person aborts a rebase of theirs onto
\* which a drain's commit had come.
CommitsKept ==
    [][\/ pc = "rescue" /\ (Len(saved) > 1 \/ ~Unhindered \/ Crash)
       \/ PersonAborts
       \/ Committed \subseteq Committed']_vars

\* "nothing the remote holds is ever overridden" (git.mjs:194, adoptedPush): whatever
\* the remote shows it goes on showing, through replays, races and crashes, on an
\* adopted brain.
NothingOverridden == [][adopted => remote.tree \subseteq remote'.tree]_vars

\* On a pebble the box is the writer of record: what the branch shows of its own
\* changes it goes on showing, whatever is pulled in.
BoxWins == [][~adopted => branch.tree \cap Ours \subseteq branch'.tree]_vars

\* Whichever side is of record loses nothing to the other.
RecordKept == NothingOverridden /\ BoxWins

\* A rebase of the person's ends by their own hand or under the kernel's mark.
PersonsOpKept ==
    [][op = "person" =>
         (op' = "person" \/ PersonEnds \/ PersonAborts \/ (mark /\ ~mark'))]_vars

\* "converges, instead of wedging every future cycle": on a pebble with its network
\* back every commit of the branch reaches the remote.
Converges ==
    ~adopted /\ <>[]net => \A o \in Ours : o \in branch.hist ~> o \in remote.hist
=============================================================================
