----------------------------- MODULE TeamProposals -----------------------------
(***************************************************************************)
(* Proposals to change a rule page of the company brain: team-proposals,   *)
(* and the hourly merge of team-hub, in engine/team.                       *)
(*                                                                         *)
(* The agent's clone is a working tree, an index and a commit; each holds  *)
(* the page and, per proposal, the areas its file lies in.  Three kinds of *)
(* process write it: the hub's merge, the owner's decision and a proposal  *)
(* made on the agent itself.  Each runs under withBrainLock (TeamLock);    *)
(* here the lock is the process inside it.  A run that throws half-way     *)
(* gives the lock back and leaves what it wrote.                           *)
(*                                                                         *)
(* One page is enough: a decision never touches another proposal's page    *)
(* unless they are about the same one.  A page's content is the proposal   *)
(* it comes from, Original, Edited (by somebody with access to the         *)
(* repository, pulled in), or Mixed: what git makes of such an edit and a  *)
(* change made here, conflict markers and all.                             *)
(***************************************************************************)
EXTENDS Naturals, Sequences

CONSTANTS
    Prop,        \* proposals; each stands for the content it proposes too
    Staff,       \* those made on a person's box, in their own repository
    Proc,        \* processes on the agent's box that write the brain
    NoProc,      \* nobody is inside the lock
    Original,    \* the page as it is at first
    Edited,      \* the page as edited outside
    Mixed,       \* ... and here, before anybody has looked at it
    NoBase,      \* not proposed yet
    MaxFaults,   \* bound: runs that throw half-way
    MaxEdits,    \* bound: outside edits
    MaxLocal     \* bound: commits that wait for a push

ASSUME StaffAssumption == Staff \subseteq Prop /\ Prop # {}
ASSUME ProcAssumption == NoProc \notin Proc
ASSUME PageAssumption ==
    /\ {Original, Edited, Mixed} \cap Prop = {}
    /\ Original # Edited /\ Mixed \notin {Original, Edited}
    /\ NoBase \notin Prop \cup {Original, Edited, Mixed}
ASSUME BoundsAssumption == MaxFaults \in Nat /\ MaxEdits \in Nat /\ MaxLocal \in Nat

VARIABLES
    wt,          \* the working tree: the page, and the areas of each proposal
    index,       \* what git add has staged
    head,        \* the last commit
    unmerged,    \* the page in the index is a conflict nobody has resolved
    detached,    \* a pull stopped half-way: HEAD is off the branch for good
    chain,       \* the branch from the remote's tip, as last known, to its own
    shared,      \* the page of that tip, which the people's clones have
    base,        \* per proposal: the page it was written against
    published,   \* staff proposals pushed to their person's repository
    members,     \* those in the members/ tree of the agent's clone
    lock,        \* the process inside withBrainLock
    pc,          \* per process: the next step of its run
    task,        \* per process: the proposal and the verdict it is about
    faults,      \* runs that have thrown
    torn,        \* one of them with work it had not committed
    edits        \* outside edits so far

cloneVars == <<unmerged, detached, chain, shared>>
othersVars == <<base, published, members>>
faultVars == <<faults, torn>>
vars == <<wt, index, head, cloneVars, othersVars, lock, pc, task, faultVars, edits>>

Areas == {"pending", "approved", "rejected"}
Pages == Prop \cup {Original, Edited, Mixed}
Places == [Prop -> SUBSET Areas]
Trees == [page: Pages, at: Places]
\* A commit: where its proposals lie, and whether it changes the page.
Commits == [at: Places, rule: BOOLEAN]

Verdicts == {"approve", "reject"}
AreaOf(verdict) == IF verdict = "approve" THEN "approved" ELSE "rejected"

\* What a process that has no task of its own is taken to be about.
NoTask == <<CHOOSE q \in Prop : TRUE, "reject">>

Stages == {"off", "look", "write", "file", "unlink", "add", "commit",
           "stage", "queueAdd", "import", "queueAll", "addAll"}

Init ==
    /\ wt = [page |-> Original, at |-> [q \in Prop |-> {}]]
    /\ index = wt
    /\ head = wt
    /\ unmerged = FALSE /\ detached = FALSE
    /\ chain = <<[at |-> head.at, rule |-> FALSE]>> /\ shared = Original
    /\ base = [q \in Prop |-> NoBase]
    /\ published = {}
    /\ members = {}
    /\ lock = NoProc
    /\ pc = [p \in Proc |-> "off"]
    /\ task = [p \in Proc |-> NoTask]
    /\ faults = 0 /\ torn = FALSE
    /\ edits = 0

Goto(p, s) == pc' = [pc EXCEPT ![p] = s]

\* `known': the proposal's file lies in one of the three areas.
Known(tree, q) == tree.at[q] # {}

\* Mutant of TakeLock: somebody inside is no obstacle.
EnterAnyway(p) == lock' = p

\* withBrainLock around a run: nobody else is inside (TeamLock).
TakeLock(p) ==
    /\ lock = NoProc
    /\ lock' = p

\* The run of p is over and the lock is given back.
Finish(p) ==
    /\ Goto(p, "off")
    /\ lock' = NoProc
    /\ task' = [task EXCEPT ![p] = NoTask]

\* The index a stash leaves: new files are staged again, the rest is not.
Unstashed(commit) ==
    [page |-> commit.page, at |-> [q \in Prop |-> commit.at[q] \cup index.at[q]]]

\* An outside edit that goes with the commits waiting here ...
PullsEdit ==
    /\ head' = [head EXCEPT !.page = Edited]
    /\ index' = Unstashed(head')
    /\ shared' = Edited
    /\ edits' = edits + 1
    /\ UNCHANGED <<chain, detached, torn>>

\* ... or conflicts with the one of them that changes the page: the rebase stops
\* there.  The commits behind it, and the stash, are not in this tree.
Stop(i) ==
    /\ head' = [page |-> Edited, at |-> chain[i - 1].at]
    /\ index' = [page |-> Edited, at |-> chain[i].at]
    /\ wt' = [page |-> Mixed,
              at |-> [q \in Prop |-> chain[i].at[q] \cup (wt.at[q] \ index.at[q])]]
    /\ unmerged' = TRUE /\ detached' = TRUE /\ torn' = TRUE
    /\ shared' = Edited
    /\ edits' = edits + 1
    /\ UNCHANGED chain

\* git pull --rebase --autostash, at the start of a run, its errors ignored.  It is
\* refused over an unresolved conflict, and off a branch.
Pull ==
    \/ UNCHANGED <<wt, index, head, cloneVars, torn, edits>>
    \/ /\ ~unmerged /\ ~detached
       /\ index' = Unstashed(head)
       /\ UNCHANGED <<wt, head, cloneVars, torn, edits>>
    \/ /\ ~unmerged /\ ~detached /\ edits < MaxEdits
       /\ \/ /\ wt.page = head.page
             /\ PullsEdit /\ wt' = [wt EXCEPT !.page = Edited]
             /\ UNCHANGED unmerged
          \/ /\ wt.page # head.page
             /\ PullsEdit /\ wt' = [wt EXCEPT !.page = Mixed]
             /\ unmerged' \in BOOLEAN
          \/ \E i \in 2..Len(chain) : chain[i].rule /\ Stop(i)

-----------------------------------------------------------------------------
(* Proposing.                                                              *)

\* propose on a person's box: written against their clone, pushed to their repo.
Publish(q) ==
    /\ q \in Staff /\ base[q] = NoBase
    /\ base' = [base EXCEPT ![q] = shared]
    /\ published' = published \cup {q}
    /\ UNCHANGED <<wt, index, head, cloneVars, members, lock, pc, task, faultVars, edits>>

\* propose on the agent's box reads the page before it takes the lock ...
ProposeHere(q) ==
    /\ q \notin Staff /\ base[q] = NoBase
    /\ base' = [base EXCEPT ![q] = wt.page]
    /\ UNCHANGED <<wt, index, head, cloneVars, published, members, lock, pc, task, faultVars,
                   edits>>

\* ... and queue takes it; a proposal from Slack comes without a base.
QueueBegin(p, q) ==
    /\ pc[p] = "off" /\ q \notin Staff
    /\ TakeLock(p)
    /\ task' = [task EXCEPT ![p] = <<q, "reject">>]
    /\ Goto(p, "stage")
    /\ UNCHANGED <<wt, index, head, cloneVars, othersVars, faultVars, edits>>

\* queueLocked: stage, unless it is known.
QueueStage(p) ==
    LET q == task[p][1] IN
    /\ pc[p] = "stage"
    /\ base' = IF base[q] = NoBase THEN [base EXCEPT ![q] = wt.page] ELSE base
    /\ IF Known(wt, q)
       THEN Finish(p) /\ UNCHANGED wt
       ELSE /\ wt' = [wt EXCEPT !.at[q] = {"pending"}]
            /\ Goto(p, "queueAdd")
            /\ UNCHANGED <<lock, task>>
    /\ UNCHANGED <<index, head, cloneVars, published, members, faultVars, edits>>

\* git add proposals.
QueueAdd(p) ==
    /\ pc[p] = "queueAdd"
    /\ index' = [index EXCEPT !.at = wt.at]
    /\ Goto(p, "commit")
    /\ UNCHANGED <<wt, head, cloneVars, othersVars, lock, task, faultVars, edits>>

-----------------------------------------------------------------------------
(* The hub's merge.                                                        *)

HubBegin(p) ==
    /\ pc[p] = "off"
    /\ TakeLock(p)
    /\ Pull
    /\ Goto(p, "import")
    /\ UNCHANGED <<othersVars, task, faults>>

\* importMembers: every person's published files replace the clone's copy of them.
HubImport(p) ==
    /\ pc[p] = "import"
    /\ members' = published
    /\ Goto(p, "queueAll")
    /\ UNCHANGED <<wt, index, head, cloneVars, base, published, lock, task, faultVars,
                   edits>>

\* A person whose files are refused, cannot be pulled or are half copied when an
\* error stops their import: the run goes on with what is there.
HubImportPartly(p) ==
    /\ pc[p] = "import"
    /\ faults < MaxFaults
    /\ members' \in SUBSET published
    /\ faults' = faults + 1
    /\ Goto(p, "queueAll")
    /\ UNCHANGED <<wt, index, head, cloneVars, base, published, lock, task, torn, edits>>

\* queueImported: every imported proposal that is not known joins the queue.
HubQueue(p) ==
    /\ pc[p] = "queueAll"
    /\ wt' = [wt EXCEPT !.at = [q \in Prop |->
                 IF q \in members /\ ~Known(wt, q) THEN {"pending"} ELSE @[q]]]
    /\ Goto(p, "addAll")
    /\ UNCHANGED <<index, head, cloneVars, othersVars, lock, task, faultVars, edits>>

\* Mutant of HubAddAll: the merge stages what it regenerates and no proposals.
HubAddPage(p) ==
    /\ pc[p] = "addAll"
    /\ index' = [index EXCEPT !.page = wt.page]
    /\ IF index' # head
       THEN Goto(p, "commit") /\ UNCHANGED <<lock, task>>
       ELSE Finish(p)
    /\ UNCHANGED <<wt, head, cloneVars, othersVars, faultVars, edits>>

\* git add -A, which takes a conflict for resolved; with nothing to commit the run is
\* over.
HubAddAll(p) ==
    /\ pc[p] = "addAll"
    /\ index' = wt /\ unmerged' = FALSE
    /\ IF wt # head
       THEN Goto(p, "commit") /\ UNCHANGED <<lock, task>>
       ELSE Finish(p)
    /\ UNCHANGED <<wt, head, detached, chain, shared, othersVars, faultVars, edits>>

-----------------------------------------------------------------------------
(* The owner's decision.                                                   *)

DecideBegin(p, q, verdict) ==
    /\ pc[p] = "off" /\ "pending" \in wt.at[q]
    /\ TakeLock(p)
    /\ Pull
    /\ task' = [task EXCEPT ![p] = <<q, verdict>>]
    /\ Goto(p, "look")
    /\ UNCHANGED <<othersVars, faults>>

\* Mutant of DecideLook: an older page is no reason to refuse.
DecideWithoutBase(p) ==
    LET q == task[p][1] IN
    /\ pc[p] = "look"
    /\ IF "pending" \in wt.at[q]
       THEN /\ Goto(p, IF task[p][2] = "approve" THEN "write" ELSE "file")
            /\ UNCHANGED <<lock, task>>
       ELSE Finish(p)
    /\ UNCHANGED <<wt, index, head, cloneVars, othersVars, faultVars, edits>>

\* Not pending, or an approval of a proposal written against another page: refused.
DecideLook(p) ==
    LET q == task[p][1]
        verdict == task[p][2] IN
    /\ pc[p] = "look"
    /\ IF "pending" \in wt.at[q] /\ (verdict = "approve" => wt.page = base[q])
       THEN /\ Goto(p, IF verdict = "approve" THEN "write" ELSE "file")
            /\ UNCHANGED <<lock, task>>
       ELSE Finish(p)
    /\ UNCHANGED <<wt, index, head, cloneVars, othersVars, faultVars, edits>>

\* An approval writes the page first ...
DecideWrite(p) ==
    /\ pc[p] = "write"
    /\ wt' = [wt EXCEPT !.page = task[p][1]]
    /\ Goto(p, "file")
    /\ UNCHANGED <<index, head, cloneVars, othersVars, lock, task, faultVars, edits>>

\* ... then the decision is kept in its area, and the pending file goes.
DecideFile(p) ==
    /\ pc[p] = "file"
    /\ wt' = [wt EXCEPT !.at[task[p][1]] = @ \cup {AreaOf(task[p][2])}]
    /\ Goto(p, "unlink")
    /\ UNCHANGED <<index, head, cloneVars, othersVars, lock, task, faultVars, edits>>

DecideUnlink(p) ==
    /\ pc[p] = "unlink"
    /\ wt' = [wt EXCEPT !.at[task[p][1]] = @ \ {"pending"}]
    /\ Goto(p, "add")
    /\ UNCHANGED <<index, head, cloneVars, othersVars, lock, task, faultVars, edits>>

\* git add -A proposals, and the page for an approval, conflict or not.
DecideAdd(p) ==
    LET approval == task[p][2] = "approve" IN
    /\ pc[p] = "add"
    /\ index' = [index EXCEPT !.at = wt.at, !.page = IF approval THEN wt.page ELSE @]
    /\ unmerged' = (unmerged /\ ~approval)
    /\ Goto(p, "commit")
    /\ UNCHANGED <<wt, head, detached, chain, shared, othersVars, lock, task, faultVars,
                   edits>>

-----------------------------------------------------------------------------
(* git commit, of whatever is staged, git push, and the end of the run.    *)

Pushed ==
    /\ ~detached
    /\ chain' = <<[at |-> index.at, rule |-> FALSE]>> /\ shared' = index.page

\* The push's error is ignored; off a branch it is always one.
NotPushed ==
    /\ IF detached
       THEN UNCHANGED chain
       ELSE /\ Len(chain) <= MaxLocal
            /\ chain' = Append(chain, [at |-> index.at, rule |-> index.page # head.page])
    /\ UNCHANGED shared

Commit(p) ==
    /\ pc[p] = "commit" /\ ~unmerged /\ index # head
    /\ head' = index
    /\ Pushed \/ NotPushed
    /\ Finish(p)
    /\ UNCHANGED <<wt, index, unmerged, detached, othersVars, faultVars, edits>>

\* Over an unresolved conflict, or with nothing staged, git commit fails and the run
\* throws.
CommitRefused(p) ==
    /\ pc[p] = "commit"
    /\ unmerged \/ index = head
    /\ Finish(p)
    /\ UNCHANGED <<wt, index, head, cloneVars, othersVars, faultVars, edits>>

\* A step throws (a full disk, git's index.lock or its time limit), or the process
\* dies and its lock is cleared away.
Fail(p) ==
    /\ pc[p] # "off"
    /\ faults < MaxFaults
    /\ Finish(p)
    /\ faults' = faults + 1
    /\ torn' = (torn \/ wt # head \/ index # head)
    /\ UNCHANGED <<wt, index, head, cloneVars, othersVars, edits>>

\* A question in Slack is answered from a fresh copy: a pull, and nothing else.
Answer ==
    /\ lock = NoProc
    /\ Pull
    /\ UNCHANGED <<othersVars, lock, pc, task, faults>>

Hub(p) == HubBegin(p) \/ HubImport(p) \/ HubQueue(p) \/ HubAddAll(p)
Queue(p) == QueueStage(p) \/ QueueAdd(p)
Decide(p) ==
    \/ DecideLook(p) \/ DecideWrite(p) \/ DecideFile(p) \/ DecideUnlink(p)
    \/ DecideAdd(p)
Ends(p) == Commit(p) \/ CommitRefused(p)

Next ==
    \/ \E q \in Prop : Publish(q) \/ ProposeHere(q)
    \/ Answer
    \/ \E p \in Proc :
          \/ Hub(p) \/ HubImportPartly(p) \/ Queue(p) \/ Decide(p) \/ Ends(p)
          \/ Fail(p)
          \/ \E q \in Prop : QueueBegin(p, q)
          \/ \E q \in Prop, verdict \in Verdicts : DecideBegin(p, q, verdict)

Spec == Init /\ [][Next]_vars

\* The cron starts the merge every hour and a run that has begun goes on: its git
\* calls have a time limit.  Nobody has to propose or to decide.
FairSpec ==
    /\ Spec
    /\ SF_vars(\E p \in Proc : HubBegin(p))
    /\ \A p \in Proc :
          WF_vars((Hub(p) /\ pc[p] # "off") \/ Queue(p) \/ Decide(p) \/ Ends(p))

-----------------------------------------------------------------------------
(* Properties.                                                             *)

\* Every variable has its type.
TypeOK ==
    /\ wt \in Trees /\ index \in Trees /\ head \in Trees
    /\ unmerged \in BOOLEAN /\ detached \in BOOLEAN
    /\ chain \in Seq(Commits) /\ chain # <<>> /\ shared \in Pages
    /\ base \in [Prop -> Pages \cup {NoBase}]
    /\ published \subseteq Staff /\ members \subseteq published
    /\ lock \in Proc \cup {NoProc}
    /\ pc \in [Proc -> Stages]
    /\ task \in [Proc -> Prop \X Verdicts]
    /\ faults \in Nat /\ torn \in BOOLEAN /\ edits \in Nat

\* An approval never undoes a change of the page its author had not seen: what it
\* overwrites is what the proposal was written against, although the check and the
\* write are apart and other runs wait at the lock, and whatever failed before.
NoLostUpdate ==
    [][\A q \in Prop : wt'.page = q /\ wt.page # q => wt.page = base[q]]_vars

\* A pull stops half-way, over a commit that waits for its push.
Stops == ~detached /\ detached'

\* A decided proposal is never queued again, however often the merge imports its
\* file from its person's repository, also after decisions that failed half-way.  A
\* pull that stops takes back at most decisions that were never pushed.
Settled(places, q) == places[q] # {} /\ "pending" \notin places[q]
NeverQueuedAgain ==
    [][\A q \in Prop :
          Settled(wt.at, q) /\ (Stops => Settled(chain[1].at, q))
             => "pending" \notin wt'.at[q]]_vars

\* A proposal once queued or decided is never dropped, in the working tree or in a
\* commit: a run that fails half-way leaves it twice rather than nowhere.  A pull that
\* stops drops at most what was never pushed.
NeverDropped ==
    [][\A q \in Prop :
          (Stops => chain[1].at[q] # {}) =>
             /\ Known(wt, q) => Known(wt, q)'
             /\ Known(head, q) => Known(head, q)']_vars

\* Both: a proposal only moves forward, from its queue to its verdict.
OnlyForward == NeverQueuedAgain /\ NeverDropped

\* No decision undoes another's change of the page, or is itself undone but by a pull
\* that stops before it was pushed.
DecisionsStand == NoLostUpdate /\ OnlyForward

\* What a person has pushed joins the owner's queue, in a commit, in the end.
PublishedIsQueued == \A q \in Staff : q \in published ~> Known(head, q)

\* What the agent's last commit says of a proposal.
Status(q) ==
    CASE "approved" \in head.at[q] -> "approved"
      [] "rejected" \in head.at[q] -> "rejected"
      [] head.at[q] = {"pending"} -> "pending"
      [] head.at[q] = {} -> "none"
Rules == INSTANCE TeamRules WITH
    page <- head.page, status <- [q \in Prop |-> Status(q)], basis <- base

\* The commits are a TeamRules, whatever pushes and imports fail and runs throw, until
\* one throws with work it has not committed or a pull stops half-way: the page
\* changes with an approval in the same commit, and a proposal gets one verdict.
ImplementsTeamRules ==
    Rules!Init /\ [][~torn' => Rules!Next]_(Rules!vars)
=============================================================================
