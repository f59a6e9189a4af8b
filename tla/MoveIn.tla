--------------------------------- MODULE MoveIn ---------------------------------
(* The move-in of a server (engine/move-in/apply.mjs, wizard/panel/move-in-host.mjs). *)
(* Each thing the server does, a job or the Telegram bot, has two steps: the first    *)
(* brings it into the mineral switched off, the second hands it over.  The plan and   *)
(* the mineral's half are in the container, the crontab and the services on the       *)
(* server, and only the app reaches both: host-begin, one operation on the server,    *)
(* host-end.  A handler of the container runs under withLock and is one step here.    *)
EXTENDS Naturals, Sequences, FiniteSets, SequencesExt

CONSTANTS
    Thing,       \* what the server does: jobs and bots
    Kinds,       \* what each may be: a job, a bot's unit, a bot's line
    Own,         \* a row of the schedule file that is the person's
    App,         \* windows of the app
    MaxFaults    \* deaths, lost answers, servers not reached and edits by hand

Step == {"add", "cut"} \X Thing
Add(x) == <<"add", x>>
Cut(x) == <<"cut", x>>

ASSUME ThingAssumption == Own \notin Thing
ASSUME KindAssumption == Kinds \subseteq {"job", "bot unit", "bot line"}
ASSUME FaultAssumption == MaxFaults \in Nat

VARIABLES
    kind,        \* what the inventory found each thing to be
    step,        \* the plan: the state of each step,
    flight,      \*   the way a host step is going (in_flight),
    prior,       \*   what a service did before it was switched off (result.prior),
    order,       \*   the done steps in the order they were done (done_seq)
    mine,        \* the mineral's files: what each thing is set to
    undo,        \* undo/<step>.json: the file before and after the step
    server,      \* what the server does of each thing
    moving,      \* ownership.json: moving in, moving out, or neither
    app,         \* what each window is doing
    out,         \* Move out, per window: what is left to reverse
    faults,
    disturbed    \* history: things whose handing over was disturbed (see Undisturbed)

plan == <<step, flight, prior, order>>
vars == <<kind, plan, mine, undo, server, moving, app, out, faults, disturbed>>

\* A job is a line of the crontab, and the mineral's copy is switched on first; a bot is
\* a systemd unit or a line, and the server's program is switched off first.
Job == {x \in Thing : kind[x] = "job"}
Bot == Thing \ Job
Unit == {x \in Thing : kind[x] = "bot unit"}

Idle == [pc |-> "idle"]
NoSnap == [before |-> <<>>, after |-> <<>>]
NotOut == [on |-> FALSE, list |-> <<>>, clean |-> TRUE]

Init ==
    /\ kind \in [Thing -> Kinds]
    /\ step = [s \in Step |-> "pending"] /\ flight = [x \in Thing |-> "no"]
    /\ prior = [x \in Thing |-> "none"] /\ order = <<>>
    /\ mine = [x \in Thing \cup {Own} |-> IF x = Own THEN "off" ELSE "absent"]
    /\ undo = [s \in Step |-> NoSnap]
    /\ server = [x \in Thing |-> "on"] /\ moving = "in"
    /\ app = [a \in App |-> Idle] /\ out = [a \in App |-> NotOut]
    /\ faults = 0 /\ disturbed = {}

Fault == faults < MaxFaults /\ faults' = faults + 1
Disturb(S) == disturbed' = disturbed \cup S
-----------------------------------------------------------------------------
(* The mineral's files and their exact undo.                                   *)

\* The jobs' entries and the person's are in one file, a bot has files of its own.
FileOf(x) == IF x \in Job THEN Job \cup {Own} ELSE {x}
Bytes(m, x) == [y \in FileOf(x) |-> m[y]]
Set(x, v) == [mine EXCEPT ![x] = v]
Snap(m, x) == [before |-> Bytes(mine, x), after |-> Bytes(m, x)]

\* Mutant of Restored: the prior bytes, whatever the file says now.
RestoredAnyway(s, x, fallback) ==
    IF undo[s] = NoSnap THEN mine
    ELSE [y \in DOMAIN mine |-> IF y \in FileOf(x) THEN undo[s].before[y] ELSE mine[y]]

\* The prior bytes while the file is as the step wrote it; else only what the step
\* put in is taken out.
Restored(s, x, fallback) ==
    IF undo[s] = NoSnap THEN mine
    ELSE IF Bytes(mine, x) # undo[s].after THEN Set(x, fallback)
    ELSE [y \in DOMAIN mine |-> IF y \in FileOf(x) THEN undo[s].before[y] ELSE mine[y]]

HalfDone(x) == Set(x, IF mine[x] = "absent" THEN "absent" ELSE "on")
HalfUndone(x) == Restored(Cut(x), x, IF mine[x] = "absent" THEN "absent" ELSE "off")

MarkDone(s) == step' = [step EXCEPT ![s] = "done"] /\ order' = Append(order, s)
MarkUndone(s) ==
    /\ step' = [step EXCEPT ![s] = "undone"]
    /\ order' = RemoveAt(order, CHOOSE i \in DOMAIN order : order[i] = s)
-----------------------------------------------------------------------------
(* The commands that change the container alone.                               *)

Move(s, from, to) ==
    /\ step[s] \in from /\ step' = [step EXCEPT ![s] = to]
    /\ UNCHANGED <<flight, prior, order, mine, undo, server, moving, kind, app, out, faults, disturbed>>

Approve(s) == Move(s, {"pending", "undone"}, "approved")
Unskip(s) == Move(s, {"skipped"}, "pending")

\* A step that a later one waits for is not skipped.
Skip(s) ==
    /\ \A x \in Thing : s = Add(x) => step[Cut(x)] \notin {"done", "approved"}
    /\ Move(s, {"pending", "approved", "undone"}, "skipped")

\* A process that dies after it wrote its files, and before it saved the plan.
DiesBeforePlan(x) == Fault /\ Disturb({x}) /\ UNCHANGED plan
Applying == out' = [a \in App |-> [out[a] EXCEPT !.clean = ~out[a].on]]

\* apply: the job's row is added switched off, the bot's token with the marker that
\* leaves answering to the server.
ApplyAdd(x) ==
    /\ step[Add(x)] = "approved" /\ (x \in Job => mine[x] = "absent")
    /\ mine' = Set(x, "off") /\ undo' = [undo EXCEPT ![Add(x)] = Snap(mine', x)]
    /\ \/ MarkDone(Add(x)) /\ UNCHANGED <<flight, prior, faults, disturbed>>
       \/ DiesBeforePlan(x)
    /\ Applying /\ UNCHANGED <<server, moving, kind, app>>

\* undo: all or nothing; a bot's file that has changed is left alone.
CanUndoAdd(x) ==
    /\ step[Add(x)] = "done" /\ step[Cut(x)] # "done"
    /\ x \in Job \/ undo[Add(x)] = NoSnap \/ Bytes(mine, x) = undo[Add(x)].after

UndoAdd(x) ==
    /\ CanUndoAdd(x)
    /\ mine' = Restored(Add(x), x, "absent") /\ undo' = [undo EXCEPT ![Add(x)] = NoSnap]
    /\ \/ /\ MarkUndone(Add(x)) /\ UNCHANGED <<flight, prior, faults>>
          /\ Disturb(IF flight[x] # "no" THEN {x} ELSE {})
       \/ DiesBeforePlan(x)
    /\ UNCHANGED <<server, moving, kind>>

PersonUndoes(x) == UndoAdd(x) /\ UNCHANGED <<app, out>>

\* planNow: the plan is made again from the inventory and the prior plan's decisions;
\* in_flight is not among what a step keeps.
Replan ==
    /\ \E x \in Thing : flight[x] # "no"
    /\ flight' = [x \in Thing |-> "no"] /\ Disturb({x \in Thing : flight[x] # "no"})
    /\ UNCHANGED <<step, prior, order, mine, undo, server, moving, kind, app, out, faults>>

\* finish: a bot's handing over comes after it.
Finish ==
    /\ \A x \in Thing : flight[x] = "no"
    /\ \A s \in Step : s \in {Cut(x) : x \in Bot} \/ step[s] \in {"done", "skipped"}
    /\ moving' = "no"
    /\ UNCHANGED <<kind, plan, mine, undo, server, app, out, faults, disturbed>>
-----------------------------------------------------------------------------
(* A host step: host-begin, the operation, host-end.                           *)

\* Mutant of HalfFirst: the mineral's half always comes first.
HalfAlwaysFirst(x, way) == TRUE

\* "reverse order: what came after the server change is undone before it": a job's
\* half comes before the server when it is handed over, a bot's when it is undone.
HalfFirst(x, way) == (x \in Job) = (way = "apply")

\* What the half does to the files on the way there and on the way back.
HalfMoves(x, way) ==
    IF way = "apply"
    THEN mine' = HalfDone(x) /\ undo' = [undo EXCEPT ![Cut(x)] = Snap(mine', x)]
    ELSE mine' = HalfUndone(x) /\ UNCHANGED undo
Back(way) == IF way = "apply" THEN "undo" ELSE "apply"

Sending(x, op, close, p) ==
    [pc |-> "send", thing |-> x, op |-> op, close |-> close, prior |-> p, then |-> "asked"]

CanBegin(x, way) ==
    /\ flight[x] = "no"
    /\ way = "apply" => /\ step[Cut(x)] = "approved" /\ step[Add(x)] = "done"
                        /\ IF x \in Job THEN mine[x] # "absent" ELSE moving = "no"
    /\ way = "undo" => step[Cut(x)] = "done" /\ (x \in Unit => prior[x] # "none")

Begin(a, x, way) ==
    /\ app[a] = Idle /\ CanBegin(x, way)
    /\ IF HalfFirst(x, way) THEN HalfMoves(x, way) ELSE UNCHANGED <<mine, undo>>
    /\ \/ /\ flight' = [flight EXCEPT ![x] = way]
          /\ app' = [app EXCEPT ![a] = Sending(x, way, way, prior[x])]
          /\ UNCHANGED <<step, prior, order, faults, disturbed>>
       \/ HalfFirst(x, way) /\ DiesBeforePlan(x) /\ UNCHANGED app
    /\ UNCHANGED <<server, moving, kind>>

BeginApply(a, x) == ~out[a].on /\ Begin(a, x, "apply") /\ Applying
BeginUndo(a, x) == ~out[a].on /\ Begin(a, x, "undo") /\ UNCHANGED out

\* The server does it.  A crontab line has to be there in the form the operation
\* expects; a service is switched off as it is found, and on if it was on.
Refuses(q) == q.thing \notin Unit /\ server[q.thing] # (IF q.op = "apply" THEN "on" ELSE "off")
Serves(q) ==
    server' = [server EXCEPT ![q.thing] =
        IF q.op = "apply" THEN "off" ELSE IF q.thing \in Unit /\ q.prior # "on" THEN @ ELSE "on"]
Found(q) == IF q.op = "apply" /\ q.thing \in Unit THEN server[q.thing] ELSE "none"

\* What the app makes of the answer: it closes the step; a resolution that failed
\* leaves the step part-way.
Answered(q, ok, found) ==
    IF q.then = "asked" THEN [pc |-> "end", thing |-> q.thing, close |-> q.close, ok |-> ok, prior |-> found]
    ELSE IF ok THEN [pc |-> "end", thing |-> q.thing, close |-> q.close, ok |-> q.then = "finish", prior |-> found]
    ELSE Idle

Serve(a) ==
    LET q == app[a] IN
    /\ q.pc = "send"
    /\ IF Refuses(q) THEN UNCHANGED server ELSE Serves(q)
    /\ app' = [app EXCEPT ![a] = Answered(q, ~Refuses(q), Found(q))]
    /\ UNCHANGED <<plan, mine, undo, moving, kind, out, faults, disturbed>>

\* The connection goes before the operation, or after it: runHostOp cannot tell.
NoAnswer(a) ==
    LET q == app[a] IN
    /\ q.pc = "send" /\ Fault
    /\ app' = [app EXCEPT ![a] = Answered(q, FALSE, "none")]
    /\ \/ UNCHANGED <<server, disturbed>>
       \/ ~Refuses(q) /\ Serves(q) /\ Disturb(IF q.then = "asked" THEN {q.thing} ELSE {})
    /\ UNCHANGED <<plan, mine, undo, moving, kind, out>>

\* Mutant of OutNext: Move out goes on past a step that would not reverse.
OutPast(a, ok) == IF out[a].on THEN [out[a] EXCEPT !.list = Tail(@)] ELSE out[a]

\* Move out stops at the first step that will not reverse.
OutNext(a, ok) ==
    IF ~out[a].on THEN out[a] ELSE IF ok THEN [out[a] EXCEPT !.list = Tail(@)] ELSE NotOut

EndDone(x, way, ok, found) ==
    /\ flight' = [flight EXCEPT ![x] = "no"]
    /\ IF ~ok THEN UNCHANGED <<step, prior, order>>
       ELSE IF way = "apply" THEN MarkDone(Cut(x)) /\ prior' = [prior EXCEPT ![x] = found]
       ELSE MarkUndone(Cut(x)) /\ prior' = [prior EXCEPT ![x] = "none"]

\* host-end: the half that comes after, or the first one put back.
End(a) ==
    LET q == app[a]  x == q.thing  way == q.close
        moves == IF q.ok THEN ~HalfFirst(x, way) ELSE HalfFirst(x, way)
        half == IF q.ok THEN way ELSE Back(way)   \* how it is in the end
        file == IF ~moves THEN mine ELSE IF half = "apply" THEN HalfDone(x) ELSE HalfUndone(x)
    IN  /\ q.pc = "end" /\ flight[x] = way
        /\ mine' = file
        /\ undo' = [undo EXCEPT ![Cut(x)] =
              IF half = "undo" THEN NoSnap ELSE IF moves THEN Snap(file, x) ELSE @]
        /\ app' = [app EXCEPT ![a] = Idle]
        /\ \/ EndDone(x, way, q.ok, q.prior) /\ UNCHANGED <<faults, disturbed>>
              /\ out' = [out EXCEPT ![a] = OutNext(a, q.ok)]
           \/ moves /\ DiesBeforePlan(x) /\ out' = [out EXCEPT ![a] = OutNext(a, FALSE)]
        /\ UNCHANGED <<server, moving, kind>>

\* The plan no longer waits for this answer.
EndRefused(a) ==
    /\ app[a].pc = "end" /\ flight[app[a].thing] # app[a].close
    /\ app' = [app EXCEPT ![a] = Idle] /\ out' = [out EXCEPT ![a] = OutNext(a, FALSE)]
    /\ UNCHANGED <<plan, mine, undo, server, moving, kind, faults, disturbed>>
-----------------------------------------------------------------------------
(* A step the app stopped half way through.                                    *)

\* A fresh check.  It may find the step of a window that is still at it.
Check(a, x, choice) ==
    /\ app[a] = Idle /\ ~out[a].on /\ flight[x] # "no"
    /\ app' = [app EXCEPT ![a] = [pc |-> "resolve", thing |-> x, seen |-> server[x], choice |-> choice]]
    /\ Disturb(IF \E b \in App : app[b].pc # "idle" /\ app[b].thing = x THEN {x} ELSE {})
    /\ UNCHANGED <<plan, mine, undo, server, moving, kind, out, faults>>

\* Mutant of WantChanged: to finish means the change is on the server, either way.
WantChangedEitherWay(x, choice) == choice = "finish"

\* "finishing an apply or rolling back an undo both mean the step's change is on the
\* server".
WantChanged(x, choice) == (flight[x] = "apply") = (choice = "finish")

Already(q) == (q.seen = "off") = WantChanged(q.thing, q.choice)

\* host-resolve, and the end or the one operation it names.  What the server shows is
\* not clear where somebody took the line out.
Resolve(a) ==
    LET q == app[a]  x == q.thing
        known == IF x \notin Unit \/ prior[x] # "none" THEN prior[x] ELSE "on"
        finish == q.choice = "finish"
    IN  /\ q.pc = "resolve"
        /\ app' = [app EXCEPT ![a] =
              IF flight[x] = "no" \/ q.seen = "gone" THEN Idle
              ELSE IF Already(q)
              THEN [pc |-> "end", thing |-> x, close |-> flight[x], ok |-> finish, prior |-> known]
              ELSE [Sending(x, IF WantChanged(x, q.choice) THEN "apply" ELSE "undo", flight[x], known)
                       EXCEPT !.then = q.choice]]
        /\ UNCHANGED <<plan, mine, undo, server, moving, kind, out, faults, disturbed>>
-----------------------------------------------------------------------------
(* Move out.                                                                   *)

MoveOutBegin(a) ==
    /\ app[a] = Idle /\ ~out[a].on
    /\ moving' = "out"
    /\ out' = [out EXCEPT ![a] = [on |-> TRUE, list |-> Reverse(order), clean |-> TRUE]]
    /\ UNCHANGED <<kind, plan, mine, undo, server, app, faults, disturbed>>

\* The next step is begun or undone, or refused.
OutStep(a) ==
    /\ app[a] = Idle /\ out[a].on /\ out[a].list # <<>>
    /\ LET s == Head(out[a].list)  x == s[2] IN
       \/ s = Cut(x) /\ Begin(a, x, "undo") /\ UNCHANGED out
       \/ s = Add(x) /\ UndoAdd(x) /\ out' = [out EXCEPT ![a] = OutNext(a, step'[s] = "undone")] /\ UNCHANGED app
       \/ /\ IF s = Cut(x) THEN ~CanBegin(x, "undo") ELSE ~CanUndoAdd(x)
          /\ out' = [out EXCEPT ![a] = OutNext(a, FALSE)]
          /\ UNCHANGED <<plan, mine, undo, server, moving, kind, app, faults, disturbed>>

\* Every step of the list is reversed: the setup is taken off the server.
OutDone(a) ==
    /\ app[a] = Idle /\ out[a].on /\ out[a].list = <<>>
    /\ out' = [out EXCEPT ![a] = NotOut]
    /\ UNCHANGED <<plan, mine, undo, server, moving, kind, app, faults, disturbed>>
-----------------------------------------------------------------------------
(* Death, and the person's hand.                                               *)

AppDies(a) ==
    /\ app[a] # Idle \/ out[a].on
    /\ Fault /\ app' = [app EXCEPT ![a] = Idle] /\ out' = [out EXCEPT ![a] = NotOut]
    /\ UNCHANGED <<plan, mine, undo, server, moving, kind, disturbed>>

\* The person's own row of the schedule.
OwnEdit ==
    /\ Fault /\ mine' = Set(Own, IF mine[Own] = "on" THEN "off" ELSE "on")
    /\ UNCHANGED <<plan, undo, server, moving, kind, app, out, disturbed>>

\* A job's row switched in the app, or its line taken out of the crontab.
HandEdit(x) ==
    /\ Fault /\ Disturb({x})
    /\ \/ /\ x \in Job /\ mine[x] # "absent" /\ UNCHANGED server
          /\ mine' = Set(x, IF mine[x] = "on" THEN "off" ELSE "on")
       \/ x \notin Unit /\ server' = [server EXCEPT ![x] = "gone"] /\ UNCHANGED mine
    /\ UNCHANGED <<plan, undo, moving, kind, app, out>>

AppStep(a) == Serve(a) \/ End(a) \/ EndRefused(a) \/ Resolve(a) \/ OutStep(a) \/ OutDone(a)

Next ==
    \/ \E s \in Step : Approve(s) \/ Skip(s) \/ Unskip(s)
    \/ \E x \in Thing : ApplyAdd(x) \/ PersonUndoes(x) \/ HandEdit(x)
    \/ Replan \/ Finish \/ OwnEdit
    \/ \E a \in App :
        \/ \E x \in Thing : BeginApply(a, x) \/ BeginUndo(a, x)
        \/ \E x \in Thing, choice \in {"finish", "rollback"} : Check(a, x, choice)
        \/ AppStep(a) \/ NoAnswer(a) \/ MoveOutBegin(a) \/ AppDies(a)

Spec == Init /\ [][Next]_vars
-----------------------------------------------------------------------------
\* Every variable stays in its range, and the order lists exactly the done steps.
TypeOK ==
    /\ step \in [Step -> {"pending", "approved", "done", "skipped", "undone"}]
    /\ flight \in [Thing -> {"no", "apply", "undo"}]
    /\ prior \in [Thing -> {"none", "on", "off", "gone"}]
    /\ ToSet(order) = {s \in Step : step[s] = "done"} /\ IsInjective(order)
    /\ mine \in [Thing \cup {Own} -> {"absent", "off", "on"}]
    /\ server \in [Thing -> {"on", "off", "gone"}]
    /\ moving \in {"in", "out", "no"}
    /\ \A a \in App : app[a].pc \in {"idle", "send", "end", "resolve"} /\ ToSet(out[a].list) \subseteq Step
    /\ faults \in 0..MaxFaults /\ disturbed \subseteq Thing

\* Nothing cut across the handing over of x: no answer was lost, no handler died
\* between its files and the plan, no window checked a step another was at, the plan
\* was not made again nor the first step undone in the middle, no hand edited x.
Undisturbed(x) == x \notin disturbed

\* A job is switched on on the server or in the mineral at every moment of its handing
\* over and of the way back, though the app dies anywhere, the server refuses or is not
\* reached and the step is finished or put back later.
SomebodyRunsTheJob == \A x \in Job : Undisturbed(x) => server[x] = "on" \/ mine[x] = "on"

\* And a bot is never answered by both.
OneAnswersTheBot == \A x \in Bot : Undisturbed(x) => ~(server[x] = "on" /\ mine[x] = "on")

\* The types, and both.
Inv == TypeOK /\ SomebodyRunsTheJob /\ OneAnswersTheBot

\* "every step can be undone": a thing that is not on its way is at one place, the one
\* the plan says.
PlanTellsWhere ==
    \A x \in Thing : Undisturbed(x) /\ flight[x] = "no" =>
        IF step[Cut(x)] = "done" THEN server[x] = "off" /\ mine[x] = "on"
        ELSE server[x] = "on" /\ mine[x] = (IF step[Add(x)] = "done" THEN "off" ELSE "absent")

\* "keep everything else the person did" (apply.mjs:186): no step and no undo changes
\* another row of the file it writes, nor the person's own.
OthersRowsKept ==
    [][\E x \in Thing \cup {Own} : \A y \in Thing \cup {Own} : y # x => mine'[y] = mine[y]
       /\ (mine'[Own] # mine[Own] => faults' > faults /\ UNCHANGED plan)]_vars

\* A Move out that reports every step reversed left nothing handed over, unless another
\* window applied a step meanwhile.
AllIsBack ==
    [][\A a \in App : OutDone(a) /\ out[a].clean =>
        \A x \in Thing : Undisturbed(x) /\ flight[x] = "no" => server[x] = "on" /\ mine[x] = "absent"]_vars
=============================================================================
