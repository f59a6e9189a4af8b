------------------------------- MODULE Scheduler --------------------------------
(* The box's scheduler (engine/cron/scheduler.mjs): it looks at the wall clock every   *)
(* twenty seconds and starts what is due, here the hourly heartbeat and one skill of   *)
(* the member's.  With it, what decides whether a job it asked for is run: the kernel's *)
(* human-lock, taken by box-up.sh at boot and let go by the tick (cadence-lock.mjs),    *)
(* and move-in.  What the scheduler does without an await is one step.                  *)
EXTENDS Cadence

CONSTANTS
    Entries,        \* entries the member gives the skill: raw, of version 1 or 2
    HeartbeatAt,    \* minutes the heartbeat is due
    Quiet,          \* profile.yaml's quiet hours, <<from, to>> or none
    Dates,          \* dates; after the last comes the first
    Profiles,       \* what profile.yaml's cadence.enabled may be
    Comms,          \* whether Telegram or Slack may be connected
    MaxDown, MaxMove, MaxEdits   \* how often each of these may happen

ASSUME SchedulerAssumption ==
    /\ Dates \in Nat \ {0} /\ HeartbeatAt \subseteq Minute
    /\ Profiles \subseteq BOOLEAN /\ Comms \subseteq BOOLEAN
    /\ {MaxDown, MaxMove, MaxEdits} \subseteq Nat
    /\ Quiet = <<>> \/ Quiet \in Minute \X (0..DayLength)   \* 24:00 may end them

VARIABLES
    date, minute,   \* the wall clock
    up,             \* the container, and in it the scheduler
    booted,         \* box-up has come past the human-lock
    last,           \* the last key evaluated
    child,          \* of the skill's firings, what is under way: an enqueue, a drain
    beat,           \* a heartbeat's emitter runs
    entry,          \* cockpit/cadence.json: the skill's entry
    script,         \* cockpit/scripts.json: a script is on
    profile,        \* profile.yaml: cadence.enabled
    comms,          \* Telegram or Slack is connected, and the kernel a daemon
    lock,           \* .kernel/human-lock
    moving,         \* ownership.json: moving_in
    mark,           \* cockpit/heartbeat.json is there
    queue,          \* the kinds of jobs that wait in .kernel/queue
    fired,          \* history: how often each job was fired in this minute: not, once, more
    whole,          \* history: jobs due since this minute began, with nothing in the way
    restarted,      \* history: the scheduler was started in this minute, and not for the first time
    used            \* how often each bounded thing has happened

clock == <<date, minute>>
running == <<up, booted, last, child, beat>>
files == <<entry, script, profile, comms, moving, mark>>
history == <<fired, whole, restarted>>
vars == <<clock, running, files, lock, queue, history, used>>

Job == {"heartbeat", "skill"}
NoKey == <<>>
Bound == [down |-> MaxDown, move |-> MaxMove, edit |-> MaxEdits]
Use(what) == used[what] < Bound[what] /\ used' = [used EXCEPT ![what] = @ + 1]

Schedule == normalizeEntry(entry).schedule

\* buildSkillJobs: the skill is a job while it is on and its schedule valid.
On == normalizeEntry(entry).enabled /\ Valid(Schedule)

DueAt(d, m) ==
    {j \in Job : \/ j = "heartbeat" /\ m \in HeartbeatAt
                 \/ j = "skill" /\ On /\ scheduleMatches(Schedule, d, m, Quiet)}

Init ==
    /\ date = 0 /\ minute = 0
    /\ up = FALSE /\ booted = FALSE /\ last = NoKey /\ child = {} /\ beat = FALSE
    /\ entry \in Entries /\ script = FALSE /\ profile \in Profiles /\ comms \in Comms
    /\ lock = FALSE /\ moving = FALSE /\ mark = FALSE /\ queue = {}
    /\ fired = [j \in Job |-> 0] /\ whole = {} /\ restarted = FALSE
    /\ used = [b \in DOMAIN Bound |-> 0]
-----------------------------------------------------------------------------
(* scheduler.mjs                                                               *)

\* Mutant of Key: the minute is left out.
KeyOfHour == <<date % Week>>

Key == <<date % Week, minute>>

\* "evaluate each wall-clock minute exactly once"
New == Key # last

\* Mutant of Live: what box-up goes by.
LiveByProfile == profile

\* releaseBootLockForCadence: a skill or a script is on.
Live == On \/ script

\* fire: nothing during move-in; else a process, or an enqueue and a drain.
Fire(jobs, again) ==
    LET go == IF moving THEN {} ELSE jobs \cup again
        times(j) == fired[j] + IF j \in go THEN IF j \in jobs \cap again THEN 2 ELSE 1 ELSE 0
    IN
    /\ fired' = [j \in Job |-> IF times(j) < 2 THEN times(j) ELSE 2]
    /\ beat' = (beat \/ "heartbeat" \in go)
    /\ child' = IF "skill" \in go THEN child \cup {"enqueue"} ELSE child

\* tick, and what Start has beside it.
Evaluate(first) ==
    /\ last' = Key /\ lock' = (lock /\ ~Live) /\ Fire(DueAt(date, minute), first)
    /\ UNCHANGED <<clock, files, queue, whole, used>>

Tick == up /\ New /\ Evaluate({}) /\ UNCHANGED <<up, booted, restarted>>

\* Mutant of FirstBeat: the mark alone is looked at, which the emitter writes later.
FirstBeatByMark == IF mark THEN {} ELSE {"heartbeat"}

\* On a first start the heartbeat does not wait, unless the immediate tick has fired it.
FirstBeat ==
    IF mark \/ "heartbeat" \in DueAt(date, minute) THEN {} ELSE {"heartbeat"}

Start ==
    /\ ~up /\ up' = TRUE /\ booted' = FALSE /\ restarted' = (used["down"] > 0)
    /\ Evaluate(FirstBeat)

\* enqueue.mjs, then kernel.mjs --once; each is a process of its own.
Enqueue ==
    /\ "enqueue" \in child /\ child' = {"drain"} /\ queue' = queue \cup {"skill"}
    /\ UNCHANGED <<clock, up, booted, last, beat, files, lock, history, used>>

\* acquireLock and drain: nothing while the human-lock is there, or the box moves in.
Served == IF lock \/ moving THEN queue ELSE {}

Drain ==
    /\ "drain" \in child /\ child' = child \ {"drain"} /\ queue' = Served
    /\ UNCHANGED <<clock, up, booted, last, beat, files, lock, history, used>>

Emit ==
    /\ beat /\ beat' = FALSE /\ mark' = TRUE
    /\ UNCHANGED <<clock, up, booted, last, child, entry, script, profile, comms, moving,
                   lock, queue, history, used>>
-----------------------------------------------------------------------------
(* The bridge and the kernel's daemon.                                         *)

Message ==
    /\ up /\ comms /\ ~moving /\ "message" \notin queue /\ queue' = queue \cup {"message"}
    /\ UNCHANGED <<clock, running, files, lock, history, used>>

DaemonDrains ==
    /\ up /\ comms /\ queue # {} /\ Served # queue /\ queue' = Served
    /\ UNCHANGED <<clock, running, files, lock, history, used>>
-----------------------------------------------------------------------------
(* box-up.sh, the container, and the member.                                   *)

\* After the scheduler is started: no cadence in profile.yaml, so hold the human-lock.
TakeLock ==
    /\ up /\ ~booted /\ booted' = TRUE /\ lock' = ~profile
    /\ UNCHANGED <<clock, up, last, child, beat, files, queue, history, used>>

\* The container stops: box-up's trap takes the lock with it, a kill leaves it.
Down ==
    /\ up /\ Use("down") /\ up' = FALSE /\ booted' = FALSE /\ last' = NoKey
    /\ child' = {} /\ beat' = FALSE /\ lock' \in {FALSE, lock} /\ whole' = {}
    /\ UNCHANGED <<clock, files, queue, fired, restarted>>

\* The member edits the skill, or switches the script.
Edit ==
    /\ Use("edit") /\ whole' = {}
    /\ \/ entry' \in Entries /\ UNCHANGED script
       \/ script' = ~script /\ UNCHANGED entry
    /\ UNCHANGED <<clock, running, profile, comms, moving, mark, lock, queue, fired, restarted>>

Move ==
    /\ moving \/ used["move"] < MaxMove
    /\ moving' = ~moving /\ whole' = {}
    /\ used' = IF moving THEN used ELSE [used EXCEPT !["move"] = @ + 1]
    /\ UNCHANGED <<clock, running, entry, script, profile, comms, mark, lock, queue, fired,
                   restarted>>

\* A minute passes, in which the scheduler has looked: it does so every twenty seconds.
Pass ==
    /\ up => ~New
    /\ minute' = (minute + 1) % DayLength
    /\ date' = IF minute' = 0 THEN (date + 1) % Dates ELSE date
    /\ fired' = [j \in Job |-> 0] /\ restarted' = FALSE
    /\ whole' = IF up /\ ~moving THEN DueAt(date', minute') ELSE {}
    /\ UNCHANGED <<running, files, lock, queue, used>>
-----------------------------------------------------------------------------
Next ==
    \/ Tick \/ Start \/ Enqueue \/ Drain \/ Emit \/ Message \/ DaemonDrains
    \/ TakeLock \/ Down \/ Edit \/ Move \/ Pass

Spec == Init /\ [][Next]_vars

\* The clock goes on, the host starts the container, and what was started goes on.
FairSpec ==
    /\ Spec /\ WF_vars(Pass) /\ WF_vars(Tick) /\ WF_vars(Start) /\ WF_vars(TakeLock)
    /\ WF_vars(Enqueue) /\ WF_vars(Drain) /\ WF_vars(Emit) /\ WF_vars(DaemonDrains)
-----------------------------------------------------------------------------
TypeOK ==
    /\ date \in 0..(Dates - 1) /\ minute \in Minute
    /\ up \in BOOLEAN /\ booted \in BOOLEAN /\ (booted => up)
    /\ last \in {NoKey} \cup (DAY_KEYS \X Minute) /\ (up <=> last # NoKey)
    /\ child \subseteq {"enqueue", "drain"} /\ beat \in BOOLEAN
    /\ entry \in Entries /\ script \in BOOLEAN /\ profile \in Profiles /\ comms \in Comms
    /\ lock \in BOOLEAN /\ moving \in BOOLEAN /\ mark \in BOOLEAN
    /\ queue \subseteq {"skill", "message"}
    /\ fired \in [Job -> 0..2] /\ whole \subseteq Job /\ restarted \in BOOLEAN
    /\ used \in [DOMAIN Bound -> Nat] /\ \A b \in DOMAIN Bound : used[b] <= Bound[b]

\* However often it looks, a job is fired once in a minute, the first start's heartbeat
\* included, unless the scheduler was started a second time in it.
OnceAMinute == \A j \in Job : fired[j] > 1 => restarted

\* An interval is silent in the quiet hours, counted on from their beginning.
QuietIsKept ==
    fired["skill"] > 0 /\ "skill" \in whole /\ Schedule.kind = "every" /\ Schedule.quiet =>
        \A i \in 0..(DayLength - 1) :
            Quiet # <<>> /\ i < (Quiet[2] - Quiet[1]) % DayLength =>
                minute # (Quiet[1] + i) % DayLength

\* The types, and both.
Inv == TypeOK /\ OnceAMinute /\ QuietIsKept

\* What was due when a minute began, with the scheduler up and nothing in the way, has
\* been fired when it ends.
NoDueMinuteIsMissed == [][Pass => \A j \in whole : fired[j] > 0]_vars

\* With a schedule on, the lock of a boot does not hold jobs up for ever: whatever box-up
\* takes and a kill leaves, the queue is served again and again.
QueueIsServed ==
    <>[]((On \/ (script /\ comms)) /\ ~moving) => []<>(queue = {})
=============================================================================
