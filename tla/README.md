# A verification of the Crads-AI engine

This directory holds TLA+ models of the engine that runs a Crads-AI mineral (a
person's container: their brain as a git repository, plus the processes that work on
it), the TLC runs that check them, and TLAPS proofs about them. The source files
named below are the reference: every definition is a translation of code, and
`PROJECT.json` says of which lines.

## 1. The system

A mineral is one container. Its state is a folder: the brain (a git working tree)
and `.kernel/`, a directory of files through which the processes talk. There is no
database and no long-lived server that owns the state. Every interaction is a file
that one process writes and another reads, renames or removes.

| component | state it keeps | operations | talks to |
|---|---|---|---|
| kernel lock (`engine/kernel/kernel.mjs`) | `.kernel/lock` (a pid), `.kernel/human-lock` | acquireLock, the `finally` that removes it | every kernel process; `box-up.sh` and the scheduler own the human-lock |
| job queue (`kernel/lib/queue.mjs`) | one file per job in `queue/`, `done/`, `failed/` | enqueue, listQueued, the renames | scheduler, chat bridges, app (producers); kernel (consumer) |
| kernel drain (`kernel/kernel.mjs`) | the locals of a drain; commits in the brain; ledgers; outbox | drain, drainMovingIn, the polling daemon, `--once`, the boot's dry run | queue, git, run ledger, chat bridges, move-in flag |
| git sync (`kernel/lib/git.mjs`) | branch, rebase state, remote | commitAll, clearRebase, syncPush, adoptedPush | the remote's other writers, the person working in the folder |
| run ledger (`lib/run-ledger.mjs`) | `run-ledger.jsonl` and two side maps | appendRun, rotation, the readers | kernel, scheduler, scripts, the app |
| script runs (`cron/cadence-lock.mjs`, `cron/scripts.mjs`) | `.kernel/locks/script-<id>.lock` | takeRunLock, releaseRunLock, runScript | scheduler and "Run now" |
| scheduler (`cron/scheduler.mjs`, `cadence-lib.mjs`) | the last minute seen, the cadence file | tick, fire, supervise | queue, kernel, scripts, `start-comms.sh` |
| chat bridges (`comms/telegram.mjs`, `slack-dm.mjs`) | update offset, outbox files | handleUpdates, flushOutbox | Telegram, Slack, queue |
| company brain lock (`team/team-lock.mjs`) | the directory `.brain.lock` and the token file in it | withBrainLock | every process that writes the company brain |
| team hub and proposals (`team/team-hub.mjs`, `team-proposals.mjs`, `team-slack.mjs`, `team-inbox.mjs`) | the company brain's clone: working tree, index, commits; the proposals' files in `pending/`, `approved/`, `rejected/` | runHub (pull, import, queue, commit, push), propose, queue, decide | members' repositories, Slack, the owner |
| devices (`devices/*.mjs`, `box/grants.mjs`) | a roster row `devices/<slug>.yaml` per device, `authorized_keys` derived from the rows, `seen.log` | add, revoke, rename, adopt, revokeWithCascade, syncKeys, the org-sync and seen-drain passes | sshd, the app, the organisation |
| connections (`comms/mcp-connect.mjs`, `mcp-token.mjs`, `mcp-refresh.mjs`) | address and header of each in `.mcp.json`, what renews the header in `.kernel/mcp-oauth.json` | add, add-custom, remove, set, forget, the renewal pass | the app, the providers, every skill run (reader) |
| move-in (`move-in/*.mjs`, `wizard/panel/move-in-host.mjs`) | the plan of steps, `undo/`, the mineral's schedule and bot files, the `moving_in` flag | apply, undo, host-begin, one operation on the server, host-end, host-resolve, finish, move out | the app's windows, the server's crontab and units, kernel, scheduler |
| token refresh (`gh-token-refresh.mjs`, `gh-device-login.mjs`) | `device-refresh.json`, gh's own file | refreshIfNeeded, saveGrant, the device sign-in | GitHub, git sync |
| update (`box/update.mjs`, the host's unit) | `.kernel/update-requested`, `cockpit/update-status.json`, the host's image | check, request, autoStep, the unit's pull and start | the registry, the host, the app |
| shared inbox (`team/team-inbox.mjs`) | `.kernel/team-inbox.json` (the cursor), the day's page of the company brain | run | the mailbox, company brain lock |
| backup | archives, encrypted | snapshot, restore | the remote |

What is hard in it. *Concurrency*: the polling daemon, one `--once` kernel per cron
job or hand run, the boot's dry-run kernel, the bridges and the app's SSH commands
run as separate processes, and every `await` or pair of system calls is a place
where another may step in. *Failure*: a container restarts with an update,
a crash or its host (no longer every night: `box/update.mjs:5-8`), pids start again
from low numbers, and `.kernel/` survives, pidfiles included. *Ordering*: a job is run,
recorded, committed, moved, answered and logged by separate calls, and a crash may
cut the sequence anywhere. *Modes*: a brain brought along by its person is
`adopted`, and `moving_in` may change while anything is running.

What makes each component correct:

- lock: one writer at a time; a lock left by a dead kernel does not stop the queue;
- queue and drain: every job is settled once; an outcome shows only after the ledger
  explains it and, on a pebble, after the commit; a crash repeats a job, it does not
  lose one; one reply that agrees with the outcome; every queued job is settled;
- git sync: nothing local or remote is lost except where box authority is the rule;
  a person's rebase is never touched on an adopted brain; what is committed reaches the
  remote;
- run ledger: a row once appended is found by its readers, and no reader is told of an
  older run than the ledger shows;
- script runs: one copy of a script at a time, never blocked for good, and "Run now"
  reports the run it started;
- bridges: every message becomes one job, every reply is sent once and in full, and one
  reply that cannot be sent does not hold up the next;
- company brain lock: one writer at a time, a crashed holder's lock is broken, a waiter
  gets in or gives up;
- team hub and proposals: an approval overwrites only the page its author had seen, a
  decision is final, no proposal is lost, everything a person publishes reaches the
  owner; per-person import all or nothing;
- devices: a revoked device stays revoked and its key leaves the door, the door is never
  left empty, a sighting is not lost, an account without a grant has no device left;
- connections: what the last command made of a connection stays, header and refresh
  token belong to the same sign-in, and what lapses is renewed;
- move-in: while a thing is handed over or back somebody runs it, a bot never has two
  readers, the plan tells who, and a step cut short can be closed;
- token refresh: the refresh token on disk can always be spent, and what lapses is renewed;
- update: new software only on request, a request is not lost, no session is cut off;
- shared inbox: no message is passed over, none is entered twice without a reason;
- scheduler: what is due is fired once in its minute, and what is queued is served.

## 2. The modules

| module | what it is |
|---|---|
| `KernelLock` | the kernel's lock file, one action per system call of `acquireLock`; deaths, restarts, pid reuse |
| `Kernel` | queue and drain on top of it: producers, daemon, `--once`, boot dry run, job loop, commits, replies, move-in mode |
| `JobLifecycle` | the abstract specification: what a job's life looks like from outside |
| `TeamLock` | the company brain's lock directory, one action per system call of `withBrainLock` |
| `TeamProposals` | proposals, the owner's decisions and the hourly merge, on the clone's working tree, index and commit |
| `TeamRules` | the abstract specification: what the team is promised about a rule page |
| `GitSync` | a drain's way to the remote, one action per git command, with other writers, crashes and a person in the same folder |
| `ScriptRuns` | one script on a schedule: the scheduler, "Run now", the run lock, the program and its limit |
| `RunLedger` | `appendRun` system call by system call: the ledger, its side map, rotation, the reader |
| `ChatBridge` | the Telegram and the Slack bridge over the outbox they share with the kernel |
| `DeviceDoor` | the device roster, its commands and passes, and the key file derived from it |
| `Connections` | `.mcp.json` and `mcp-oauth.json`, the commands that write them and the renewal |
| `MoveIn` | the hand-over of a server's jobs and bots: plan, mineral, server and the app's windows; Move out |
| `Cadence` | what a schedule means: pure functions of an entry and the wall clock |
| `Scheduler` | the tick, what it fires, the lock of a boot and who releases it |
| `MCKernel`, `MCScheduler` | `Kernel` with the symmetry of its pids; `Scheduler` with its entries; the other modules need nothing a `.cfg` cannot say |
| `KernelProofs`, `TeamProofs`, `GitSyncProofs`, `ScriptRunsProofs`, `CronProofs`, `DeviceDoorProofs`, `MoveInProofs`, `CommsProofs` | theorems and proofs; `KernelProofs` has those of `KernelLock` too, `TeamProofs` is about `TeamLock` and `TeamProposals`, `CronProofs` about `Scheduler` and `RunLedger`, `CommsProofs` about `ChatBridge` and `Connections` |

`Kernel` extends `KernelLock` and conjoins its actions. `TeamProposals` does not extend
`TeamLock`: it takes from it that one process is inside at a time, as its variable
`lock`. What happens when that guarantee breaks is `TeamLock`'s subject (section 5). `GitSync`
opens the one step that `Kernel` makes of `syncPush`; it has one drain, which is what the
kernel lock gives it. `RunLedger` has the writers that `Kernel` and `ScriptRuns` take a
row from as one step, without a lock, as the code has none there. `ChatBridge` has the
kernel as one process that turns a job into a reply file. `Scheduler` extends `Cadence`; of
the kernel it has what decides whether a queue is served (`Served`), of move-in the flag.

### KernelLock

`stage[p]` is where the process with pid `p` is: `off`, `idle`, the steps of
`acquireLock` (`gate` = the human-lock, `create`, `write` = the pid, `read`, `probe`,
`remove`, `retake`), `held`, `over`. The lock file is `owner` (whose process created
it) and `filled` (the pid has been written): `writeFile(flag: 'wx')` is an open and a
write, and a process that dies between them leaves an empty file, which the next
reader turns into `Number('') = 0`, a pid that `kill(0, 0)` always finds. `robbed` is a
history variable: somebody removed the file of a live holder. A process is named by
its pid, so a kernel that gets a dead kernel's pid is that model value starting
again; `foreign` are pids in the hands of programs that are no kernels.

### Kernel

Conjoins a KernelLock action in every action that moves a process through the lock,
so that `Kernel` implements `KernelLock` by construction of the actions (and by proof,
`KernelUsesTheLock`). The rest of a drain is `step[p]`, one value for every place
between two awaits at which the file system differs. A job is a number, the rank of
its timestamped name. The content of a skill's run is abstracted to "the job's edits":
in the working tree (`dirty`), committed (`head`), pushed (`remote`). `rows`, `acts` and
`replies` are what the run ledger, the action ledger and the outbox hold for a job; `sha[p]`
is the drain's variable of that name, a commit of the job under way. `pidfile` is the pid
`start-comms.sh` wrote down for the daemon it launched; it launches none while `kill -0` finds
that pid, whosever it is by now. `untold` is a history variable: jobs in `done/` whose
answer or action row threw, so that the catch block got them (`TellThrows`).
Conditions of the code are guards: `JobOk` goes to `commit` or past it because
`commitAll` reads the move-in flag in the same turn of the event loop as `appendRun`;
`MoveDone` needs the file to be in the queue, because `rename` throws otherwise;
`HandRead` fails when a file that `readdir` named is gone.

Abstracted: what a skill does, the text of rows and replies, `ensureRepo`,
`ensureIgnored` and `syncSkills` (idempotent, no state any property reads), and the
inside of `syncPush` (one step that pushes or does not).

### JobLifecycle

Three variables. A job is submitted, gets ledger rows, is settled once as done or as
failed with the row that says so, and is answered or apologised for. `Kernel`
implements it with the identity mapping: checked by the run `kernel_move_in`, proved
as `KernelImplementsJobLifecycle`.

### TeamLock

`stage[p]` names the next system call of `withBrainLock`. `mkdir` takes the lock (`maker`
is whose mkdir made the directory), a `writeFile` puts the token into it (`token`, which
may be `Torn` or missing when the write failed, since the code swallows that error). A
waiter that finds the directory stats it: gone, it tries again at once; `aged` (older
than `STALE_MS`), it calls `rmdir`, which removes an empty directory and fails on one
with an entry; otherwise its own deadline decides (`late`). Giving the lock back is
three calls: read the token, unlink it, remove the directory. The age is the
directory's mtime, so creating or removing the token renews it and rewriting it does
not. `Age` and `Expire` are the clock. `broken` is a history variable: a waiter removed
the directory of a live holder.

### TeamProposals and TeamRules

`wt`, `index` and `head` are the three trees of the clone, each with the content of the
one page and, per proposal, the set of areas (`pending/`, `approved/`, `rejected/`) that
hold a file of it: a run that fails half-way leaves a proposal in two. `chain` is the branch
from the remote's tip to the last commit: what waits for its push (`Pushed` or `NotPushed`,
whose error the code ignores), and `shared` the page of that tip, which a person proposes
against. The merge
(`HubBegin` ... `HubAddAll`), the decision (`DecideBegin` ... `DecideAdd`), the proposal
from Slack or on the agent (`QueueBegin`, `QueueStage`, `QueueAdd`) and `Commit` are one
action per write, git command or directory scan. `Fail` is a throw anywhere: the
`finally` of `withBrainLock` gives the lock back and everything written so far stays (`torn`,
if some of it is not in the commit).

`Pull` is `git pull --rebase --autostash` with its errors ignored: nothing, an unstaged
index, or an edit somebody pushed to the page from outside. The edit applies; or it
conflicts with what a failed run left in the working tree, and the page is `Mixed`; or it
conflicts with a commit that waits for its push, and the rebase stops there (`Stop`): HEAD
is off the branch (`detached`), the page is a conflict (`unmerged`) with markers in the tree,
and the commits behind that one and the stash are not in this tree. Every later pull and
push fails then, and decisions go on; the next `git add` takes the markers for resolved.
`Answer` is the pull of a question in Slack, which writes nothing else.

Abstracted: one page (two proposals interact only when they are about the same one), which
is also the only file a pull conflicts over; a page's content is the proposal it came from;
the safety flags, the format of a proposal's file, and, from the merge, what it does to
anything but proposals and pages.

`TeamRules` has a page, a status per proposal and the page each was written against.
`TeamProposals` maps `head.page` and the areas of `head` to it: the published state is
the commit, not the working tree.

### GitSync

A change is a commit's worth of edits: `Ours` are the box's, `Theirs` are pushed by others.
A ref (`branch`, `remote`, `fetched`) is the set of changes in its history and the set its
tree shows; the two differ when a conflict was resolved for one side. `over[o]` are the
outside changes that own change `o` was made or replayed on top of, which is what decides
whether a replay meets a change as a conflict. An outside change may touch the lines a
job edits (`Hunk`: `-X theirs` resolves it) or remove the file (`Path`: the rebase stops).
`op` is the rebase in progress and whose it is, `mark` is `.kernel/rebase-by-kernel`, `strays`
are commits on the detached HEAD, `saved` those a `clearRebase` under way has found there.
Each git command is one action, and a crash may come between any two. On an adopted
brain the person edits, commits, and starts, ends and aborts a rebase whenever they like;
what they do between a `clearRebase`'s abort and its cherry-pick makes that fail (`Unhindered`).

Abstracted: git's objects and output; the files of a change; `ensureRepo`; an `index.lock` a
killed git leaves behind, which stops every later command that writes.

### ScriptRuns

The scheduler is one process with several runs in flight; what it does without an `await`
is one block of its own, but another process may step in at every system call, so a
block is several actions and `Turn` keeps the scheduler's other runs out of it. Every "Run
now" is an exec of its own. `pc[r]` is where a run is in `runScript`, `child[r]` how its program
stands: none, running, `late` (past its limit, its SIGTERM sent) or an `orphan` whose parent
died. The lock file is `owner`, `filled` (created and written are two calls, and an empty file
reads as not held) and `old`. `row` is the script's entry in `last-script-runs.json`, `told` what
"Run now" printed. `up` says that the scheduler's process lives: `box-up.sh` starts it once
per container, and nothing starts it again before the next `Restart`. `robbed` is a history variable: a lock went while another run used it.

Abstracted: what makes a row valid; the scripts are independent, so there is one.

### RunLedger

A row is its skill (or none, for machinery) and the time its run began; it is appended
when the run ends, so the newest row need not be the last. `appendRun` is `AppendRow`, then
for a skill's row `ReadMap`, `TruncMap`, `WriteMap`, then the count and, past `ROTATE_AT`, the
read, truncation and write of the rotation. A truncated file is `Torn`: a map that does
not parse is an empty one. `clash` is a history variable: two processes were in `appendRun`
at once or one died in it. `LastRunBySkill` is the reader of the same name: the side map's
row, then its loop over the newest `Keep` rows, where a row at least as new replaces it.

### ChatBridge

A message, its job and its reply have one number. `tg` is the Telegram bridge (mode, place,
batch of updates, replies still to look at), `sl` the Slack one (with the parts of each
reply it has posted and the person's DM), `box` the state of each reply's file in the
outbox: `empty` is a file created and not yet written. `offset` may be `Torn`. `host` is the
marker that says the person's own program reads the bot; `start-comms.sh` starts the
bridges again in the mode the marker asks for, unless `kill -0` finds the pid of the bridge's
pidfile (`taken`: another program has it now). Telegram keeps an update until a later
`getUpdates` confirms it (`arrived`, `confirmed`); Slack may deliver again (`again`). A post may
succeed with its answer lost. `cut`, `unsure` and `tornOffset` are histories of what a death
interrupted, `dropped` of messages whose own enqueue threw behind the saved offset; they
are the exceptions the properties name.

Abstracted: another owner or chat and the records dropped for it, refused tokens and
back-off, buttons, the socket's own reconnects, a record whose removal fails, and the other
reasons `start-comms.sh` has to start no bridge.

### DeviceDoor

`rows` is the roster, `door` the key file, `proc` every process that is in one of the
operations: its operation, its place, the devices it still has to do, the row it has
read, the lines it will write. Each command of the panel is a process of its own; so are
the scheduler's two passes. A row is read, and several steps
later its file truncated (`Truncate`, `Put`) and written (`Write`); what is read in between, or
left by a death, is a `Husk`: active, with no key, fingerprint or account in it. A key that
the organisation still approves and no row holds is adopted, into a second row (`twin`) when
its first is a husk. `syncKeys` derives the lines from the rows and from what is in the door, refuses
to empty a door that has keys, truncates and writes. `shut` and `granted` are the
organisation's mind and the account's grant. The histories `raced` (a row was written
while another process held it read), `halved` (a row was used as a husk, or left one by a
death), `missed`, `left` (devices a cascade did not come to)
and `peeked` (the door was read, or left, between truncation and write) say exactly where
a property has its exception.

Abstracted: the people registry and support grants (two more sources of the same
union), what later commands and stamps do to a twin, `roster-cli adopt`, the keys themselves.

### Connections

`doc` is the entry of each connection in `.mcp.json` (absent, without a header, signed in,
pasted, at another address) with the grant its header comes from; `store` is the refresh
token and access token kept in `mcp-oauth.json`; either may be `Torn`. A command is a list of
edits, and each edit reads a file, truncates it and writes it. The renewal (`ref`) reads
both files once, then asks the provider connection by connection and hands each answer
to `mcp-token set`. The provider counts the grants it issued; one that rotates refuses a
refresh token used before (`spent`). The histories say when two commands, or a command
and a renewal, of one connection overlapped (`crossed`), a grant was issued and its holder
died (`lost`), and a file was written across another write or read torn (`raced`). The
model follows a box up to the first two writes of one file that cross.

Abstracted: Google's and Microsoft's own key files, adopt and scopes, the allow list,
checks and status, and the sign-in flow before its result is handed over.

### MoveIn

A thing (a job or a bot, a crontab line or a systemd unit) has two steps: `Add` brings it
into the mineral switched off, `Cut` hands it over. `step`, `flight`, `prior` and `order` are the
plan; `mine` is what the mineral's files say of each thing, with one row of the person's own
in the file the jobs share; `undo` the bytes kept before and after a step; `server` what the
server does. A handler of the container runs under its lock and is one action, with a
death between its files and the plan as a second outcome. A `Cut` is `Begin` (host-begin, with
the mineral's half first for a job, last for a bot), `Serve` or `NoAnswer` (the one
operation over SSH) and `End` (host-end); `Check` and `Resolve` are the app's two ways out of a
step that stopped half way; `MoveOutBegin`, `OutStep`, `OutDone` Move out. `app[a]` is a window, `out[a]`
what its Move out has left. `disturbed` is a history variable: the things whose hand-over
something cut across that the code does not cover (see `Undisturbed`).

Abstracted: what the plan proposes, the notes and .gitignore steps (one half only), the
trial run asked for before a hand-over, the teardown of the setup. `kind[x]` says whether a
thing is a job, a bot's unit or a bot's line: it is chosen once and never changes.

### Cadence and Scheduler

`Cadence` has `normalizeEntry` (entries of both versions), `Valid`, `inQuiet` and `scheduleMatches` on
minutes of a day and dates. `Scheduler` has the wall clock (`date`, `minute`), the last key
evaluated, the skill's entry, a script's switch, the first
heartbeat's mark, the human-lock and the queue. `Tick` evaluates a new minute: it releases the
lock if anything is scheduled, then fires what is due; `Start` is the immediate tick and the
first heartbeat; `TakeLock` is box-up's, which comes after the scheduler is started. A firing of
the skill is two processes, `Enqueue` and `Drain`. `Pass` lets a minute go by only when it has been
looked at: the tick comes every twenty seconds. Histories: `fired`, `whole` and `restarted` for the
minute.

Abstracted: the table of machinery jobs (the heartbeat stands for them), profile
migration, the `--plan` modes, the hour that comes twice when summer time ends; a process that stands still for more than a minute.

## 3. The runs

| run | instance | distinct states | what it shows |
|---|---|---|---|
| `kernel_drains` | 2 pids, one of them reusable by other programs, 1 job with its own `--once` kernel and a reply, daemon, 1 death or restart, fair | 385,032 | one writer until a takeover removed a live holder's file; committed before done, what is told is the outcome (a job in `done/` whose answer threw is named), at most one run more than deaths; every queued job is settled unless the lock is wedged or the daemon's old pid is another program's |
| `kernel_move_in` | 2 pids, 2 jobs (one by hand) with their own kernels, adopted brain, the flag changes twice | 160,950 | a hand run's edits stay uncommitted; refinement of `JobLifecycle` |
| `team_lock` | 3 processes, 1 fault, fair | 195,760 | one writer until a waiter's rmdir hit a live holder; a directory with its holder's token in it is never taken, however old; a waiter gets in or gives up unless a stale directory holds a token; one without a token is broken |
| `team_proposals` | 2 proposals (one of a person, one of the agent), 2 processes, 2 failing runs, 1 outside edit, 2 commits that wait for a push, fair | 1,372,166 | no lost update, a proposal only moves forward but for what a pull that stops had not pushed; the commits are a `TeamRules` until work is torn; what is published is queued |
| `git_sync` | 2 own and 2 outside changes (one on the same lines, one that removes the file), 2 attempts of a push, 1 crash, pebble and adopted brain, fair | 306,578 | no commit is lost but in the cases named; an adopted brain overrides nothing of the remote, a pebble loses none of its own; the person's rebase ends by their hand; the branch reaches the remote |
| `script_runs` | 2 scheduled runs and a "Run now", 2 deaths (of a process or the container), 1 flip of the switch, fair | 446,767 | one copy until a lock in use was removed; "Run now" tells its own run; while the scheduler lives the script always runs again |
| `run_ledger` | 2 processes, 2 skills, 4 rows, keep 2 and slack 1, 1 death | 818,302 | written by one at a time the map has every skill's last row and the ledger the newest; no answer is older than what the ledger shows |
| `chat_bridge` | 2 Telegram messages, 1 Slack message with a reply in 2 parts, 1 fault, 1 redelivery, fair | 223,852 | types; no message becomes two jobs or none, no reply is dropped or posted twice, but by the death or the failed write named; the last reply arrives |
| `device_door` | an enrolled device and one the organisation approved, one account, 1 command, 2 sightings, 1 fault, fair | 729,187 | revoked stays revoked, the door is never left empty, account cuts and sightings are not lost, but for the races and torn rows named; the door follows the roster where the sync pass goes on |
| `connections` | 2 connections (one listed by the app whose provider rotates, one added by address), 1 command, 3 grants, 1 fault, fair | 573,056 | types; the last command's word is kept, header and refresh token are of one sign-in, what lapses is renewed |
| `move_in` | 1 thing (a job, a bot's unit or a bot's line) and the person's own row, 2 windows, 1 fault | 1,912,764 | types; somebody runs the job at every moment and never two answer the bot; the plan tells where it is; no other row is touched; a Move out that reports success left nothing handed over |
| `scheduler` | a day of 4 minutes, 4 entries, 2 dates, a script's switch, Telegram or none, cadence in the profile or not, 1 stop, 1 move-in, 1 edit, fair | 584,254 | types; once a minute, none missed, the night over midnight is kept; the queue is served while anything is scheduled |

Type invariants are conjuncts of the inductive invariants and proved for every instance; in
`ChatBridge`, `Connections`, `MoveIn` and `Scheduler` the run checks them too, as the first conjunct
of `Inv` (`ConnInv`). Several safety properties that are one promise are one definition with
named parts: `DecisionsStand`, `RecordKept`, `RowsKept`, `TurnComes`, `Inv`.

*Bounds.* Counters are bounded by the constants of their name.

- Kernel: two kernels are enough for the interleavings of the drain: one holds, one
  comes. One death or restart is "a crash at every step", each followed by every
  behaviour of the survivors. Two jobs make order and a half-done list visible;
  `MaxFlips = 2` lets a move-in end and a move-out begin. `kernel_move_in` is without deaths
  (those of a drain on an adopted brain are in the theorem `KernelImplementsJobLifecycle`) and
  uses the symmetry of `Pid`; the run with a liveness property uses none.
- `TeamLock` needs three processes (a late breaker, a new holder, a waiter); `MaxLockFaults = 1` is a
  death or a failed token write at any step. `MaxPauses = 0` leaves out only a live process
  that stands still for the whole of `STALE_MS` (ten minutes) between two system calls
  while its directory is empty; a holder whose work takes longer is in the run, and the
  theorems hold for any `MaxPauses`. In `TeamProposals` two failing runs allow a failure in
  the recovery from a failure, and of two commits that wait for their push one is behind
  the one a pull stops at.
- `GitSync`: one outside change of each kind clashes with either own change, before or after
  it; `Retries = 2` (3 in the code) has a failed attempt, its merge and its second attempt.
- `ScriptRuns`: the robbery needs a run past its limit, a run that breaks its lock and a
  third that starts, and "Run now" a scheduled run that replaces its row. With two deaths
  the scheduler dies and comes back with its container.
- `RunLedger`: keep 2 and slack 1 make the fourth row rotate and leave the reader two rows to
  compare; four rows let a skill's row fall out of the ledger and a machinery row be the one
  that pushes it out.
- `ChatBridge`: two Telegram messages make a batch with a half-done rest, two parts a reply
  that is cut in the middle, and the Slack and Telegram replies one in front of the other.
- `DeviceDoor`: one command beside the sync pass and the drain on two rows, which both may be the
  account's, so that a cascade leaves nobody; two sightings of one device, the second while
  the drain runs. The properties also hold with two commands (two revokes, each seeing the
  other's device still active) and no sightings; both together are out of TLC's time, and
  the theorems have any number of either.
- `Connections`: one command beside the renewal of two connections, each grant and its
  renewals; the safety properties also hold with two commands and two grants, which is too
  large with the liveness one.
- `MoveIn`: two windows are a person and their second tab, or Move out beside a step; one
  fault is a death, a lost answer, a server not reached or a hand edit anywhere. Things
  share only the order of done steps, so one thing of each kind, beside the person's own
  row of the same file, is enough.
- `Scheduler`: the night runs over midnight of a day of four minutes, an interval of two
  falls into it and outside, and a week of two days has a day the weekly entry does not
  fire on.

*Fairness.* Nothing asks a process to die, a call to fail, a person to act or a job to come.

- `Kernel`: a running kernel goes on (a Claude turn has a time limit), and some kernel keeps
  being started: the scheduler calls `start-comms.sh` every two minutes, which relaunches a
  daemon when `kill -0` of its pidfile's pid finds nobody. Premises of
  `QueueDrainsUnlessWedged`: the human-lock is released in the end, since a box without cadence
  may hold it for good, the move-in ends, and the old pid is not another program's for good
  (`Shadowed`), since the launch is skipped then.
- `TeamLock`: a process goes on, the clock runs, writers keep coming, and, as strong
  fairness, a waiter's `stat` does not find the directory gone every single time: that
  branch goes back to `mkdir` without a look at the deadline. `TeamProposals`: the hourly
  merge gets the lock again and again, which is `TeamLock`'s liveness, and a run goes on.
- `GitSync`: the kernel goes on and drains again; that the network comes back for good is a
  premise of `Converges`.
- `ScriptRuns`: limits pass and orphans end; a scheduler that lives ticks, one that died
  does not, and nobody restarts it but a restart of the container, which fairness does not
  ask for; strong fairness for a run's steps and the cron
  tick, because each waits for the blocks of the same process, which come and go: the
  event loop gets to every callback in the end. That the script stays on and the scheduler
  up is a premise.
- `ChatBridge`: bridges, kernel and supervisor go on (`start-comms.sh` is called every two
  minutes; that no pidfile names another program's pid in the end is a premise); a post that is tried again and again is
  not refused by the network every time (strong fairness of each successful post).
- `DeviceDoor`: a process that is in an operation goes on, and nothing more: the sync pass
  is that of `org-sync.sh`, which leaves off before it on a box without an inbox, without its
  key or without a pull (88-105). That it goes on is the premise of `DoorFollows`; elsewhere the
  door is derived at boot and by the commands alone. `Connections`: the scheduler runs the
  renewal twice an hour, but not while a move-in is on; failed requests are bounded by
  `MaxFailures`, which is the premise that a provider recovers.
- `MoveIn` has no liveness property: its way back from a step cut short needs the person.
- `Scheduler`: the
  clock, the tick, the host's restart and every process that was started go on; that
  the skill stays on, or a script does and a daemon runs, is the
  premise of `QueueIsServed`.

## 4. What is proved

All theorems hold for every set of pids, jobs, processes, proposals, changes, skills,
devices, connections and things, any number of messages, and any number of deaths, faults,
pauses and edits. The assumptions are the named ASSUMEs of the modules: values such as
`NoPid`, `None`, `Torn` are none of the values they stand beside, kinds are subsets, bounds are
naturals, a day has two minutes or more, and quiet hours are times of day (24:00 may end
them). Every invariant and action property that a run checks is stated by a theorem, and so are
both refinements.

- `KernelProofs`, the lock: `LockTypeCorrect`, `HolderOwnsFileAlways`, `SingleWriterUpToRobbery`.
  `SingleWriterUnlessRobbed` is not inductive; what carries it is that every holder owns the
  file on disk (`HolderOwnsFile`), because only that makes the next `O_EXCL` create fail.
  `StaleFilesComeFromDeaths`: with the same invariant, a path through a drain that forgot
  the `finally` would be the only other source of a stale file.
- `KernelProofs`, the drain: `KernelUsesTheLock`, every step of `Kernel` is a `KernelLock` step or leaves
  the lock alone, so the lock's theorems carry over. `TypeCorrect`, `SettledJobsAreRecorded`:
  `KernelInv` says what is already true of the job a process is at (`AtJobInv`: a row before
  the commit and the move, done before the reply). All of it is stable under everybody's
  steps (`Stable`), so it survives a second writer; it needs no mutual exclusion.
  `KernelImplementsJobLifecycle`: refinement, from `KernelInv` and `ListedWasSubmitted`.
  `DoneJobsAreCommitted` needs no lock either: on a pebble a commit takes everything and
  nothing is taken back (`PebbleCommits`). `TellsTheOutcome`, `RunsAreBounded` and
  `HandWorkIsLeftAlone` do (the first but for `untold` jobs, whose answer or row threw behind
  the rename): until a robbery every step is that of the drain under way or
  beside it (`Alone`), so what it listed is still queued (`ListedOK`), a run that nobody has
  in hand and that settled nothing was a death (`CountOK`), and what hand runs left is among
  the paths the drain found in the tree (`HandOK`).
- `TeamProofs`, the lock: `LockInv` is the types (with "a token lies in a directory") and
  `HolderMadeIt`. `OneWriterAtATime` follows because two holders would have made the same
  directory; `LockInUseIsKept` is an action property from the same invariant.
- `TeamProofs`, the proposals: `ProposalsInv` adds to the types that whoever is past its first
  step is inside (`LockOK`), that between an approval's check and its write the page is
  still the proposal's base (`WriteOK`), that the pending file is unlinked only when the
  decided one is there (`UnlinkOK`), that the index is not behind the commit, nor the working
  tree behind the index, in what they know and have settled (`TreesOK`), and that no commit of
  the branch is behind an earlier one (`ChainOK`). `NoUpdateIsLost` follows from `WriteOK`, since
  a pull never writes a proposal's content; `ProposalsMoveForward` from the queueing steps' own
  guard and `UnlinkOK` for the steps of a run, and from `ChainOK` for a pull that stops, which
  lands somewhere between the remote's tip and the last commit; `DecisionsRemain` is both.
  `CommitsFollowTheRules` is the refinement of `TeamRules`: until work is torn, `CleanOK` says
  what the trees hold between two runs and at each step of one, so that a commit is one
  proposal queued or decided, an edit from outside, or nothing. It needs no run to succeed:
  pushes, imports and runs with nothing in hand may fail as often as they like.
- `GitSyncProofs`: four action properties from one invariant. `Halves`: an adopted brain is
  never in the pebble's half of the code, nor the other way round. `Heads`: what a
  clearRebase has saved exists exactly between its abort and its cherry-pick, and the mark
  stands whenever a replay is under way. `Trees`: which refs show all of what their history
  claims; on a pebble an own change is shown by every ref that has it, which is why `-s
  ours` and `-X theirs` cost it nothing. `Outside`: outside changes come from the remote, and
  a replay is onto a tip that has all of those in the branch. `CommitsAreKept`,
  `AdoptedOverridesNothing`, `PebbleIsOfRecord` and `PersonsOpIsKept` take one step each;
  `RecordIsKept` is the second and the third.
- `ScriptRunsProofs`: `OneCopyAtATime` from `CopyInv`: until a lock in use was removed, a run
  that has a program, or is about to start one, owns the lock file or died and left its
  program with it, and there is one such run at the most. `RunNowTellsItsOwn` from `RowInv`: a row with a run's token
  says how that run ended.
- `CronProofs`, the scheduler: `SchedulerInv` adds to the types that nothing is fired in a minute
  that has not been evaluated (`FiredOK`), and that what has been due since the minute began
  is due still, and was fired where the minute was evaluated (`WholeOK`); both need that
  minutes go round the day. `OnceAMinuteAndQuiet` follows, with the arithmetic of a quiet window
  over midnight; `DueIsFired` is `WholeOK` at the step that leaves the minute.
- `CronProofs`, the ledger: `LastRowsAreKept` and `NewestRowsAreKept`: until two processes crossed
  or one died inside, one is in `appendRun` (`OneInside`), the side map or its hands have every
  row recorded (`MapInHand`), and what it will keep of the ledger is its newest rows
  (`RowsInHand`). `RowsAreKept` is both. `NoAnswerIsStale` needs nothing of this, only the types: the
  reader's loop never replaces a row by an older one, by induction along the rows it reads.
- `DeviceDoorProofs`: `Places` (which operation can be where), `InHand` (what a process holds of a
  row is the row, a truncated row is one writer's, and who is to put a row knows it to be
  absent, unless raced or halved: `Sound`), `Rows` (what is revoked is so on disk or in the hand
  of its one writer), `Door` (nobody writes an empty door unless they
  looked at a truncated one), `Log` (a sighting taken is logged until stamped, in the row or its writer's hand), `Cut` (a
  cascade still has in hand what it has not cut). `RevokedRemains`, `DoorIsKept`,
  `SightingsAreKept` and `AccountIsCutOff` are conjuncts or consequences.
- `MoveInProofs`: `MoveInv` (`MoveInInvariant`) has, beside the ranges, that the order lists the done
  steps once each (`OrderOK`), what an undo file may hold (`UndoOK`), that a hand-over is under
  way from the side it starts on (`FlightOK`), where an undisturbed thing runs and what its undo
  files would put back (`Place`), what the one window at it knows of the server (`AtWork`), and
  what a Move out has left to reverse (`OutOK`). `NeverNobodyNeverBoth` and `PlanTellsWhereAlways` follow
  from `Place`; `MoveOutLeavesNothing` from `OutOK`; `OtherRowsAreKept` from `UndoOK` and what each
  step writes.
- `CommsProofs`, the bridges: `BridgeInv` has what the batch in hand is (`BatchOK`) and how the
  offset stands to it (`OffsetOK`), that all in front of it is handled (`BehindOK`) and nothing
  behind it is a job (`OnceTg`), that Slack's bridge has seen what it has in hand and holds it
  once (`OnceSl`), that the DM is known when there is something to answer (`DmOK`), whose hand is
  on an unfinished reply (`BoxOK`), and how many parts were posted while a record is in the outbox
  (`TgPosts`, `SlPosts`). `OneJobForEachMessage` needs the first half, `RepliesArePostedInFull` the second.
- `CommsProofs`, the connections: the two files are truncated before they are written and nothing
  locks them, so the invariant (`ConnectionsInv`) is about what a file holds "or held before the
  write under way" (`Docs`, `Stores`); until two writes cross, an edit then counts as one step. Of
  such files it says, for a connection whose processes did not overlap, that one process has
  it in hand, with nothing the provider has used up (`HandsOK`), that entry and record are as
  the last command left them but for a sign-in that may follow (`WordOK`), and that header and
  refresh token are of one sign-in or the process that is to write the second has it in hand
  (`PairOK`). `LastWordIsKept` and `SignInIsKept` are the last two.

Only model-checked are the liveness properties: `QueueDrainsUnlessWedged`, `TurnComes`,
`PublishedIsQueued`, `Converges`, `RunsAgain`, `RepliesArrive`, `DoorFollows`, `Renewed`, `QueueIsServed`.
Fairness and ENABLED are outside the prover's reach.

## 5. What the code does not keep

Met while modelling. Where a model has the behaviour it is an exception a property names
(a history variable, or what `Undisturbed` leaves out); the rest was met while reading. No
run refutes a statement on purpose: `PROJECT.json` lists no findings.

*Kernel.* "A crash loses at most the in-flight job; the rest replay" (`kernel/README.md:35`): the
boot's `DRY_RUN=1` kernel (`box-up.sh:221`) first drains what was queued with made-up output and
moves it to `done/`. "The ONLY process that commits": the takeover probes the pid it read and removes
whatever the path names by then, so a holder that exits in between and a successor that
creates its own file are enough for two (`robbed`). `--once` is to "drain the current queue and
exit"; against a held lock it exits at once, and the holder has listed the queue before.
Jobs "stay queued, untouched" in move-in mode, but a drain under way reads the flag only at
its top, and a commit that has passed `commitAll`'s check lands although Move out has set it.
An empty lock file (a death between create and write) is never stale (`Wedged`). A death
after the rename into `done/` leaves the job without its action-ledger row. The outbox write and
the action row stand inside the `try`, after that rename: a throw of either
(`kernel.mjs:186-192`) adds a fail row, an error row and an apology for a job in `done/`, and
the chore ends before its push when the error row throws too. Any program with the pid in the
pidfile keeps the daemon down (`start-comms.sh:43-48`, 65-69), until it ends or the next boot.
Not in the model: `dirtyPaths` answers an empty set when `git status` fails
(`git.mjs:55-58`), so a drain may take a person's edits for its own; two passes of `start-comms.sh` at
the same instant.

*Company brain.* "A lock older than STALE_MS is a crashed holder and is broken"
(`team-lock.mjs:8-9`): `rmdir` cannot remove a directory with a token in it, which every holder
puts there, the error is swallowed, and every waiter goes round without a look at its
deadline; `TurnComes` says so in its premise. "Turn down and nothing changes": an approval that failed behind its first
write has changed the page of the working tree already. A slow waiter's `rmdir`, or the
second half of a slow holder's `rmSync`, may hit the directory a successor has just made. A
pull that conflicts with a commit whose push failed (`team-proposals.mjs:231`,
`team-hub.mjs:345`) leaves the clone in its rebase for good: nothing ends it, later pulls and
`git push origin HEAD` fail, pages hold markers, an approval writes upon them, and the hub's
`add -A` commits them. Commits behind the stop, and what the autostash set aside, are not in the tree:
a decided proposal may be pending again.

*Git sync.* `adoptedPush` looks for an operation of the person once (`git.mjs:200`), before its
fetch; a rebase they start in between makes its own fail, and lines 229-230 abort theirs
although lines 13-15 say "theirs is never aborted". Any failure of a pebble's pull ends in
`merge -s ours`, which overrides outside edits that need not have clashed. `rebase --abort`
destroys uncommitted edits to tracked files; `drain` clears a rebase before it takes the
lock. A crash between writing the mark and the rebase lets the next `clearRebase` abort a
person's. A commit can land on a detached HEAD of a rebase begun after the check at
`git.mjs:85`. After an abort `commitRescue` gives up a commit whose cherry-pick does not apply, for a removed
path, an edited one or an operation the person has open (`git.mjs:153-154`); a drain's commit on a person's own
rebase goes with their `--abort`.

*Script runs and ledger.* Two copies run after a lock in use was removed or read half-written
(`cadence-lock.mjs:48` against 36-37). "Run now" says "still running" when its exec skipped the
run. A rotation can change what `lastRunBySkill` answers, after two writers crossed, despite
`run-ledger.mjs:50` and 57. Machinery jobs have no overlap lock at all. Nothing restarts a
scheduler that ended in a living container (`box-up.sh:362`); `scheduler.mjs:745` still counts
on a nightly restart that `box/update.mjs:5-19` has removed.

*Chat bridges.* The offset is saved before the job is queued: a crash in between loses the
message (`telegram.mjs:82`), and so does an `enqueue` that throws with the bridge alive, since the
main loop swallows it (`telegram.mjs:87`, 170). A bridge stays down while any program has the pid in its pidfile, and
`box-up.sh:367` removes the kernel's and Telegram's at boot but not `slack-dm.pid`. A sent
record whose `rm` fails is posted again (not in the model). A truncated offset file has the kept batch handled again. A reply
record half-written when the kernel died stops Telegram's sender at it for good
(`telegram.mjs:107`; `slack-dm.mjs:196-198` skips one). `start-comms.sh` may start a bridge with the
token `telegram-link.mjs:290-326` is about to forget (not in the model).

*Devices.* Two overlapping syncs can leave an empty door, one reading what the other has
just truncated (`device-sync.mjs:331`). A row written from a stale read undoes a revoke. The
cascade of `grants.mjs:208` never derives the door again, so the keys stay until the next sync,
and it has no last-device guard; one that dies cannot be repeated, since the grant is gone.
While the organisation's gate is shut a revoke reports "can no longer open this box" though
the door is kept; and the gate does not close a door that has keys (`org-sync.sh:116-118`
against `device-sync.mjs:344`). `revokeWouldEmptyDoor` has no caller outside tests. A second
`roster-cli adopt` overwrites the first one's `adopted-key` row. A stamp, rename or revoke that dies
between truncation and write (`roster.mjs:98`) leaves an empty row, which lists as active
without a key: its sightings are drained away (`seen-drain.mjs:49`), a cascade passes it over,
and a revoked key may be adopted again (`device-sync.mjs:214-216`).

*Connections.* Two sign-ins that overlap leave a header and a refresh token of different
grants, which "can never disagree" (`mcp-refresh.mjs:57-58`). A renewal under way brings back a
connection removed meanwhile ("never resurrect it", `mcp-refresh.mjs:39`). A half-written
`.mcp.json` reads as an empty one, and the next writer drops every other connection. A
`forget` that fails unnoticed before `add-custom` with a token at the same address lets the
next renewal overwrite the pasted token (`mcp-connect.mjs:853`).

*Move-in.* A second window may check and put back a step whose operation the first has sent
and the server has not done yet. The first step of a thing can be undone while its second
is part-way (`apply.mjs:362` asks only whether it is done). A connection that ends after the
crontab was written is taken for a failure: the mineral's half is switched off again, the app
says "Nothing was changed on your server" (`move-in-host.mjs:94`), and nobody runs the job. A
plan made again forgets that a step is part-way (`plan.mjs:591`; `apply.mjs:458` says it "stays
`in_flight`"). `move-out-list` names done steps only, so the teardown runs with a step part-way.

*Scheduler.* An interval that does not divide the day is cut short at midnight (every 35 minutes
runs at 23:55 and 00:00; `cadence-lib.mjs:102`). The hour that comes twice at the end of summer
time is evaluated twice (`scheduler.mjs:755-756`). On a box with Telegram and nothing scheduled
the boot's human-lock stays, and the daemon runs no message (`box-up.sh:379`, `cadence-lock.mjs:23`).

*Not modelled, read.* A death between the exchange and the end of `saveGrant` loses the GitHub
refresh token, and a `gh` that fails after it leaves an access token that `expires_at` calls
fresh (`gh-token-refresh.mjs:98-106`). The overnight update trusts a status of up to six hours,
also from before an update by hand (`box/update.mjs:160`). The shared inbox reads mail that comes
during a run twice and passes over what exceeds `MAX_LINES` (`team-inbox.mjs:125`, 173).

*Elsewhere.* One unreadable job file makes `listQueued` throw, and every drain with it
(`queue.mjs:53`). A scheduler started twice in a minute fires that minute's jobs twice.

## 6. Plan

Done: the modules of section 2. What is left, in this order.

1. Proofs: an abstract lock that `KernelLock`, `TeamLock` and `ScriptRuns` implement until a lock in
   use is removed, which is what `TeamProposals` and `GitSync` take from the first two; an
   abstract mailbox (a message, its job, its reply) that `ChatBridge` implements.
2. The GitHub token refresh, the update flag between box and host, the shared inbox.
3. The profile's migration into `cadence.json`, and the scheduler's table of machinery jobs.
4. Backup and restore: snapshot, upload and commit order.
5. The control plane's reconcilers over registry rows and the panel's mutation lock.

## 7. Not modelled

The model run, connectors, page rendering, text synthesis, encryption, cloud-init
and image builds: external programs, formatting or one-shot scripts without a
protocol. They are the larger part of the repository's lines (the panel's and the wizard's
pages and fixtures, the IMAP, mail and calendar adapters, provisioning), which is why the
models stand for a small share of them. `PROJECT.json` lists every component with its
reason.
