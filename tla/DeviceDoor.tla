------------------------------- MODULE DeviceDoor -------------------------------
(* Who can open a box over SSH (engine/devices, engine/box/grants.mjs): the roster  *)
(* of devices, one file each, and authorized_keys, derived from it by syncKeys.     *)
(* The panel's commands, the scheduler's two-minute passes and the boot are         *)
(* processes of their own, and nothing locks the roster or the door: a row is read  *)
(* whole and changed, and writeFileSync truncates a row, like the door, before it   *)
(* writes it: a file met in between, or left so by a death, has no key in it.       *)
EXTENDS Naturals, FiniteSets

CONSTANTS
    Device,        \* a device, its key and its row
    Mine,          \* enrolled at the start
    Offering,      \* devices that try to log in
    OfAccount,     \* devices whose row names the account that has a grant
    Approved,      \* org-inbox/keys: the keys the org approved
    Ticker, Drainer,   \* the pass of org-sync.sh, and the one of seen-drain.mjs
    NoDevice,
    MaxCalls, MaxSeen,   \* commands of the panel, sightings of each device
    MaxFaults      \* deaths and changes of the org's mind

Cli == 1..MaxCalls      \* every command is a process of its own
Proc == Cli \cup {Ticker, Drainer}

ASSUME DeviceAssumption == Mine \subseteq Device /\ Mine # {} /\ OfAccount \subseteq Device /\ Offering \cup Approved \subseteq Device /\ NoDevice \notin Device
ASSUME ProcAssumption == Ticker \notin Cli /\ Drainer \notin Cli /\ Ticker # Drainer
ASSUME CountAssumption == {MaxCalls, MaxSeen, MaxFaults} \subseteq Nat

VARIABLES
    rows,          \* devices/<slug>.yaml: status, last_seen, and whether its key is in it
    twin,          \* keys adopted again, into a row of their own: no key was in the first
    door,          \* ssh/<login>/authorized_keys
    proc,          \* op, pc, todo (devices in hand), dev, its row (as read, or new) and
                   \* lines: the keys for the door, or those in hand that get a row apart
    log,           \* devices/seen.log: the last sighting of each device in it, or 0
    took,          \* what the drain read of it
    sighted,       \* sightings of each device so far
    shut,          \* the org has shut the door
    granted,       \* the account has a grant (ownership.json)
    calls,         \* commands started so far
    faults,
    cut,           \* history: devices revoked
    raced,         \* history: rows truncated or written while another process held them
    halved,        \* history: rows used with no key in the file, or left so by a death
    missed,        \* history: sightings of no device, or after the drain read
    left,          \* history: devices a cascade died over, or enrolled after its list
    peeked         \* history: the door was read, or left, between truncation and write

history == <<cut, raced, halved, missed, left, peeked>>
seenVars == <<log, took, sighted>>
vars == <<rows, twin, door, proc, seenVars, shut, granted, calls, faults, history>>

Busy(op, pc, todo) == [op |-> op, pc |-> pc, todo |-> todo, dev |-> NoDevice, row |-> <<>>, lines |-> {}]
Idle == Busy("none", "idle", {})
Row(s, n, k) == [status |-> s, seen |-> n, key |-> k]
NoRow == Row("none", 0, FALSE)
\* A truncated row: without a status it is active, without a key it has no fingerprint.
Husk == Row("active", 0, FALSE)
Files == {d \in Device : rows[d].status # "none"}
Keyed == {d \in Device : rows[d].key}
Keyless == Files \ Keyed
Opening == {d \in Keyed : rows[d].status = "active"}
Active == Opening \cup twin

Init ==
    /\ rows = [d \in Device |-> IF d \in Mine THEN Row("active", 0, TRUE) ELSE NoRow]
    /\ twin = {} /\ door = Mine
    /\ proc = [p \in Proc |-> Idle]
    /\ log = [d \in Device |-> 0] /\ took = log /\ sighted = log
    /\ shut = FALSE /\ granted = TRUE
    /\ calls = 0 /\ faults = 0
    /\ cut = {} /\ raced = {} /\ halved = {} /\ missed = {} /\ left = {} /\ peeked = FALSE

At(p, pc) == proc[p].pc = pc
\* Another process is to write d's row from what it knew of it.
Holds(q, d) ==
    \/ proc[q].pc \in {"truncate", "write"} /\ proc[q].dev = d
    \/ proc[q].op \in {"add", "sync"} /\ d \in proc[q].todo \ proc[q].lines
Races(p, d) == raced' = (IF \E q \in Proc \ {p} : Holds(q, d) THEN raced \cup {d} ELSE raced)
\* A cascade that has made its list does not come to a device enrolled since.
Enrolled(d) ==
    left' = (IF d \in OfAccount /\ (~granted) THEN left \cup {d} ELSE left)

Called(p) == p = calls + 1 /\ calls' = p
Starts(p, op, pc, todo) == proc' = [proc EXCEPT ![p] = Busy(op, pc, todo)]
-----------------------------------------------------------------------------
(* roster-cli.mjs and grants-cli.mjs, up to the first write.                   *)

\* add: not a device, nor an open key, the roster has.
Add(p, d) ==
    /\ Called(p) /\ rows[d].status = "none"
    /\ Starts(p, "add", "put", {d})
    /\ UNCHANGED <<rows, twin, door, seenVars, shut, granted, faults, history>>

\* revoke: not the last row that can open the box.
Revoke(p, d) ==
    /\ Called(p) /\ d \in Files /\ (Opening # {d} \/ twin # {})
    /\ Starts(p, "revoke", "read", {d})
    /\ UNCHANGED <<rows, twin, door, seenVars, shut, granted, faults, history>>

\* rename, set-vaultkey.
Rename(p, d) ==
    /\ Called(p) /\ d \in Files
    /\ Starts(p, "rename", "read", {d})
    /\ UNCHANGED <<rows, twin, door, seenVars, shut, granted, faults, history>>

\* revokeWithCascade: the grant goes first; without one there is nothing to do ...
RevokeAccount(p) ==
    /\ Called(p) /\ granted /\ granted' = FALSE
    /\ Starts(p, "cascade", "cascade", {})
    /\ UNCHANGED <<rows, twin, door, seenVars, shut, faults, history>>

\* ... then the devices that name the account are listed, to be cut one by one; a row
\* without a key names no account either.
Cascade(p) ==
    /\ At(p, "cascade")
    /\ LET s == OfAccount \cap Opening IN
       proc' = [proc EXCEPT ![p] = IF s = {} THEN Idle ELSE Busy("cascade", "read", s)]
    /\ halved' = halved \cup (OfAccount \cap Keyless)
    /\ UNCHANGED <<rows, twin, door, seenVars, shut, granted, calls, faults, cut, raced, missed, left, peeked>>
-----------------------------------------------------------------------------
(* roster.mjs: a row is read and changed, its file truncated and written.       *)

\* The process goes on to its next device, or to what follows its last one.
Onward(p, d) ==
    LET q == proc[p]
        todo == q.todo \ {d} IN
    proc' = [proc EXCEPT ![p] =
        IF todo # {}
        THEN [Busy(q.op, IF q.op = "sync" THEN "put" ELSE "read", todo) EXCEPT !.lines = q.lines]
        ELSE CASE q.op \in {"add", "revoke"} -> Busy("sync", "gate", {})
               [] q.op = "sync"  -> Busy("sync", "list", {})
               [] q.op = "drain" -> Busy("drain", "empty", {})
               [] OTHER          -> Idle]

\* The drain looks for the fingerprint, the others for the file.
Read(p, d) ==
    /\ At(p, "read") /\ d \in proc[p].todo
    /\ IF d \in (IF proc[p].op = "drain" THEN Keyed ELSE Files)
       THEN proc' = [proc EXCEPT ![p].pc = "truncate", ![p].dev = d, ![p].row = rows[d]]
       ELSE Onward(p, d)
    /\ missed' = missed \cup ({d} \ Files) /\ halved' = halved \cup ({d} \cap Keyless)
    /\ UNCHANGED <<rows, twin, door, seenVars, shut, granted, calls, faults, cut, raced, left, peeked>>

\* writeDevice empties the file ...
Truncate(p) ==
    /\ At(p, "truncate")
    /\ rows' = [rows EXCEPT ![proc[p].dev] = Husk] /\ Races(p, proc[p].dev)
    /\ proc' = [proc EXCEPT ![p].pc = "write"]
    /\ UNCHANGED <<twin, door, seenVars, shut, granted, calls, faults, cut, halved, missed, left, peeked>>

\* ... that of a new row too: the command's, or one the org approved.
Put(p, d) ==
    /\ At(p, "put") /\ d \in proc[p].todo \ proc[p].lines
    /\ rows' = [rows EXCEPT ![d] = Husk] /\ Races(p, d)
    /\ proc' = [proc EXCEPT ![p].pc = "write", ![p].dev = d, ![p].row = Row("active", 0, TRUE)]
    /\ UNCHANGED <<twin, door, seenVars, shut, granted, calls, faults, cut, halved, missed, left, peeked>>

\* Mutant of Changed: the cascade writes the row back as it was.
ChangedByHand(op, d, row) ==
    CASE op = "revoke" -> [row EXCEPT !.status = "revoked"]
      [] op = "drain"  -> [row EXCEPT !.seen = took[d]]
      [] OTHER -> row

Changed(op, d, row) ==
    CASE op \in {"revoke", "cascade"} -> [row EXCEPT !.status = "revoked"]
      [] op = "drain" -> [row EXCEPT !.seen = took[d]]
      [] OTHER -> row

\* ... and fills it.
Write(p) ==
    LET q == proc[p] IN
    /\ At(p, "write")
    /\ rows' = [rows EXCEPT ![q.dev] = Changed(q.op, q.dev, q.row)]
    /\ cut' = (IF q.op \in {"revoke", "cascade"} THEN cut \cup {q.dev} ELSE cut)
    /\ (IF q.op \in {"add", "sync"} THEN Enrolled(q.dev) ELSE UNCHANGED left)
    /\ Races(p, q.dev) /\ Onward(p, q.dev)
    /\ UNCHANGED <<twin, door, seenVars, shut, granted, calls, faults, halved, missed, peeked>>

\* A key adopted where its own row had none gets a second row (slug + "x"), which is
\* none until it is filled; no command names it any more.
Twin(p, d) ==
    /\ At(p, "put") /\ d \in proc[p].todo \cap proc[p].lines
    /\ twin' = twin \cup {d} /\ Enrolled(d) /\ Onward(p, d)
    /\ UNCHANGED <<rows, door, seenVars, shut, granted, calls, faults, cut, raced, halved, missed, peeked>>
-----------------------------------------------------------------------------
(* device-sync.mjs.                                                            *)

Tick ==
    /\ At(Ticker, "idle") /\ Starts(Ticker, "sync", "gate", {})
    /\ UNCHANGED <<rows, twin, door, seenVars, shut, granted, calls, faults, history>>

\* Mutant of Adopt: a revoked row does not count as known.
AdoptRevoked(p) ==
    /\ At(p, "gate")
    /\ LET new == IF shut THEN {} ELSE Approved \ Active IN
       /\ proc' = [proc EXCEPT ![p].todo = new, ![p].lines = new \cap Keyless,
              ![p].pc = IF shut THEN "prev" ELSE IF new = {} THEN "list" ELSE "put"]
       /\ halved' = halved \cup (new \cap Keyless)
    /\ UNCHANGED <<rows, twin, door, seenVars, shut, granted, calls, faults, cut, raced, missed, left, peeked>>

\* orgDoorShut: nothing is adopted, and no key is to open.  Otherwise
\* adoptOrgApprovedKeys: the approved keys that no row holds, revoked ones counted.
Adopt(p) ==
    /\ At(p, "gate")
    /\ LET new == IF shut THEN {} ELSE Approved \ (Keyed \cup twin) IN
       /\ proc' = [proc EXCEPT ![p].todo = new, ![p].lines = new \cap Keyless,
              ![p].pc = IF shut THEN "prev" ELSE IF new = {} THEN "list" ELSE "put"]
       /\ halved' = halved \cup (new \cap Keyless)
    /\ UNCHANGED <<rows, twin, door, seenVars, shut, granted, calls, faults, cut, raced, missed, left, peeked>>

List(p) ==
    /\ At(p, "list")
    /\ proc' = [proc EXCEPT ![p].pc = "prev", ![p].lines = Active]
    /\ UNCHANGED <<rows, twin, door, seenVars, shut, granted, calls, faults, history>>

\* Mutant of OpenDoor: the door is written whatever it is to hold.
OpenDoorAnyway(p) ==
    /\ At(p, "prev")
    /\ proc' = [proc EXCEPT ![p].pc = "fill"] /\ door' = {}
    /\ peeked' = (peeked \/ \E q \in Proc : At(q, "fill"))
    /\ UNCHANGED <<rows, twin, seenVars, shut, granted, calls, faults, cut, raced, halved, missed, left>>

\* "NEVER EMPTY A DOOR THAT CURRENTLY OPENS": one that holds a key is kept.  Else the
\* file is opened, and thereby empty ...
OpenDoor(p) ==
    /\ At(p, "prev")
    /\ IF proc[p].lines = {} /\ door # {}
       THEN proc' = [proc EXCEPT ![p] = Idle] /\ UNCHANGED door
       ELSE proc' = [proc EXCEPT ![p].pc = "fill"] /\ door' = {}
    /\ peeked' = (peeked \/ \E q \in Proc : At(q, "fill"))
    /\ UNCHANGED <<rows, twin, seenVars, shut, granted, calls, faults, cut, raced, halved, missed, left>>

\* Mutant of FillDoor: keys are added and none is taken away.
FillDoorMore(p) ==
    /\ At(p, "fill") /\ door' = proc[p].lines \cup cut /\ proc' = [proc EXCEPT ![p] = Idle]
    /\ UNCHANGED <<rows, twin, seenVars, shut, granted, calls, faults, history>>

\* ... and written.
FillDoor(p) ==
    /\ At(p, "fill") /\ door' = proc[p].lines /\ proc' = [proc EXCEPT ![p] = Idle]
    /\ UNCHANGED <<rows, twin, seenVars, shut, granted, calls, faults, history>>
-----------------------------------------------------------------------------
(* seen-drain.mjs.                                                             *)

\* Mutant of Drain: the log is emptied before the stamps.
DrainEmptying ==
    /\ At(Drainer, "idle") /\ took' = log /\ log' = [d \in Device |-> 0]
    /\ LET todo == {d \in Device : log[d] > 0} IN
       todo # {} /\ Starts(Drainer, "drain", "read", todo)
    /\ UNCHANGED <<rows, twin, door, sighted, shut, granted, calls, faults, history>>

Drain ==
    /\ At(Drainer, "idle") /\ took' = log
    /\ LET todo == {d \in Device : log[d] > 0} IN
       todo # {} /\ Starts(Drainer, "drain", "read", todo)
    /\ UNCHANGED <<rows, twin, door, log, sighted, shut, granted, calls, faults, history>>

\* The log is emptied when all are stamped, with what the host wrote meanwhile.
EmptyLog(p) ==
    /\ At(p, "empty")
    /\ log' = [d \in Device |-> 0] /\ took' = log'
    /\ missed' = missed \cup {d \in Device : log[d] > took[d]}
    /\ proc' = [proc EXCEPT ![p] = Idle]
    /\ UNCHANGED <<rows, twin, door, sighted, shut, granted, calls, faults, cut, raced, halved, left, peeked>>

\* A process dies: what it wrote stays.
Died(p) ==
    /\ proc[p].pc # "idle" /\ faults < MaxFaults /\ faults' = faults + 1
    /\ proc' = [proc EXCEPT ![p] = Idle]
    /\ left' = (IF proc[p].op = "cascade" THEN left \cup OfAccount ELSE left)
    /\ peeked' = (peeked \/ At(p, "fill"))
    /\ halved' = (IF At(p, "write") THEN halved \cup {proc[p].dev} ELSE halved)
    /\ UNCHANGED <<rows, twin, door, seenVars, shut, granted, calls, cut, raced, missed>>

\* The host's AuthorizedKeysCommand: a device offers its key.
Sighted(d) ==
    /\ sighted[d] < MaxSeen
    /\ sighted' = [sighted EXCEPT ![d] = @ + 1] /\ log' = [log EXCEPT ![d] = sighted'[d]]
    /\ UNCHANGED <<rows, twin, door, proc, took, shut, granted, calls, faults, history>>

\* The org shuts the door, or opens it again.
OrgFlips ==
    /\ faults < MaxFaults /\ faults' = faults + 1 /\ shut' = ~shut
    /\ UNCHANGED <<rows, twin, door, proc, seenVars, granted, calls, history>>

Sync(p) == Adopt(p) \/ List(p) \/ OpenDoor(p) \/ FillDoor(p)
Rewrite(p) == Truncate(p) \/ Write(p) \/ \E d \in Device : Read(p, d) \/ Put(p, d) \/ Twin(p, d)
Step(p) == Sync(p) \/ Cascade(p) \/ Rewrite(p) \/ EmptyLog(p)

Next ==
    \/ \E p \in Cli : RevokeAccount(p) \/ \E d \in Device : Add(p, d) \/ Revoke(p, d) \/ Rename(p, d)
    \/ Tick \/ Drain \/ OrgFlips
    \/ \E p \in Proc : Step(p) \/ Died(p)
    \/ \E d \in Offering : Sighted(d)

Spec == Init /\ [][Next]_vars

\* Every process goes on.  Nothing more: org-sync.sh leaves off before device-sync.mjs
\* when the box has no inbox, no key to it, or cannot pull.
FairSpec == Spec /\ \A p \in Proc : WF_vars(Step(p))
-----------------------------------------------------------------------------
RowType == [status : {"none", "active", "revoked"}, seen : 0..MaxSeen, key : BOOLEAN]
Process ==
    [op : {"none", "add", "revoke", "rename", "cascade", "sync", "drain"},
     pc : {"idle", "cascade", "read", "truncate", "write", "put", "gate", "list", "prev", "fill", "empty"},
     todo : SUBSET Device, dev : Device \cup {NoDevice}, row : RowType \cup {<<>>}, lines : SUBSET Device]

\* Every variable stays in its range.
TypeOK ==
    /\ rows \in [Device -> RowType] /\ twin \subseteq Device /\ door \subseteq Device
    /\ proc \in [Proc -> Process]
    /\ log \in [Device -> 0..MaxSeen] /\ took \in [Device -> 0..MaxSeen]
    /\ sighted \in [Device -> 0..MaxSeen]
    /\ shut \in BOOLEAN /\ granted \in BOOLEAN
    /\ calls \in 0..MaxCalls /\ faults \in 0..MaxFaults
    /\ {cut, raced, halved, missed, left} \subseteq SUBSET Device /\ peeked \in BOOLEAN

\* "a revoked row must block re-adoption" (device-sync.mjs:214): a revoked device stays
\* revoked, but for the moment its row is rewritten, and its key gets no second row,
\* whatever the org approved and whatever is stamped or renamed; unless two processes
\* wrote the row across each other, or one used it torn, or died having truncated it.
RevokedStays ==
    \A d \in cut \ (raced \cup halved) :
        /\ d \notin twin
        /\ rows[d].status = "revoked" \/ \E p \in Proc : At(p, "write") /\ proc[p].dev = d

\* "NEVER EMPTY A DOOR THAT CURRENTLY OPENS" (device-sync.mjs:331): revokes that
\* cross and an org that shuts the door leave a key in it; it is empty only between
\* truncation and write, or when a process looked at it, or died, just then.
DoorKept == door = {} => (peeked \/ \E p \in Proc : At(p, "fill"))

\* A sighting of an enrolled device reaches its row: it is there, or still in the log
\* (so a drain that dies between two rows reads it again), but for what the host wrote
\* while the drain ran, rows written across each other, and rows used torn or left so.
SightingsKept ==
    \A d \in Keyed \ (missed \cup raced \cup halved) : rows[d].seen < sighted[d] => log[d] > 0

\* "every machine that account enrolled has to go with it" (grants.mjs:122): with the
\* grant gone none of its devices is active once no cascade is under way, but for those
\* it died over, those enrolled later, rows written across each other and rows a
\* cascade, or who wrote them, met without their key and so without their account.
AccountIsCut ==
    ~granted => \/ \E p \in Cli : proc[p].op = "cascade"
                \/ OfAccount \cap Active \subseteq left \cup raced \cup halved

\* In the end the door holds the keys of the active devices, however many processes
\* wrote it from lists of different age or while a row was torn, where the sync pass
\* goes on running; one that is to hold none stays as it is, and every pass truncates
\* it for a moment.
DoorFollows ==
    []<><<Tick>>_vars =>
        <>[](shut \/ Active = {} \/ door = Active \/ \E p \in Proc : At(p, "fill"))
=============================================================================
