------------------------------- MODULE RunLedger -------------------------------
(* The run ledger of a box (engine/lib/run-ledger.mjs): rows appended by the      *)
(* kernel, the scheduler and Run now, the side map of the last row of each skill  *)
(* (or script), rotation, and what a reader is told.  appendRun has no await: in  *)
(* one process it is one block, between processes every system call is a step.    *)
EXTENDS Integers, SequencesExt

CONSTANTS
    Proc,       \* processes that may be in appendRun at the same time
    Skill,      \* skills or scripts, the keys of the side map
    None, Torn, \* no row; a file truncated and not yet written
    Keep,       \* LEDGER_KEEP
    Slack,      \* ROTATE_AT less LEDGER_KEEP
    MaxRows,    \* rows ever begun
    MaxDeaths

ASSUME KeepAssumption == Keep \in Nat \ {0} /\ Slack \in Nat /\ MaxRows \in Nat /\ MaxDeaths \in Nat
ASSUME NoneAssumption == None \notin Skill

\* A row: its skill (None for machinery) and its ts, the time its run began.
Row == [skill : Skill \cup {None}, ts : 1..MaxRows]
Rows == [Skill -> Row \cup {None}]
NoRows == [k \in Skill |-> None]

ASSUME NoneIsNoRow == None \notin Row /\ Torn \notin Rows

VARIABLES
    begun,      \* the clock: rows begun so far
    pc, row,    \* where a process is in appendRun, and with which row
    mine, keep, \* what it has read of the side map, what it will keep of the ledger
    lastRuns,   \* last-skill-runs.json
    ledger,     \* run-ledger.jsonl
    deaths,
    clash,      \* history: two processes were in appendRun at once, or one died in it
    recorded,   \* history: the row of each skill written last
    all         \* history: every row appended, in order

ledgerVars == <<begun, pc, row, mine, keep, lastRuns, ledger, deaths, clash, recorded, all>>

LedgerInit ==
    /\ begun = 0 /\ deaths = 0 /\ clash = FALSE
    /\ pc = [p \in Proc |-> "idle"] /\ row = [p \in Proc |-> None]
    /\ mine = [p \in Proc |-> NoRows] /\ keep = [p \in Proc |-> <<>>]
    /\ lastRuns = NoRows /\ recorded = NoRows /\ ledger = <<>> /\ all = <<>>

InAppend(p) == pc[p] \notin {"idle", "runs"}
Step(p, from, to) == pc[p] = from /\ pc' = [pc EXCEPT ![p] = to]

\* A job, a script or a machinery command begins: its row will carry this time.
Begin(p, k) ==
    /\ begun < MaxRows /\ begun' = begun + 1
    /\ Step(p, "idle", "runs")
    /\ row' = [row EXCEPT ![p] = [skill |-> k, ts |-> begun']]
    /\ UNCHANGED <<mine, keep, lastRuns, ledger, deaths, clash, recorded, all>>

\* It ends, and appendFileSync adds its row.
AppendRow(p) ==
    /\ Step(p, "runs", IF row[p].skill = None THEN "count" ELSE "readMap")
    /\ ledger' = Append(ledger, row[p]) /\ all' = Append(all, row[p])
    /\ clash' = (clash \/ \E q \in Proc \ {p} : InAppend(q))
    /\ UNCHANGED <<begun, row, mine, keep, lastRuns, deaths, recorded>>

\* The side map is read; one that does not parse counts as empty ...
ReadMap(p) ==
    /\ Step(p, "readMap", "truncMap")
    /\ mine' = [mine EXCEPT ![p] = IF lastRuns = Torn THEN NoRows ELSE lastRuns]
    /\ UNCHANGED <<begun, row, keep, lastRuns, ledger, deaths, clash, recorded, all>>

\* ... truncated ...
TruncMap(p) ==
    /\ Step(p, "truncMap", "writeMap") /\ lastRuns' = Torn
    /\ UNCHANGED <<begun, row, mine, keep, ledger, deaths, clash, recorded, all>>

\* ... and written with this row in it.
WriteMap(p) ==
    /\ Step(p, "writeMap", "count")
    /\ lastRuns' = [mine[p] EXCEPT ![row[p].skill] = row[p]]
    /\ recorded' = [recorded EXCEPT ![row[p].skill] = row[p]]
    /\ mine' = [mine EXCEPT ![p] = NoRows]
    /\ UNCHANGED <<begun, row, keep, ledger, deaths, clash, all>>

Newest(rows) == IF Len(rows) <= Keep THEN rows ELSE SubSeq(rows, Len(rows) - Keep + 1, Len(rows))

\* Mutant of Count: the oldest rows are kept.
CountOldest(p) ==
    /\ Step(p, "count", IF Len(ledger) > Keep + Slack THEN "rotate" ELSE "idle")
    /\ keep' = [keep EXCEPT ![p] = IF Len(ledger) > Keep + Slack THEN SubSeq(ledger, 1, Keep) ELSE <<>>]
    /\ row' = [row EXCEPT ![p] = None]
    /\ UNCHANGED <<begun, mine, lastRuns, ledger, deaths, clash, recorded, all>>

\* The ledger is read and its rows counted.
Count(p) ==
    /\ Step(p, "count", IF Len(ledger) > Keep + Slack THEN "rotate" ELSE "idle")
    /\ keep' = [keep EXCEPT ![p] = IF Len(ledger) > Keep + Slack THEN Newest(ledger) ELSE <<>>]
    /\ row' = [row EXCEPT ![p] = None]
    /\ UNCHANGED <<begun, mine, lastRuns, ledger, deaths, clash, recorded, all>>

\* Too many: the file is truncated, and the newest that were read are written back.
Rotate(p) ==
    /\ \/ Step(p, "rotate", "rewrite") /\ ledger' = <<>> /\ UNCHANGED keep
       \/ Step(p, "rewrite", "idle") /\ ledger' = keep[p] /\ keep' = [keep EXCEPT ![p] = <<>>]
    /\ UNCHANGED <<begun, row, mine, lastRuns, deaths, clash, recorded, all>>

\* The process is killed.
Die(p) ==
    /\ pc[p] # "idle" /\ deaths < MaxDeaths /\ deaths' = deaths + 1
    /\ clash' = (clash \/ InAppend(p))
    /\ pc' = [pc EXCEPT ![p] = "idle"] /\ row' = [row EXCEPT ![p] = None]
    /\ mine' = [mine EXCEPT ![p] = NoRows] /\ keep' = [keep EXCEPT ![p] = <<>>]
    /\ UNCHANGED <<begun, lastRuns, ledger, recorded, all>>

LedgerNext ==
    \E p \in Proc :
       \/ \E k \in Skill \cup {None} : Begin(p, k)
       \/ AppendRow(p) \/ ReadMap(p) \/ TruncMap(p) \/ WriteMap(p) \/ Count(p) \/ Rotate(p) \/ Die(p)

LedgerSpec == LedgerInit /\ [][LedgerNext]_ledgerVars
-----------------------------------------------------------------------------
(* Readers.                                                                    *)

\* Mutant of LastRunBySkill: the side map hides the ledger.
LastFromMap(k) == IF lastRuns # Torn THEN lastRuns[k] ELSE None

\* A reader's row r of k replaces what it has seen, when it is at least as new.
Take(k, seen, r) == IF r.skill = k /\ (seen = None \/ r.ts >= seen.ts) THEN r ELSE seen

\* lastRunBySkill: the side map's row, unless one of the rows readRuns gives (the newest
\* LEDGER_KEEP, whatever the file holds) is at least as new.
LastRunBySkill(k) ==
    LET rows == Newest(ledger)
        seen[i \in 0..Len(rows)] ==
            IF i > 0 THEN Take(k, seen[i - 1], rows[i])
            ELSE IF lastRuns # Torn THEN lastRuns[k] ELSE None
    IN seen[Len(rows)]

Settled == \A p \in Proc : ~InAppend(p)

\* Every variable stays in its range; the files hold whole rows or nothing.
LedgerTypeOK ==
    /\ begun \in 0..MaxRows /\ deaths \in 0..MaxDeaths /\ clash \in BOOLEAN
    /\ pc \in [Proc -> {"idle", "runs", "readMap", "truncMap", "writeMap", "count", "rotate", "rewrite"}]
    /\ row \in [Proc -> Row \cup {None}] /\ mine \in [Proc -> Rows]
    /\ lastRuns \in Rows \cup {Torn} /\ recorded \in Rows
    /\ ledger \in Seq(Row) /\ all \in Seq(Row) /\ keep \in [Proc -> Seq(Row)]
    /\ \A p \in Proc :
        /\ pc[p] \in {"runs", "count"} => row[p] \in Row
        /\ pc[p] \in {"readMap", "truncMap", "writeMap"} => row[p] \in Row /\ row[p].skill \in Skill

\* "rotation cannot touch it" (run-ledger.mjs:57): as long as no two processes ever
\* were in appendRun at once and none died in it, the side map holds the last row
\* written for every skill, rotated out or not.
LastRunsKept == ~clash /\ Settled => lastRuns = recorded

\* ... and the ledger shows the newest of all rows, in order, Keep of them at least,
\* and never outgrows its limit: rotation drops the old ones and no others.
Shows(rows) ==
    /\ Len(rows) <= Len(all) /\ (Len(rows) = Len(all) \/ Keep <= Len(rows))
    /\ \A i \in 1..Len(rows) : rows[i] = all[Len(all) - Len(rows) + i]
NewestRowsKept == ~clash /\ Settled => Shows(ledger) /\ Len(ledger) <= Keep + Slack

\* Both: one process at a time, appendRun loses no row that matters.
RowsKept == LastRunsKept /\ NewestRowsKept

\* Even where processes overlapped or died, what the ledger still shows is what a
\* reader is told: never an answer older than a row it has seen.
AnswerNotStale ==
    LET rows == Newest(ledger) IN
    \A k \in Skill : \A i \in DOMAIN rows :
        rows[i].skill = k => (LastRunBySkill(k) # None /\ LastRunBySkill(k).ts >= rows[i].ts)
=============================================================================
