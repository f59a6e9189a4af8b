------------------------------ MODULE CronProofs ------------------------------
(***************************************************************************)
(* Proofs about what a box does by the clock, for any jobs, skills and     *)
(* numbers of processes and deaths: the scheduler's table (Scheduler), and *)
(* the ledger of the runs it starts (RunLedger).                           *)
(*                                                                         *)
(* The scheduler's inductive invariant, SchedulerInv, says that nothing is *)
(* fired in a minute before it is evaluated (FiredOK), and of what has     *)
(* been due since the minute began that it is due still and was fired      *)
(* where the minute was evaluated (WholeOK).  The arithmetic of the day    *)
(* comes first: minutes go round it, and a step leads to another minute.   *)
(*                                                                         *)
(* In the ledger, as long as processes were in appendRun one at a time and *)
(* none died in it, what the one inside holds in its hands (the side map   *)
(* it read, the rows it will write back) is what the files held, or must   *)
(* come to hold: the invariants say so step by step of appendRun.          *)
(***************************************************************************)
EXTENDS Scheduler, RunLedger, SequenceTheorems, WellFoundedInduction, TLAPS

-----------------------------------------------------------------------------
(* The scheduler.                                                          *)

\* In a minute that has not been evaluated, and before the first start, nothing is fired.
NotYet ==
    \/ up /\ New
    \/ ~up /\ used["down"] = 0
FiredOK == NotYet => \A j \in Job : fired[j] = 0

\* What has been due since the minute began is due; it has been fired where the minute
\* has been evaluated; and there is none of it while the scheduler is down or shut.
WholeOK ==
    /\ whole \subseteq DueAt(date, minute)
    /\ ~up \/ moving => whole = {}
    /\ up /\ ~New => \A j \in whole : fired[j] > 0

SchedulerInv == TypeOK /\ FiredOK /\ OnceAMinute /\ WholeOK

-----------------------------------------------------------------------------
(* The clock.                                                              *)

\* Remainders of a number that is less than a day away from the day.
LEMMA WithinTheDay ==
    ASSUME NEW a \in Int, 0 <= a, a < DayLength
    PROVE  a % DayLength = a
  BY DayAssumption

LEMMA NextDay ==
    ASSUME NEW a \in Int, DayLength <= a, a < DayLength + DayLength
    PROVE  a % DayLength = a - DayLength
  BY DayAssumption

LEMMA DayBefore ==
    ASSUME NEW a \in Int, -DayLength <= a, a < 0
    PROVE  a % DayLength = a + DayLength
  BY DayAssumption

\* A minute that follows another is another one.
LEMMA NextMinute ==
    ASSUME NEW m \in Minute
    PROVE  (m + 1) % DayLength \in Minute /\ (m + 1) % DayLength # m
<1> USE DayAssumption DEF Minute
<1>1. CASE m + 1 < DayLength
  BY <1>1, WithinTheDay, NextDay, DayBefore
<1>2. CASE m + 1 = DayLength
  BY <1>2, WithinTheDay, NextDay, DayBefore
<1> QED BY <1>1, <1>2

\* The quiet hours, counted on from their beginning, are what inQuiet says they are.
LEMMA QuietHours ==
    ASSUME NEW i \in 0..(DayLength - 1), Quiet # <<>>,
           i < (Quiet[2] - Quiet[1]) % DayLength
    PROVE  inQuiet(Quiet, (Quiet[1] + i) % DayLength)
<1> USE DayAssumption DEF Minute
<1>1. PICK q1 \in Minute, q2 \in 0..DayLength : Quiet = <<q1, q2>>
  BY SchedulerAssumption
<1>2. Quiet[1] = q1 /\ Quiet[2] = q2
  BY <1>1
<1>3. CASE q1 <= q2
  <2>1. (q2 - q1) % DayLength <= q2 - q1
    BY <1>3, WithinTheDay, NextDay, DayBefore
  <2>2. q1 + i \in 0..(DayLength - 1)
    BY <1>2, <2>1
  <2>3. (q1 + i) % DayLength = q1 + i
    BY <2>2, WithinTheDay, NextDay, DayBefore
  <2> QED BY <1>2, <1>3, <2>1, <2>3 DEF inQuiet
<1>4. CASE q1 > q2
  <2>1. (q2 - q1) % DayLength = q2 - q1 + DayLength
    BY <1>4, WithinTheDay, NextDay, DayBefore
  <2>2. CASE q1 + i < DayLength
    <3>1. (q1 + i) % DayLength = q1 + i
      BY <2>2, WithinTheDay, NextDay, DayBefore
    <3> QED BY <1>2, <1>4, <3>1 DEF inQuiet
  <2>3. CASE q1 + i >= DayLength
    <3>1. (q1 + i) % DayLength = q1 + i - DayLength
      BY <2>3, WithinTheDay, NextDay, DayBefore
    <3> QED BY <1>2, <1>4, <2>1, <3>1 DEF inQuiet
  <2> QED BY <2>2, <2>3
<1> QED BY <1>3, <1>4

-----------------------------------------------------------------------------
(* Type correctness.                                                       *)

LEMMA KeyIsNoNoKey ==
    ASSUME date \in 0..(Dates - 1), minute \in Minute
    PROVE  Key \in DAY_KEYS \X Minute /\ Key # NoKey
<1>1. date % Week \in DAY_KEYS
  BY DayAssumption, SchedulerAssumption DEF DAY_KEYS
<1> QED BY <1>1 DEF Key, NoKey

LEMMA BoundIs ==
    /\ DOMAIN Bound = {"down", "move", "edit"}
    /\ \A b \in DOMAIN Bound : Bound[b] \in Nat
  BY SchedulerAssumption DEF Bound

UsedOK == used \in [DOMAIN Bound -> Nat] /\ \A b \in DOMAIN Bound : used[b] <= Bound[b]

LEMMA TypeInit == Init => TypeOK
<1> SUFFICES ASSUME Init PROVE TypeOK
  OBVIOUS
<1>1. date \in 0..(Dates - 1) /\ minute \in Minute
  BY DayAssumption, SchedulerAssumption DEF Init, Minute
<1>2. UsedOK
  BY BoundIs DEF Init, UsedOK
<1>3. up = FALSE /\ booted = FALSE /\ last = NoKey
  BY DEF Init
<1>4. fired \in [Job -> 0..2] /\ whole \subseteq Job /\ child \subseteq {"enqueue", "drain"}
  BY DEF Init
<1>5. queue \subseteq {"skill", "message"} /\ beat \in BOOLEAN /\ script \in BOOLEAN
  BY DEF Init
<1>6. lock \in BOOLEAN /\ moving \in BOOLEAN /\ mark \in BOOLEAN /\ restarted \in BOOLEAN
  BY DEF Init
<1>7. entry \in Entries /\ profile \in Profiles /\ comms \in Comms
  BY DEF Init
<1> QED BY <1>1, <1>2, <1>3, <1>4, <1>5, <1>6, <1>7 DEF TypeOK, UsedOK

\* What Use leaves of the counters is within their bounds.
LEMMA UseType ==
    ASSUME TypeOK, NEW what \in DOMAIN Bound, Use(what)
    PROVE  UsedOK'
  BY BoundIs DEF Use, UsedOK, TypeOK

LEMMA EvaluateType ==
    ASSUME TypeOK, NEW first, Evaluate(first), up'
    PROVE  /\ last' \in DAY_KEYS \X Minute /\ last' # NoKey
           /\ lock' \in BOOLEAN /\ beat' \in BOOLEAN
           /\ child' \subseteq {"enqueue", "drain"}
           /\ fired' \in [Job -> 0..2]
           /\ UNCHANGED <<clock, files, queue, whole, used>>
  BY KeyIsNoNoKey DEF TypeOK, Evaluate, Fire

LEMMA TypeStep == TypeOK /\ [Next]_vars => TypeOK'
<1> SUFFICES ASSUME TypeOK, [Next]_vars PROVE TypeOK'
  OBVIOUS
<1> USE DEF TypeOK, UsedOK, clock, running, files, history
<1>1. CASE Tick
  BY <1>1, EvaluateType DEF Tick
<1>2. CASE Start
  <2>1. restarted' \in BOOLEAN /\ up' = TRUE /\ booted' = FALSE
    BY <1>2 DEF Start
  <2>2. PICK first : Evaluate(first)
    BY <1>2 DEF Start
  <2> QED BY <2>1, <2>2, EvaluateType
<1>3. CASE Enqueue
  BY <1>3 DEF Enqueue
<1>4. CASE Drain \/ DaemonDrains
  <2>1. Served \subseteq {"skill", "message"}
    BY DEF Served
  <2>2. child' \subseteq {"enqueue", "drain"} /\ queue' \subseteq {"skill", "message"}
    BY <1>4, <2>1 DEF Drain, DaemonDrains
  <2> QED BY <1>4, <2>2 DEF Drain, DaemonDrains
<1>5. CASE Emit
  BY <1>5 DEF Emit
<1>6. CASE Message
  BY <1>6 DEF Message
<1>7. CASE TakeLock
  BY <1>7 DEF TakeLock
<1>8. CASE Down
  <2>1. UsedOK'
    BY <1>8, UseType, BoundIs DEF Down
  <2> QED BY <1>8, <2>1 DEF Down
<1>9. CASE Edit
  <2>1. UsedOK'
    BY <1>9, UseType, BoundIs DEF Edit
  <2> QED BY <1>9, <2>1 DEF Edit
<1>10. CASE Move
  <2>1. UsedOK'
    BY <1>10, BoundIs DEF Move, Bound
  <2> QED BY <1>10, <2>1 DEF Move
<1>11. CASE Pass
  <2>1. minute' \in Minute
    BY <1>11, NextMinute DEF Pass
  <2>2. date' \in 0..(Dates - 1)
    BY <1>11, SchedulerAssumption DEF Pass
  <2>3. whole' \subseteq Job
    BY <1>11 DEF Pass, DueAt
  <2>4. fired' \in [Job -> 0..2] /\ restarted' \in BOOLEAN
    <3>1. fired' = [j \in Job |-> 0] /\ restarted' = FALSE
      BY <1>11 DEF Pass
    <3>2. [j \in Job |-> 0] \in [Job -> 0..2]
      OBVIOUS
    <3> QED BY <3>1, <3>2
  <2> QED BY <1>11, <2>1, <2>2, <2>3, <2>4 DEF Pass
<1>12. CASE UNCHANGED vars
  BY <1>12 DEF vars
<1> QED
  BY <1>1, <1>2, <1>3, <1>4, <1>5, <1>6, <1>7, <1>8, <1>9, <1>10, <1>11, <1>12 DEF Next

-----------------------------------------------------------------------------
(* How often a job is fired.                                               *)

\* Where the clock, the history of the minute and whether it has been evaluated stay,
\* so does what is known of the firings.
LEMMA FiredKept ==
    ASSUME UNCHANGED <<clock, last, up, fired>>, FiredOK,
           used'["down"] = used["down"]
    PROVE  FiredOK'
  BY DEF FiredOK, NotYet, New, Key, clock

LEMMA FiredStep ==
    ASSUME TypeOK, FiredOK, OnceAMinute, [Next]_vars
    PROVE  FiredOK' /\ OnceAMinute'
<1> USE DEF TypeOK, OnceAMinute, clock, running, files, history
<1>1. CASE Tick
  <2>1. \A j \in Job : fired[j] = 0
    BY <1>1 DEF Tick, FiredOK, NotYet
  <2>2. \A j \in Job : fired'[j] \in {0, 1}
    BY <1>1, <2>1 DEF Tick, Evaluate, Fire
  <2>3. up' /\ ~New'
    BY <1>1 DEF Tick, Evaluate, New, Key
  <2>4. FiredOK'
    BY <2>3 DEF FiredOK, NotYet
  <2> QED BY <2>2, <2>4
<1>2. CASE Start
  <2>1. up' /\ ~New'
    BY <1>2 DEF Start, Evaluate, New, Key
  <2>2. FiredOK'
    BY <2>1 DEF FiredOK, NotYet
  <2>3. CASE used["down"] > 0
    BY <1>2, <2>2, <2>3 DEF Start
  <2>4. CASE ~(used["down"] > 0)
    <3>1. \A j \in Job : fired[j] = 0
      BY <1>2, <2>4, BoundIs DEF Start, FiredOK, NotYet
    <3>2. DueAt(date, minute) \cap FirstBeat = {}
      BY DEF FirstBeat
    <3>3. \A j \in Job : fired'[j] \in {0, 1}
      BY <1>2, <3>1, <3>2 DEF Start, Evaluate, Fire
    <3> QED BY <2>2, <3>3
  <2> QED BY <2>3, <2>4
<1>3. CASE Enqueue \/ Drain \/ Emit \/ Message \/ DaemonDrains \/ TakeLock
  <2>1. UNCHANGED <<clock, last, up, fired, restarted, used>>
    BY <1>3 DEF Enqueue, Drain, Emit, Message, DaemonDrains, TakeLock
  <2> QED BY <2>1, FiredKept
<1>4. CASE Down
  <2>1. used'["down"] > 0 /\ ~up' /\ UNCHANGED <<fired, restarted>>
    BY <1>4, BoundIs DEF Down, Use
  <2> QED BY <2>1 DEF FiredOK, NotYet
<1>5. CASE Edit \/ Move
  <2>1. UNCHANGED <<clock, last, up, fired, restarted>>
    BY <1>5 DEF Edit, Move
  <2>2. used'["down"] = used["down"]
    BY <1>5, BoundIs DEF Edit, Move, Use
  <2> QED BY <2>1, <2>2, FiredKept
<1>6. CASE Pass
  BY <1>6 DEF Pass, FiredOK
<1>7. CASE UNCHANGED vars
  BY <1>7, FiredKept DEF vars
<1> QED BY <1>1, <1>2, <1>3, <1>4, <1>5, <1>6, <1>7 DEF Next

-----------------------------------------------------------------------------
(* What is due.                                                            *)

\* The next minute has another key, so it is still to be evaluated.
LEMMA PassIsNew ==
    ASSUME TypeOK, Pass, up
    PROVE  New'
<1>1. minute' # minute
  BY NextMinute DEF Pass, TypeOK
<1>2. Key = last /\ last' = last
  BY DEF Pass, New, running
<1> QED BY <1>1, <1>2 DEF New, Key

\* What is due depends on the clock and the entry.
LEMMA DueKept ==
    ASSUME UNCHANGED <<date, minute, entry>>
    PROVE  DueAt(date, minute)' = DueAt(date, minute)
  BY DEF DueAt, On, Schedule

LEMMA WholeStep ==
    ASSUME TypeOK, WholeOK, [Next]_vars
    PROVE  WholeOK'
<1> USE DEF TypeOK, clock, running, files, history
<1>1. ASSUME NEW first, Evaluate(first), up' = TRUE, ~up => whole = {}
      PROVE  WholeOK'
  <2>1. UNCHANGED <<date, minute, entry, moving, whole>>
    BY <1>1 DEF Evaluate
  <2>2. whole \subseteq DueAt(date, minute) /\ (moving => whole = {})
    BY DEF WholeOK
  <2>3. \A j \in whole : fired'[j] > 0
    BY <1>1, <2>2 DEF Evaluate, Fire
  <2> QED BY <1>1, <2>1, <2>2, <2>3, DueKept DEF WholeOK
<1>2. CASE Tick
  BY <1>1, <1>2 DEF Tick
<1>3. CASE Start
  BY <1>1, <1>3 DEF Start, WholeOK
<1>4. CASE Enqueue \/ Drain \/ Emit \/ Message \/ DaemonDrains \/ TakeLock \/ UNCHANGED vars
  <2>1. UNCHANGED <<date, minute, entry, up, last, moving, whole, fired>>
    BY <1>4 DEF Enqueue, Drain, Emit, Message, DaemonDrains, TakeLock, vars
  <2> QED BY <2>1, DueKept DEF WholeOK, New, Key
<1>5. CASE Down \/ Edit \/ Move
  <2>1. whole' = {}
    BY <1>5 DEF Down, Edit, Move
  <2> QED BY <2>1 DEF WholeOK
<1>6. CASE Pass
  <2>1. /\ whole' \subseteq DueAt(date', minute')
        /\ ~up \/ moving => whole' = {}
        /\ up' = up /\ moving' = moving /\ entry' = entry
    BY <1>6 DEF Pass
  <2>2. DueAt(date, minute)' = DueAt(date', minute')
    BY <2>1 DEF DueAt, On, Schedule
  <2> QED BY <1>6, <2>1, <2>2, PassIsNew DEF WholeOK
<1> QED BY <1>2, <1>3, <1>4, <1>5, <1>6 DEF Next

-----------------------------------------------------------------------------
(* The invariant, and the theorems.                                        *)

LEMMA SchedulerInit == Init => SchedulerInv
<1> SUFFICES ASSUME Init PROVE FiredOK /\ OnceAMinute /\ WholeOK
  BY TypeInit DEF SchedulerInv
<1>1. ~up /\ whole = {} /\ \A j \in Job : fired[j] = 0
  BY DEF Init
<1> QED BY <1>1 DEF FiredOK, OnceAMinute, WholeOK

LEMMA SchedulerStep == SchedulerInv /\ [Next]_vars => SchedulerInv'
  BY TypeStep, FiredStep, WholeStep DEF SchedulerInv

\* An interval that is due and heeds the quiet hours is not in them.
LEMMA DueIsNotQuiet ==
    ASSUME SchedulerInv
    PROVE  QuietIsKept
<1> SUFFICES ASSUME "skill" \in whole, Schedule.kind = "every", Schedule.quiet,
                    NEW i \in 0..(DayLength - 1),
                    Quiet # <<>>, i < (Quiet[2] - Quiet[1]) % DayLength,
                    minute = (Quiet[1] + i) % DayLength
             PROVE  FALSE
  BY DEF QuietIsKept
<1>1. "skill" \in DueAt(date, minute)
  BY DEF SchedulerInv, WholeOK
<1>2. Due(Schedule, date, minute, Quiet)
  BY <1>1 DEF DueAt, scheduleMatches
<1>3. ~inQuiet(Quiet, minute)
  BY <1>2 DEF Due
<1> QED BY <1>3, QuietHours

\* However often the scheduler looks at the clock, a job is fired once in its minute, the
\* first start's heartbeat included, unless it was started again in it; and an interval
\* is silent in the quiet hours, over midnight too.
THEOREM OnceAMinuteAndQuiet == Spec => []Inv
<1>1. SchedulerInv => Inv
  BY DueIsNotQuiet DEF SchedulerInv, Inv
<1> QED BY <1>1, SchedulerInit, SchedulerStep, PTL DEF Spec

\* What was due when a minute began, with the scheduler up and nothing in the way, has
\* been fired when the minute ends.
THEOREM DueIsFired == Spec => NoDueMinuteIsMissed
<1>1. SchedulerInv /\ [Next]_vars => [Pass => \A j \in whole : fired[j] > 0]_vars
  BY DEF SchedulerInv, WholeOK, Pass
<1> QED BY <1>1, SchedulerInit, SchedulerStep, PTL DEF Spec, NoDueMinuteIsMissed

-----------------------------------------------------------------------------
(* The run ledger.                                                         *)

\* What rotation keeps are the last rows of what it read, Keep at the most.
LEMMA NewestRows ==
    ASSUME NEW rows \in Seq(Row)
    PROVE  /\ Newest(rows) \in Seq(Row)
           /\ Len(Newest(rows)) = (IF Len(rows) <= Keep THEN Len(rows) ELSE Keep)
           /\ \A i \in 1..Len(Newest(rows)) :
                 Newest(rows)[i] = rows[Len(rows) - Len(Newest(rows)) + i]
<1> USE KeepAssumption DEF KeepAssumption
<1>1. CASE Len(rows) <= Keep
  BY <1>1 DEF Newest
<1>2. CASE Len(rows) > Keep
  <2> DEFINE m == Len(rows) - Keep + 1
  <2>1. m \in Int /\ Len(rows) \in Int /\ Len(rows) - m + 1 = Keep /\ m <= Len(rows)
    BY <1>2
  <2>2. \A i \in m..Len(rows) : rows[i] \in Row
    BY <1>2, LenProperties
  <2> HIDE DEF m
  <2>3. /\ SubSeq(rows, m, Len(rows)) \in Seq(Row) /\ Len(SubSeq(rows, m, Len(rows))) = Keep
        /\ \A i \in 1..Keep : SubSeq(rows, m, Len(rows))[i] = rows[m + i - 1]
    BY <2>1, <2>2, SubSeqProperties
  <2>4. Newest(rows) = SubSeq(rows, m, Len(rows)) /\ ~(Len(rows) <= Keep)
    BY <1>2 DEF Newest, m
  <2>5. \A i \in 1..Keep : m + i - 1 = Len(rows) - Keep + i
    BY DEF m
  <2> QED BY <2>3, <2>4, <2>5
<1> QED BY <1>1, <1>2

\* The types hold initially and are kept by every step.
LEMMA LedgerTypeInit == LedgerInit => LedgerTypeOK
<1> SUFFICES ASSUME LedgerInit PROVE LedgerTypeOK
  OBVIOUS
<1>1. <<>> \in Seq(Row) /\ NoRows \in Rows
  BY EmptySeq DEF NoRows, Rows
<1>2. keep \in [Proc -> Seq(Row)] /\ ledger \in Seq(Row) /\ all \in Seq(Row)
  BY <1>1, Zenon DEF LedgerInit
<1>3. begun \in 0..MaxRows /\ deaths \in 0..MaxDeaths
  BY KeepAssumption DEF KeepAssumption, LedgerInit
<1> QED BY <1>1, <1>2, <1>3 DEF LedgerInit, LedgerTypeOK

LEMMA LedgerTypeStep == LedgerTypeOK /\ [LedgerNext]_ledgerVars => LedgerTypeOK'
<1> SUFFICES ASSUME LedgerTypeOK, [LedgerNext]_ledgerVars PROVE LedgerTypeOK'
  OBVIOUS
<1> USE KeepAssumption, NoneAssumption, NoneIsNoRow DEF KeepAssumption, NoneAssumption, NoneIsNoRow, LedgerTypeOK, Step
<1>0. <<>> \in Seq(Row) /\ NoRows \in Rows
  BY EmptySeq DEF NoRows, Rows
<1>1. CASE UNCHANGED ledgerVars
  BY <1>1 DEF ledgerVars
<1>2. ASSUME NEW p \in Proc, NEW k \in Skill \cup {None}, Begin(p, k) PROVE LedgerTypeOK'
  <2>1. begun' \in 1..MaxRows
    BY <1>2 DEF Begin
  <2>2. [skill |-> k, ts |-> begun'] \in Row
    BY <2>1 DEF Row
  <2> QED BY <1>2, <2>1, <2>2 DEF Begin
<1>3. ASSUME NEW p \in Proc, AppendRow(p) PROVE LedgerTypeOK'
  <2>1. row[p] \in Row /\ (row[p].skill # None => row[p].skill \in Skill)
    BY <1>3 DEF AppendRow, Row
  <2>2. ledger' \in Seq(Row) /\ all' \in Seq(Row)
    BY <1>3, <2>1 DEF AppendRow
  <2>3. pc' \in [Proc -> {"idle", "runs", "readMap", "truncMap", "writeMap", "count", "rotate", "rewrite"}]
    BY <1>3 DEF AppendRow
  <2> QED BY <1>3, <2>1, <2>2, <2>3 DEF AppendRow
<1>4. ASSUME NEW p \in Proc, ReadMap(p) PROVE LedgerTypeOK'
  BY <1>4 DEF ReadMap, Rows, NoRows
<1>5. ASSUME NEW p \in Proc, TruncMap(p) PROVE LedgerTypeOK'
  BY <1>5 DEF TruncMap
<1>6. ASSUME NEW p \in Proc, WriteMap(p) PROVE LedgerTypeOK'
  BY <1>6 DEF WriteMap, Rows, NoRows
<1>7. ASSUME NEW p \in Proc, Count(p) PROVE LedgerTypeOK'
  BY <1>0, <1>7, NewestRows DEF Count
<1>8. ASSUME NEW p \in Proc, Rotate(p) PROVE LedgerTypeOK'
  <2>1. keep' \in [Proc -> Seq(Row)] /\ ledger' \in Seq(Row)
    <3>1. keep \in [Proc -> Seq(Row)] /\ keep[p] \in Seq(Row) /\ ledger \in Seq(Row)
      OBVIOUS
    <3>2. \/ ledger' = <<>> /\ keep' = keep
          \/ ledger' = keep[p] /\ keep' = [keep EXCEPT ![p] = <<>>]
      BY <1>8 DEF Rotate
    <3> HIDE DEF LedgerTypeOK
    <3> QED BY <1>0, <3>1, <3>2
  <2>2. pc' \in [Proc -> {"idle", "runs", "readMap", "truncMap", "writeMap", "count", "rotate", "rewrite"}]
    BY <1>8 DEF Rotate
  <2> QED BY <1>8, <2>1, <2>2 DEF Rotate
<1>9. ASSUME NEW p \in Proc, Die(p) PROVE LedgerTypeOK'
  <2>1. keep' \in [Proc -> Seq(Row)]
    BY <1>0, <1>9 DEF Die
  <2>2. mine' \in [Proc -> Rows] /\ deaths' \in 0..MaxDeaths /\ clash' \in BOOLEAN
    BY <1>0, <1>9 DEF Die
  <2> QED BY <1>9, <2>1, <2>2 DEF Die
<1> QED BY <1>1, <1>2, <1>3, <1>4, <1>5, <1>6, <1>7, <1>8, <1>9 DEF LedgerNext

\* The run ledger's variables keep their types.
THEOREM LedgerTypeCorrect == LedgerSpec => []LedgerTypeOK
BY LedgerTypeInit, LedgerTypeStep, PTL DEF LedgerSpec

-----------------------------------------------------------------------------
(* The side map.                                                               *)

\* Of the processes that were never in appendRun at once, the one inside has
\* what was recorded so far in the side map or in its hands.
OneInside ==
    ~clash => \A p, q \in Proc : InAppend(p) /\ InAppend(q) => p = q
MapInHand ==
    ~clash =>
        /\ (\A p \in Proc : pc[p] # "writeMap") => lastRuns = recorded
        /\ \A p \in Proc : pc[p] \in {"truncMap", "writeMap"} => mine[p] = recorded

LEMMA OneInsideStep == LedgerTypeOK /\ OneInside /\ [LedgerNext]_ledgerVars => OneInside'
<1> SUFFICES ASSUME LedgerTypeOK, OneInside, [LedgerNext]_ledgerVars, ~clash',
                    NEW p \in Proc, NEW q \in Proc, InAppend(p)', InAppend(q)'
             PROVE  p = q
  BY DEF OneInside
<1> USE DEF LedgerTypeOK, OneInside, InAppend, Step
<1>1. CASE UNCHANGED ledgerVars
  BY <1>1 DEF ledgerVars
<1>2. ASSUME NEW r \in Proc, NEW k \in Skill \cup {None}, Begin(r, k) PROVE p = q
  BY <1>2 DEF Begin
<1>3. ASSUME NEW r \in Proc, AppendRow(r) PROVE p = q
  BY <1>3 DEF AppendRow
<1>4. ASSUME NEW r \in Proc, ReadMap(r) \/ TruncMap(r) \/ WriteMap(r) PROVE p = q
  BY <1>4 DEF ReadMap, TruncMap, WriteMap
<1>5. ASSUME NEW r \in Proc, Count(r) \/ Rotate(r) PROVE p = q
  BY <1>5 DEF Count, Rotate
<1>6. ASSUME NEW r \in Proc, Die(r) PROVE p = q
  BY <1>6 DEF Die
<1> QED BY <1>1, <1>2, <1>3, <1>4, <1>5, <1>6 DEF LedgerNext

LEMMA MapStep == LedgerTypeOK /\ OneInside /\ MapInHand /\ [LedgerNext]_ledgerVars => MapInHand'
<1> SUFFICES ASSUME LedgerTypeOK, OneInside, MapInHand, [LedgerNext]_ledgerVars, ~clash'
             PROVE  MapInHand'
  BY DEF MapInHand
<1> USE DEF LedgerTypeOK, OneInside, InAppend, Step, MapInHand
<1>1. CASE UNCHANGED ledgerVars
  BY <1>1 DEF ledgerVars
<1>2. ASSUME NEW r \in Proc, NEW k \in Skill \cup {None}, Begin(r, k) PROVE MapInHand'
  BY <1>2 DEF Begin
<1>3. ASSUME NEW r \in Proc, AppendRow(r) PROVE MapInHand'
  BY <1>3 DEF AppendRow
<1>4. ASSUME NEW r \in Proc, ReadMap(r) PROVE MapInHand'
  <2>1. lastRuns = recorded /\ recorded # Torn
    BY <1>4, NoneIsNoRow DEF ReadMap, NoneIsNoRow
  <2> QED BY <1>4, <2>1 DEF ReadMap
<1>5. ASSUME NEW r \in Proc, TruncMap(r) PROVE MapInHand'
  BY <1>5 DEF TruncMap
<1>6. ASSUME NEW r \in Proc, WriteMap(r) PROVE MapInHand'
  <2>1. lastRuns' = recorded' /\ \A p \in Proc : pc'[p] \notin {"truncMap", "writeMap"}
    BY <1>6 DEF WriteMap
  <2> QED BY <2>1
<1>7. ASSUME NEW r \in Proc, Count(r) \/ Rotate(r) PROVE MapInHand'
  BY <1>7 DEF Count, Rotate
<1>8. ASSUME NEW r \in Proc, Die(r) PROVE MapInHand'
  BY <1>8 DEF Die
<1> QED BY <1>1, <1>2, <1>3, <1>4, <1>5, <1>6, <1>7, <1>8 DEF LedgerNext

\* "rotation cannot touch it": with appendRun run by one process at a time, to its
\* end, the side map holds the last row written for every skill.
THEOREM LastRowsAreKept == LedgerSpec => []LastRunsKept
<1>1. LedgerInit => OneInside /\ MapInHand
  BY DEF LedgerInit, OneInside, MapInHand, InAppend
<1>2. MapInHand => LastRunsKept
  BY DEF MapInHand, LastRunsKept, Settled, InAppend
<1> QED BY LedgerTypeInit, LedgerTypeStep, OneInsideStep, MapStep, <1>1, <1>2, PTL DEF LedgerSpec

-----------------------------------------------------------------------------
(* The ledger and its rotation.                                                *)

\* In the same case the ledger, or what is about to be written back into it, are
\* the last of all rows.
RowsInHand ==
    ~clash =>
        /\ (\A p \in Proc : pc[p] # "rewrite") => Shows(ledger)
        /\ \A p \in Proc : pc[p] \in {"rotate", "rewrite"} => Shows(keep[p]) /\ Len(keep[p]) <= Keep
        /\ Settled => Len(ledger) <= Keep + Slack

\* A row appended to the end of both is the last of both.
LEMMA ShowsAppended ==
    ASSUME NEW rows \in Seq(Row), NEW r \in Row, all \in Seq(Row), Shows(rows), all' = Append(all, r)
    PROVE  /\ Len(Append(rows, r)) <= Len(all')
           /\ Len(Append(rows, r)) = Len(all') \/ Keep <= Len(Append(rows, r))
           /\ \A i \in 1..Len(Append(rows, r)) :
                 Append(rows, r)[i] = all'[Len(all') - Len(Append(rows, r)) + i]
<1> USE KeepAssumption DEF KeepAssumption
<1>1. Len(Append(rows, r)) = Len(rows) + 1 /\ Len(all') = Len(all) + 1
  OBVIOUS
<1>2. Len(rows) <= Len(all) /\ (Len(rows) = Len(all) \/ Keep <= Len(rows))
  BY DEF Shows
<1>3. ASSUME NEW i \in 1..Len(Append(rows, r))
      PROVE  Append(rows, r)[i] = all'[Len(all') - Len(Append(rows, r)) + i]
  <2>1. CASE i = Len(rows) + 1
    BY <1>1, <2>1
  <2>2. CASE i \in 1..Len(rows)
    <3>1. Append(rows, r)[i] = rows[i] /\ rows[i] = all[Len(all) - Len(rows) + i]
      BY <2>2 DEF Shows
    <3>2. Len(all) - Len(rows) + i \in 1..Len(all)
      BY <1>2, <2>2
    <3>3. Len(all') - Len(Append(rows, r)) + i = Len(all) - Len(rows) + i
      BY <1>1, <2>2
    <3>4. Append(all, r)[Len(all) - Len(rows) + i] = all[Len(all) - Len(rows) + i]
      BY <3>2
    <3> QED BY <3>1, <3>3, <3>4
  <2>3. i = Len(rows) + 1 \/ i \in 1..Len(rows)
    <3>1. Len(rows) \in Nat /\ i \in 1..(Len(rows) + 1)
      BY <1>1
    <3> QED BY <3>1
  <2> QED BY <2>1, <2>2, <2>3, Zenon
<1>4. /\ Len(Append(rows, r)) <= Len(all')
      /\ Len(Append(rows, r)) = Len(all') \/ Keep <= Len(Append(rows, r))
  <2>1. Len(rows) \in Nat /\ Len(all) \in Nat
    OBVIOUS
  <2> QED BY <1>1, <1>2, <2>1
<1> QED BY <1>3, <1>4, Zenon

\* The newest of rows that show the end of all rows show it too.
LEMMA ShowsNewest ==
    ASSUME NEW rows \in Seq(Row), all \in Seq(Row), Shows(rows)
    PROVE  Shows(Newest(rows)) /\ Len(Newest(rows)) <= Keep
<1> USE KeepAssumption DEF KeepAssumption
<1> DEFINE n == Len(Newest(rows))
<1>2. Len(rows) \in Nat /\ Len(all) \in Nat
  OBVIOUS
<1>1. n \in Nat /\ n <= Len(rows) /\ n <= Keep /\ (n = Len(rows) \/ n = Keep)
  <2>1. n = IF Len(rows) <= Keep THEN Len(rows) ELSE Keep
    BY NewestRows
  <2> QED BY <1>2, <2>1
<1>3. Len(rows) <= Len(all) /\ (Len(rows) = Len(all) \/ Keep <= Len(rows))
  BY DEF Shows
<1>4. ASSUME NEW i \in 1..n PROVE Newest(rows)[i] = all[Len(all) - n + i]
  <2>1. Newest(rows)[i] = rows[Len(rows) - n + i]
    BY NewestRows
  <2>2. Len(rows) - n + i \in 1..Len(rows)
    BY <1>1, <1>2
  <2>3. rows[Len(rows) - n + i] = all[Len(all) - Len(rows) + (Len(rows) - n + i)]
    BY <2>2 DEF Shows
  <2>4. Len(all) - Len(rows) + (Len(rows) - n + i) = Len(all) - n + i
    BY <1>1, <1>2
  <2> QED BY <2>1, <2>3, <2>4
<1> HIDE DEF n
<1>5. n <= Len(all) /\ (n = Len(all) \/ Keep <= n)
  BY <1>1, <1>2, <1>3
<1> QED BY <1>1, <1>4, <1>5 DEF n, Shows

LEMMA RowsStep == LedgerTypeOK /\ OneInside /\ RowsInHand /\ [LedgerNext]_ledgerVars => RowsInHand'
<1> SUFFICES ASSUME LedgerTypeOK, OneInside, RowsInHand, [LedgerNext]_ledgerVars, ~clash'
             PROVE  RowsInHand'
  BY DEF RowsInHand
<1> USE KeepAssumption DEF KeepAssumption, LedgerTypeOK, OneInside, InAppend, Step, Settled
<1>1. CASE UNCHANGED ledgerVars
  BY <1>1 DEF ledgerVars, RowsInHand, Shows
<1>2. ASSUME NEW r \in Proc, NEW k \in Skill \cup {None}, Begin(r, k) PROVE RowsInHand'
  BY <1>2 DEF Begin, RowsInHand, Shows
<1>3. ASSUME NEW r \in Proc, AppendRow(r) PROVE RowsInHand'
  <2>1. Shows(ledger) /\ row[r] \in Row /\ \A p \in Proc \ {r} : ~InAppend(p)
    BY <1>3 DEF AppendRow, RowsInHand
  <2>2. Shows(ledger)'
    <3>1. ledger' = Append(ledger, row[r]) /\ all' = Append(all, row[r])
      BY <1>3 DEF AppendRow
    <3>2. ledger \in Seq(Row) /\ all \in Seq(Row)
      OBVIOUS
    <3>3. /\ Len(ledger') <= Len(all') /\ (Len(ledger') = Len(all') \/ Keep <= Len(ledger'))
          /\ \A i \in 1..Len(ledger') : ledger'[i] = all'[Len(all') - Len(ledger') + i]
      BY <2>1, <3>1, <3>2, ShowsAppended
    <3> QED BY <3>3 DEF Shows
  <2>3. InAppend(r)' /\ \A p \in Proc : pc'[p] \notin {"rotate", "rewrite"}
    BY <1>3, <2>1 DEF AppendRow
  <2> QED BY <2>2, <2>3 DEF RowsInHand
<1>4. ASSUME NEW r \in Proc, ReadMap(r) \/ TruncMap(r) \/ WriteMap(r) PROVE RowsInHand'
  BY <1>4 DEF ReadMap, TruncMap, WriteMap, RowsInHand, Shows
<1>5. ASSUME NEW r \in Proc, Count(r) PROVE RowsInHand'
  <2>1. Shows(ledger) /\ (\A p \in Proc : p # r => ~InAppend(p)) /\ ~clash
    BY <1>5 DEF Count, RowsInHand
  <2>2. ledger' = ledger /\ all' = all /\ Shows(ledger)'
    BY <1>5, <2>1 DEF Count, Shows
  <2>3. CASE Len(ledger) > Keep + Slack
    <3>1. keep'[r] = Newest(ledger) /\ pc'[r] = "rotate" /\ \A p \in Proc \ {r} : pc'[p] = pc[p]
      BY <1>5, <2>3 DEF Count
    <3>2. Shows(keep[r])' /\ Len(keep'[r]) <= Keep
      <4>1. Shows(Newest(ledger)) /\ Len(Newest(ledger)) <= Keep
        BY <2>1, ShowsNewest
      <4> QED BY <2>2, <3>1, <4>1 DEF Shows
    <3> QED BY <2>1, <2>2, <3>1, <3>2 DEF RowsInHand
  <2>4. CASE ~(Len(ledger) > Keep + Slack)
    <3>1. \A p \in Proc : pc'[p] \notin {"rotate", "rewrite"}
      BY <1>5, <2>1, <2>4 DEF Count
    <3>2. Len(ledger') <= Keep + Slack
      BY <2>2, <2>4
    <3> QED BY <2>2, <3>1, <3>2 DEF RowsInHand
  <2> QED BY <2>3, <2>4
<1>6. ASSUME NEW r \in Proc, Rotate(r) PROVE RowsInHand'
  <2>1. /\ \A p \in Proc : p # r => ~InAppend(p)
        /\ ~clash /\ Shows(keep[r]) /\ Len(keep[r]) <= Keep /\ all' = all
    BY <1>6 DEF Rotate, RowsInHand
  <2>2. CASE pc[r] = "rotate"
    <3>1. pc'[r] = "rewrite" /\ keep' = keep /\ \A p \in Proc \ {r} : pc'[p] = pc[p]
      BY <1>6, <2>2 DEF Rotate
    <3>2. Shows(keep[r])'
      BY <2>1, <3>1 DEF Shows
    <3> QED BY <2>1, <3>1, <3>2 DEF RowsInHand
  <2>3. CASE pc[r] = "rewrite"
    <3>1. ledger' = keep[r] /\ \A p \in Proc : pc'[p] \notin {"rotate", "rewrite"}
      BY <1>6, <2>1, <2>3 DEF Rotate
    <3>2. Shows(ledger)'
      BY <2>1, <3>1 DEF Shows
    <3>3. Len(ledger') <= Keep + Slack
      <4>1. Len(keep[r]) \in Nat
        BY LenProperties
      <4> QED BY <2>1, <3>1, <4>1
    <3> QED BY <3>1, <3>2, <3>3 DEF RowsInHand
  <2> QED BY <1>6, <2>2, <2>3 DEF Rotate
<1>7. ASSUME NEW r \in Proc, Die(r) PROVE RowsInHand'
  BY <1>7 DEF Die, RowsInHand, Shows
<1> QED BY <1>1, <1>2, <1>3, <1>4, <1>5, <1>6, <1>7 DEF LedgerNext

\* Rotation drops the oldest rows and no others, and keeps the file within its limit.
THEOREM NewestRowsAreKept == LedgerSpec => []NewestRowsKept
<1>1. LedgerInit => OneInside /\ RowsInHand
  <2> SUFFICES ASSUME LedgerInit PROVE OneInside /\ RowsInHand
    OBVIOUS
  <2>1. Len(ledger) = 0 /\ Len(all) = 0
    BY DEF LedgerInit
  <2> QED BY <2>1, KeepAssumption DEF KeepAssumption, LedgerInit, OneInside, RowsInHand, InAppend, Shows
<1>2. RowsInHand => NewestRowsKept
  BY DEF RowsInHand, NewestRowsKept, Settled, InAppend
<1> QED BY LedgerTypeInit, LedgerTypeStep, OneInsideStep, RowsStep, <1>1, <1>2, PTL DEF LedgerSpec

\* One process at a time, appendRun loses no row that matters.
THEOREM RowsAreKept == LedgerSpec => []RowsKept
  BY LastRowsAreKept, NewestRowsAreKept, PTL DEF RowsKept

-----------------------------------------------------------------------------
(* What a reader is told.  lastRunBySkill is a loop, here a function of how *)
(* many rows it has gone over.                                              *)

\* A set of numbers that has zero, and the next of each of its members, has them all:
\* there is no least number it lacks.
LEMMA FromZero ==
    ASSUME NEW S \in SUBSET Nat, 0 \in S, \A m \in Nat : m \in S => m + 1 \in S
    PROVE  S = Nat
<1> DEFINE R == OpToRel(<, Nat)
<1>1. IsWellFoundedOn(R, Nat)
  BY NatLessThanWellFounded
<1>2. \A x, y \in Nat : y < x => <<y, x>> \in R
  BY DEF OpToRel
<1> HIDE DEF R
<1>3. SUFFICES ASSUME Nat \ S # {} PROVE FALSE
  OBVIOUS
<1>4. PICK x \in Nat \ S : \A y \in Nat \ S : ~ (<<y, x>> \in R)
  BY <1>1, <1>3, WFMin
<1>5. x - 1 \in Nat /\ x - 1 < x /\ (x - 1) + 1 = x
  BY <1>4
<1>6. x - 1 \in S
  BY <1>2, <1>4, <1>5
<1>7. (x - 1) + 1 \in S
  BY <1>5, <1>6
<1> QED BY <1>4, <1>5, <1>7

Loop(k, side, rows, n, s) ==
    s = [i \in 0..n |-> IF i > 0 THEN Take(k, s[i - 1], rows[i]) ELSE side]

LEMMA LoopEnds ==
    ASSUME NEW k, NEW side, NEW rows, NEW n \in Nat
    PROVE  \E s : Loop(k, side, rows, n, s)
<1> DEFINE S == {m \in Nat : \E s : Loop(k, side, rows, m, s)}
<1>1. \E s : Loop(k, side, rows, 0, s)
  <2>1. Loop(k, side, rows, 0, [i \in 0..0 |-> side])
    BY DEF Loop
  <2> QED BY <2>1
<1>2. ASSUME NEW m \in Nat, NEW s, Loop(k, side, rows, m, s)
      PROVE  \E t : Loop(k, side, rows, m + 1, t)
  <2> DEFINE t == [i \in 0..m + 1 |-> IF i = m + 1 THEN Take(k, s[m], rows[m + 1]) ELSE s[i]]
  <2>1. \A i \in 0..m : s[i] = IF i > 0 THEN Take(k, s[i - 1], rows[i]) ELSE side
    BY <1>2 DEF Loop
  <2>2. ASSUME NEW i \in 0..m + 1
        PROVE  t[i] = IF i > 0 THEN Take(k, t[i - 1], rows[i]) ELSE side
    <3>1. CASE i = m + 1
      <4>1. t[i - 1] = s[m] /\ i > 0 /\ t[i] = Take(k, s[m], rows[m + 1])
        BY <3>1
      <4> HIDE DEF t
      <4> QED BY <3>1, <4>1
    <3>2. CASE i # m + 1
      <4>1. i \in 0..m /\ t[i] = s[i] /\ (i > 0 => t[i - 1] = s[i - 1])
        BY <3>2
      <4> HIDE DEF t
      <4> QED BY <2>1, <4>1
    <3> QED BY <3>1, <3>2
  <2>3. t = [i \in 0..m + 1 |-> t[i]]
    OBVIOUS
  <2> HIDE DEF t
  <2>4. Loop(k, side, rows, m + 1, t)
    BY <2>2, <2>3 DEF Loop
  <2> QED BY <2>4
<1>3. S \in SUBSET Nat /\ 0 \in S /\ \A m \in Nat : m \in S => m + 1 \in S
  BY <1>1, <1>2
<1> HIDE DEF S
<1>4. n \in S
  BY <1>3, FromZero
<1> QED BY <1>4 DEF S

\* What the loop holds is never older than a row it has gone over.
LEMMA LoopIsNotStale ==
    ASSUME NEW k \in Skill, NEW side \in Row \cup {None}, NEW rows \in Seq(Row), NEW s,
           Loop(k, side, rows, Len(rows), s),
           NEW j \in 1..Len(rows), rows[j].skill = k
    PROVE  s[Len(rows)] # None /\ s[Len(rows)].ts >= rows[j].ts
<1> USE NoneIsNoRow DEF NoneIsNoRow
<1> DEFINE Told(i) == /\ s[i] \in Row \cup {None}
                      /\ i >= j => s[i] # None /\ s[i].ts >= rows[j].ts
           S == {i \in Nat : i <= Len(rows) => Told(i)}
<1>1. Len(rows) \in Nat /\ \A i \in 1..Len(rows) : rows[i] \in Row
  BY LenProperties
<1>2. \A i \in 0..Len(rows) : s[i] = IF i > 0 THEN Take(k, s[i - 1], rows[i]) ELSE side
  BY DEF Loop
<1>3. 0 \in S
  <2>1. s[0] = side
    BY <1>1, <1>2
  <2> QED BY <2>1
<1>4. ASSUME NEW m \in Nat, m \in S, m + 1 <= Len(rows) PROVE Told(m + 1)
  <2>1. Told(m) /\ m + 1 \in 1..Len(rows)
    BY <1>1, <1>4
  <2>2. s[m + 1] = Take(k, s[m], rows[m + 1])
    BY <1>2, <2>1
  <2>3. PICK r \in Row : r = rows[m + 1]
    BY <1>1, <2>1
  <2>4. PICK seen \in Row \cup {None} : seen = s[m]
    BY <2>1
  <2>5. rows[j] \in Row /\ rows[j].ts \in Int /\ r.ts \in Int /\ (seen # None => seen.ts \in Int)
    BY <1>1 DEF Row
  <2>6. s[m + 1] = IF r.skill = k /\ (seen = None \/ r.ts >= seen.ts) THEN r ELSE seen
    BY <2>2, <2>3, <2>4 DEF Take
  <2>7. m >= j => seen # None /\ seen.ts >= rows[j].ts
    BY <2>1, <2>4
  <2>8. ~ (m >= j) /\ m + 1 >= j => r = rows[j] /\ r.skill = k
    <3>1. ~ (m >= j) /\ m + 1 >= j => m + 1 = j
      OBVIOUS
    <3> QED BY <2>3, <3>1
  <2>9. s[m + 1] \in Row \cup {None}
    BY <2>6
  <2>10. ASSUME m + 1 >= j PROVE s[m + 1] # None /\ s[m + 1].ts >= rows[j].ts
    <3>1. CASE r.skill = k /\ (seen = None \/ r.ts >= seen.ts)
      <4>1. s[m + 1] = r
        BY <2>6, <3>1
      <4>2. r.ts >= rows[j].ts
        BY <2>5, <2>7, <2>8, <2>10, <3>1
      <4> QED BY <4>1, <4>2
    <3>2. CASE ~ (r.skill = k /\ (seen = None \/ r.ts >= seen.ts))
      <4>1. s[m + 1] = seen
        BY <2>6, <3>2
      <4>2. CASE m >= j
        BY <2>7, <4>1, <4>2
      <4>3. CASE ~ (m >= j)
        <5>1. r = rows[j] /\ seen # None /\ ~ (r.ts >= seen.ts)
          BY <2>8, <2>10, <3>2, <4>3
        <5> QED BY <2>5, <4>1, <5>1
      <4> QED BY <4>2, <4>3
    <3> QED BY <3>1, <3>2
  <2> QED BY <2>9, <2>10
<1>5. \A m \in Nat : m \in S => m + 1 \in S
  BY <1>4
<1>6. S \in SUBSET Nat
  OBVIOUS
<1>7. Len(rows) \in S
  <2> HIDE DEF S
  <2> QED BY <1>1, <1>3, <1>5, <1>6, FromZero
<1> QED BY <1>1, <1>7

\* A reader is never told a row older than one it has seen, nor nothing: whatever state
\* crossing writers and deaths have left the two files in (lastRunBySkill).
THEOREM NoAnswerIsStale == LedgerSpec => []AnswerNotStale
<1>1. LedgerTypeOK => AnswerNotStale
  <2> SUFFICES ASSUME LedgerTypeOK, NEW k \in Skill, NEW i \in DOMAIN Newest(ledger),
                      Newest(ledger)[i].skill = k
               PROVE  LastRunBySkill(k) # None /\ LastRunBySkill(k).ts >= Newest(ledger)[i].ts
    BY DEF AnswerNotStale
  <2>1. Newest(ledger) \in Seq(Row)
    BY NewestRows DEF LedgerTypeOK
  <2>2. PICK rows \in Seq(Row) : rows = Newest(ledger)
    BY <2>1
  <2>3. PICK side \in Row \cup {None} : side = IF lastRuns # Torn THEN lastRuns[k] ELSE None
    BY DEF LedgerTypeOK, Rows
  <2>4. Len(rows) \in Nat /\ i \in 1..Len(rows)
    BY <2>2
  <2> DEFINE s == CHOOSE s : Loop(k, side, rows, Len(rows), s)
  <2>5. Loop(k, side, rows, Len(rows), s)
    BY <2>4, LoopEnds
  <2>6. LastRunBySkill(k) = s[Len(rows)]
    BY <2>2, <2>3 DEF LastRunBySkill, Loop
  <2> HIDE DEF s
  <2>7. s[Len(rows)] # None /\ s[Len(rows)].ts >= rows[i].ts
    BY <2>2, <2>4, <2>5, LoopIsNotStale
  <2> QED BY <2>2, <2>6, <2>7
<1> QED BY <1>1, LedgerTypeInit, LedgerTypeStep, PTL DEF LedgerSpec
=============================================================================
