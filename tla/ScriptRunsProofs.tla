--------------------------- MODULE ScriptRunsProofs ---------------------------
(***************************************************************************)
(* Proofs about the runs of one script, for any number of scheduled runs,  *)
(* clicks on Run now, deaths and changes of the switch.  A run with a      *)
(* program (or about to start one) owns the lock file, or has died and left *)
(* it to nobody; so the exclusive create keeps everybody else out until     *)
(* some step takes the file away, which is what `robbed' records.           *)
(***************************************************************************)
EXTENDS ScriptRuns, TLAPS

Places == {"off", "create", "write", "look", "remove", "recreate", "lookAgain",
           "removeLast", "running", "append", "release", "dead"}

\* Between steps of a run: no program before the lock is had or after it ended, and
\* nothing at all of a click that was not made.
RunInv ==
    /\ \A r \in Run : pc[r] \notin {"off", "dead", "running"} => child[r] = "none"
    /\ \A d \in Dash : told[d] = "none" => pc[d] = "off" /\ child[d] = "none"
    /\ \A r \in Run : pc[r] = "append" => ended[r] \in {"ok", "fail"}

\* The row that carries a click's token says how that click's run ended.
RowInv ==
    \A d \in Dash : row.run = d =>
        pc[d] \in {"release", "dead"} /\ ended[d] \in {"ok", "fail"} /\ row.how = ended[d]

Base == TypeOK /\ RunInv /\ RowInv

\* Initially.
LEMMA BaseInit == Init => Base
<1> USE SlotAssumption, BoundAssumption DEF SlotAssumption, BoundAssumption
<1> SUFFICES ASSUME Init PROVE Base
  OBVIOUS
<1>1. TypeOK
  <2>1. flips \in 0..MaxFlips /\ deaths \in 0..MaxDeaths
    BY DEF Init
  <2>2. row \in [run : Run \cup {None}, how : {"none", "ok", "fail"}]
    BY DEF Init
  <2>3. \A q \in Run : pc[q] = "off" /\ child[q] = "none"
    BY DEF Init
  <2> QED BY <2>1, <2>2, <2>3 DEF Init, TypeOK
<1>2. RunInv
  BY DEF Init, RunInv, Run
<1>3. RowInv
  BY DEF Init, RowInv, Run
<1> QED BY <1>1, <1>2, <1>3 DEF Base

\* The lock's own steps, of one run.
LEMMA LockStepBase ==
    ASSUME Base, NEW r \in Run,
           Create(r) \/ Write(r) \/ Look(r) \/ RemoveStale(r) \/ Release(r)
    PROVE  Base'
<1> USE SlotAssumption DEF SlotAssumption, Base, TypeOK, RunInv, RowInv, Step, lockVars, clockVars, Places
<1>0. Over(r) \in {"off", "dead"} /\ (r \in Dash => Over(r) = "dead")
  BY DEF Over
<1>1. ASSUME Create(r) PROVE Base'
  <2>1. TypeOK'
    <3>1. /\ pc' \in [Run -> Places] /\ pc[r] # "running" /\ pc'[r] # "running"
          /\ \A q \in Run \ {r} : pc'[q] = pc[q]
      BY <1>1 DEF Create
    <3>2. /\ owner' \in Run \cup {None, Gone} /\ filled' \in BOOLEAN /\ old' \in BOOLEAN
          /\ (old' => filled') /\ (filled' => owner' # None)
      BY <1>1 DEF Create
    <3>3. \A q \in Run : (child'[q] \in {"runs", "late"}) <=> (pc'[q] = "running")
      BY <1>1, <3>1 DEF Create
    <3> QED BY <1>1, <3>1, <3>2, <3>3 DEF Create
  <2>2. RunInv'
    BY <1>1 DEF Create, Run
  <2>3. RowInv'
    BY <1>1 DEF Create, Run
  <2> QED BY <2>1, <2>2, <2>3
<1>2. ASSUME Write(r) PROVE Base'
  BY <1>2 DEF Write, Run
<1>3. ASSUME Look(r) PROVE Base'
  BY <1>0, <1>3 DEF Look, Run
<1>4. ASSUME RemoveStale(r) PROVE Base'
  <2>1. TypeOK'
    <3>1. /\ pc' \in [Run -> Places] /\ pc[r] # "running" /\ pc'[r] # "running"
          /\ \A q \in Run \ {r} : pc'[q] = pc[q]
      BY <1>0, <1>4 DEF RemoveStale
    <3>2. /\ owner' \in Run \cup {None, Gone} /\ filled' \in BOOLEAN /\ old' \in BOOLEAN
          /\ (old' => filled') /\ (filled' => owner' # None) /\ robbed' \in BOOLEAN
      BY <1>4 DEF RemoveStale, Drop
    <3>3. \A q \in Run : (child'[q] \in {"runs", "late"}) <=> (pc'[q] = "running")
      BY <1>4, <3>1 DEF RemoveStale
    <3> QED BY <1>4, <3>1, <3>2, <3>3 DEF RemoveStale
  <2>2. RunInv'
    BY <1>0, <1>4 DEF RemoveStale, Drop, Run
  <2>3. RowInv'
    BY <1>0, <1>4 DEF RemoveStale, Drop, Run
  <2> QED BY <2>1, <2>2, <2>3
<1>5. ASSUME Release(r) PROVE Base'
  BY <1>0, <1>5 DEF Release, Drop, Run
<1> QED BY <1>1, <1>2, <1>3, <1>4, <1>5

\* The program ends and is recorded.
LEMMA EndStepBase ==
    ASSUME Base, NEW r \in Run, End(r) \/ Record(r) \/ OrphanEnds(r)
    PROVE  Base'
<1> USE SlotAssumption DEF SlotAssumption, Base, TypeOK, RunInv, RowInv, Step, lockVars, clockVars, Places
<1>1. ASSUME End(r) PROVE Base'
  <2>1. TypeOK'
    BY <1>1 DEF End, Run
  <2>2. RunInv'
    BY <1>1 DEF End, Run
  <2>3. RowInv'
    BY <1>1 DEF End, Run
  <2> QED BY <2>1, <2>2, <2>3
<1>2. ASSUME Record(r) PROVE Base'
  <2>1. TypeOK'
    BY <1>2 DEF Record, Run
  <2>2. RunInv'
    BY <1>2 DEF Record, Run
  <2>3. RowInv'
    BY <1>2 DEF Record, Run
  <2> QED BY <2>1, <2>2, <2>3
<1>3. ASSUME OrphanEnds(r) PROVE Base'
  BY <1>3 DEF OrphanEnds, Run
<1> QED BY <1>1, <1>2, <1>3

\* The scheduler's minute, the clicks and the switch.
LEMMA PanelStepBase ==
    ASSUME Base,
           \/ Save \/ Expire
           \/ \E r \in Cron : Tick(r)
           \/ \E d \in Dash : RunNow(d) \/ Report(d)
    PROVE  Base'
<1> USE SlotAssumption, BoundAssumption
    DEF SlotAssumption, BoundAssumption, Base, TypeOK, RunInv, RowInv, Step, lockVars, clockVars, Places
<1>1. ASSUME Save PROVE Base'
  BY <1>1 DEF Save
<1>2. ASSUME Expire PROVE Base'
  <2>1. child' \in [Run -> {"none", "runs", "late", "orphan"}]
    BY <1>2 DEF Expire
  <2>2. \A r \in Run : /\ (child'[r] \in {"runs", "late"}) <=> (child[r] \in {"runs", "late"})
                       /\ child[r] = "none" => child'[r] = "none"
    <3>1. \A r \in Run : child'[r] = IF r = owner /\ child[r] = "runs" THEN "late" ELSE child[r]
      BY <1>2, Zenon DEF Expire
    <3> QED BY <3>1
  <2> QED BY <1>2, <2>1, <2>2 DEF Expire, Run
<1>3. ASSUME NEW r \in Cron, Tick(r) PROVE Base'
  BY <1>3 DEF Tick, Run
<1>4. ASSUME NEW d \in Dash, RunNow(d) PROVE Base'
  BY <1>4 DEF RunNow, Run
<1>5. ASSUME NEW d \in Dash, Report(d) PROVE Base'
  <2>1. told' \in [Dash -> {"none", "running", "waits", "still", "ok", "fail"}]
    BY <1>5 DEF Report
  <2>2. told'[d] # "none"
    BY <1>5 DEF Report
  <2> QED BY <1>5, <2>1, <2>2 DEF Report
<1> QED BY <1>1, <1>2, <1>3, <1>4, <1>5

\* Deaths.
LEMMA DeathBase ==
    ASSUME Base, NEW gone \in SUBSET Run, Kill(gone) \/ (gone = Run /\ Restart)
    PROVE  Base'
<1> USE SlotAssumption, BoundAssumption
    DEF SlotAssumption, BoundAssumption, Base, TypeOK, RunInv, RowInv, Places
<1>a. Die(gone)
  BY DEF Restart, Kill
<1>b. \/ child' = [r \in Run |-> IF r \in gone /\ child[r] # "none" THEN "orphan" ELSE child[r]]
      \/ gone = Run /\ child' = [r \in Run |-> "none"]
  BY DEF Restart, Kill
<1>0. \A r \in Run : Over(r) \in {"off", "dead"} /\ (r \in Dash => Over(r) = "dead")
  BY DEF Over
<1>1. /\ pc' \in [Run -> Places]
      /\ \A r \in Run : IF r \notin gone \/ pc[r] = "off" THEN pc'[r] = pc[r] ELSE pc'[r] = Over(r)
  BY <1>0, <1>a DEF Die
<1>2. child' \in [Run -> {"none", "runs", "late", "orphan"}]
  BY <1>b
<1>3. \A r \in Run : (child'[r] \in {"runs", "late"}) <=> (pc'[r] = "running")
  BY <1>0, <1>1, <1>b
<1>c. up' \in BOOLEAN
  BY DEF Restart, Kill
<1>4. TypeOK'
  BY <1>1, <1>2, <1>3, <1>a, <1>c DEF Die
<1>5. RunInv'
  BY <1>0, <1>1, <1>a, <1>b DEF Die, Run
<1>6. RowInv'
  BY <1>0, <1>1, <1>a DEF Die, Run
<1> QED BY <1>4, <1>5, <1>6

LEMMA BaseStep == Base /\ [Next]_vars => Base'
<1> SUFFICES ASSUME Base, [Next]_vars PROVE Base'
  OBVIOUS
<1>1. CASE UNCHANGED vars
  BY <1>1 DEF vars, lockVars, clockVars, Base, TypeOK, RunInv, RowInv
<1>2. ASSUME NEW r \in Run, RunStep(r) \/ OrphanEnds(r) PROVE Base'
  BY <1>2, LockStepBase, EndStepBase DEF RunStep
<1>3. CASE Save \/ Expire \/ (\E r \in Cron : Tick(r)) \/ \E d \in Dash : RunNow(d) \/ Report(d)
  BY <1>3, PanelStepBase
<1>4. CASE Restart \/ Kill(Cron)
  BY <1>4, DeathBase DEF Run
<1>5. ASSUME NEW d \in Dash, Kill({d}) PROVE Base'
  BY <1>5, DeathBase DEF Run
<1> QED BY <1>1, <1>2, <1>3, <1>4, <1>5 DEF Next

\* The variables keep their types.
THEOREM TypeCorrect == Spec => []TypeOK
<1>1. Base => TypeOK
  BY DEF Base
<1> QED BY BaseInit, BaseStep, <1>1, PTL DEF Spec

-----------------------------------------------------------------------------
(* Copies of the script.                                                       *)

\* A run that has a program, or is about to start one, owns the lock, or died and
\* left it; and there is one such run at the most.
Engaged(r) == pc[r] = "write" \/ child[r] # "none"
CopyInv ==
    ~robbed =>
        /\ \A r \in Run : Engaged(r) => owner = r \/ (child[r] = "orphan" /\ owner = Gone)
        /\ \A r, q \in Run : Engaged(r) /\ Engaged(q) => r = q

LEMMA CopyStep == Base /\ CopyInv /\ [Next]_vars => CopyInv'
<1> SUFFICES ASSUME Base, CopyInv, [Next]_vars, ~robbed' PROVE CopyInv'
  BY DEF CopyInv
<1> USE SlotAssumption DEF SlotAssumption, Base, TypeOK, CopyInv, Engaged, Step, lockVars, clockVars
<1>1. CASE UNCHANGED vars
  BY <1>1 DEF vars
<1>2. CASE Save \/ \E d \in Dash : Report(d)
  BY <1>2 DEF Save, Report
<1>3. CASE Expire
  <2>1. \A r \in Run : child'[r] = IF r = owner /\ child[r] = "runs" THEN "late" ELSE child[r]
    BY <1>3, Zenon DEF Expire
  <2>2. pc' = pc /\ owner' = owner /\ robbed' = robbed
    BY <1>3 DEF Expire
  <2> QED BY <2>1, <2>2
<1>4. CASE \E r \in Cron : Tick(r)
  BY <1>4 DEF Tick, Run
<1>5. CASE \E d \in Dash : RunNow(d)
  BY <1>5 DEF RunNow, RunInv, Run
<1>6. ASSUME NEW r \in Run, Create(r) PROVE CopyInv'
  BY <1>6 DEF Create, RunInv
<1>7. ASSUME NEW r \in Run, Write(r) PROVE CopyInv'
  BY <1>7 DEF Write, RunInv
<1>8. ASSUME NEW r \in Run, Look(r) PROVE CopyInv'
  BY <1>8 DEF Look, Over
<1>9. ASSUME NEW r \in Run, RemoveStale(r) \/ Release(r) PROVE CopyInv'
  <2>1. \A q \in Run \ {r} : ~Engaged(q)
    BY <1>9 DEF RemoveStale, Release, Drop
  <2>2. ~Engaged(r) /\ pc'[r] # "write" /\ child' = child /\ \A q \in Run \ {r} : pc'[q] = pc[q]
    BY <1>9 DEF RemoveStale, Release, RunInv, Over
  <2> QED BY <2>1, <2>2
<1>10. ASSUME NEW r \in Run, End(r) \/ Record(r) \/ OrphanEnds(r) PROVE CopyInv'
  <2>1. /\ \A q \in Run : child'[q] \in {child[q], "none"} /\ (pc'[q] = "write" => pc[q] = "write")
        /\ owner' = owner /\ robbed' = robbed
    BY <1>10 DEF End, Record, OrphanEnds
  <2>2. \A q \in Run : Engaged(q)' => Engaged(q) /\ (child[q] = "orphan" => child'[q] = "orphan" \/ pc[q] = "write")
    BY <2>1
  <2>3. \A q \in Run : pc[q] = "write" => child[q] = "none"
    BY DEF RunInv
  <2> QED BY <2>1, <2>2, <2>3
<1>11. ASSUME NEW gone \in SUBSET Run, Kill(gone) PROVE CopyInv'
  <2>1. /\ \A r \in Run : child'[r] = IF r \in gone /\ child[r] # "none" THEN "orphan" ELSE child[r]
        /\ \A r \in Run : pc'[r] = "write" => pc[r] = "write" /\ r \notin gone
        /\ owner' = (IF owner \in gone THEN Gone ELSE owner) /\ robbed' = robbed
    BY <1>11 DEF Kill, Die, Over
  <2>2. \A r \in Run : Engaged(r)' => Engaged(r)
    BY <2>1
  <2> QED BY <2>1, <2>2
<1>12. CASE Restart
  BY <1>12 DEF Restart, Die, Over
<1> HIDE DEF Base, TypeOK, CopyInv, Engaged, Step, lockVars, clockVars
<1>13. CASE Kill(Cron) \/ \E d \in Dash : Kill({d})
  <2>1. Cron \in SUBSET Run /\ \A d \in Dash : {d} \in SUBSET Run
    BY DEF Run
  <2> QED BY <1>11, <1>13, <2>1
<1>14. CASE \E r \in Run : RunStep(r) \/ OrphanEnds(r)
  BY <1>6, <1>7, <1>8, <1>9, <1>10, <1>14 DEF RunStep
<1> QED BY <1>1, <1>2, <1>3, <1>4, <1>5, <1>12, <1>13, <1>14 DEF Next

\* A second copy runs on top of the first only after a lock was taken away from
\* under it: takeRunLock keeps any number of starters apart.
THEOREM OneCopyAtATime == Spec => []OneCopyUnlessRobbed
<1>1. Init => CopyInv
  BY DEF Init, CopyInv, Engaged
<1>2. CopyInv => OneCopyUnlessRobbed
  BY DEF CopyInv, OneCopyUnlessRobbed, Engaged
<1> QED BY BaseInit, BaseStep, CopyStep, <1>1, <1>2, PTL DEF Spec

-----------------------------------------------------------------------------
(* What Run now prints.                                                        *)

\* What Run now says of a run that ended is how that very run ended.
THEOREM RunNowTellsItsOwn == Spec => ToldItsOwn
<1> DEFINE Truth == \A d \in Dash : told'[d] # told[d] /\ told'[d] \in {"ok", "fail"} => told'[d] = ended[d]
<1>1. Base /\ [Next]_vars => [Truth]_vars
  <2> SUFFICES ASSUME Base, Next PROVE Truth
    BY DEF vars
  <2> USE DEF Base, TypeOK
  <2>1. ASSUME NEW d \in Dash, Report(d) PROVE Truth
    BY <2>1 DEF Report, RowInv
  <2>2. ASSUME NEW d \in Dash, RunNow(d) PROVE Truth
    BY <2>2 DEF RunNow
  <2>3. CASE told' = told
    BY <2>3
  <2>4. \/ told' = told
        \/ \E d \in Dash : Report(d) \/ RunNow(d)
    BY DEF Next, RunStep, Save, Expire, Restart, Kill, Die, Tick, Create, Write, Look, RemoveStale,
           End, Record, Release, OrphanEnds
  <2> QED BY <2>1, <2>2, <2>3, <2>4
<1> QED BY BaseInit, BaseStep, <1>1, PTL DEF Spec, ToldItsOwn
=============================================================================
