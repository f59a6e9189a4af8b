------------------------------ MODULE MoveInProofs ------------------------------
(***************************************************************************)
(* Proofs about the move-in, for every set of things, whatever each is     *)
(* found to be, any number of windows of the app and any number of faults. *)
(*                                                                         *)
(* The inductive invariant MoveInv has three parts.  The ranges, with what *)
(* an undo file may hold: the file before and after, which differ in the   *)
(* row of the step alone.  The place of a thing whose handing over nothing *)
(* cut across (Place): where it runs, what the mineral's half is set to    *)
(* and what the two undo files would put back.  And what the one window    *)
(* that is at it knows of the server (AtWork).                             *)
(***************************************************************************)
EXTENDS MoveIn, SequenceTheorems, TLAPS

Ways == {"apply", "undo"}
Resolutions == {"finish", "rollback"}
Values == {"absent", "off", "on"}
Shown == {"on", "off", "gone"}
Priors == {"none"} \cup Shown
Row == Thing \cup {Own}

Sends == [pc : {"send"}, thing : Thing, op : Ways, close : Ways, prior : Priors,
          then : {"asked"} \cup Resolutions]
Ends == [pc : {"end"}, thing : Thing, close : Ways, ok : BOOLEAN, prior : Priors]
Resolves == [pc : {"resolve"}, thing : Thing, seen : Shown, choice : Resolutions]
Doing == {Idle} \cup Sends \cup Ends \cup Resolves
Outs == [on : BOOLEAN, list : Seq(Step), clean : BOOLEAN]

\* The plan: the order lists the done steps, each once.
OrderOK ==
    /\ step \in [Step -> {"pending", "approved", "done", "skipped", "undone"}]
    /\ order \in Seq(Step)
    /\ ToSet(order) = {s \in Step : step[s] = "done"} /\ IsInjective(order)
RouteOK == flight \in [Thing -> {"no"} \cup Ways] /\ prior \in [Thing -> Priors]
\* The files, the server and the windows.
WorldOK ==
    /\ kind \in [Thing -> Kinds] /\ mine \in [Row -> Values] /\ server \in [Thing -> Shown]
    /\ moving \in {"in", "out", "no"} /\ faults \in 0..MaxFaults /\ disturbed \subseteq Thing
AppOK == app \in [App -> Doing]

\* An undo file holds the file of its step before and after it; they differ in the
\* step's own row only.
Snaps(x) ==
    {u \in [before : [FileOf(x) -> Values], after : [FileOf(x) -> Values]] :
        \A y \in FileOf(x) \ {x} : u.before[y] = u.after[y]}
UndoOK == 
    /\ undo = [s \in Step |-> undo[s]]
    /\ \A x \in Thing : \A s \in {Add(x), Cut(x)} : undo[s] = NoSnap \/ undo[s] \in Snaps(x)

\* A host step is under way from the side it starts on.
FlightOK ==
    \A x \in Thing : /\ flight[x] = "apply" => step[Cut(x)] # "done"
                     /\ flight[x] = "undo" => step[Cut(x)] = "done"

\* What the undo file of a step would put back.
Keeps(s, x, v) == undo[s] # NoSnap /\ undo[s].before[x] = v

\* Where a thing is.
PlaceOf(x) ==
    /\ step[Add(x)] = "done" => Keeps(Add(x), x, "absent")
    /\ mine[x] = "on" => Keeps(Cut(x), x, "off")
    /\ prior[x] \in {"none", "on"}
    /\ server[x] # "gone"
    /\ step[Cut(x)] = "done" \/ flight[x] # "no" => step[Add(x)] = "done"
    /\ flight[x] = "no" =>
        IF step[Cut(x)] = "done" THEN server[x] = "off" /\ mine[x] = "on"
        ELSE server[x] = "on" /\ mine[x] = (IF step[Add(x)] = "done" THEN "off" ELSE "absent")
    /\ flight[x] # "no" => mine[x] = (IF x \in Job THEN "on" ELSE "off")
Place == \A x \in Thing : Undisturbed(x) => PlaceOf(x)

\* The window that is at a thing has it on its way, and knows what the server does.
At(a, x) == app[a].pc # "idle" /\ app[a].thing = x
AtWorkOf(q, x) ==
    /\ flight[x] # "no"
    /\ q.pc = "send" =>
        /\ q.close = flight[x]
        /\ q.op = (IF q.then = "rollback" THEN Back(q.close) ELSE q.close)
        /\ server[x] = (IF q.op = "apply" THEN "on" ELSE "off")
        /\ q.prior \in {"none", "on"} /\ (x \in Unit /\ q.op = "undo" => q.prior = "on")
    /\ q.pc = "end" =>
        /\ q.close = flight[x] /\ q.prior \in {"none", "on"}
        /\ server[x] = (IF q.ok = (q.close = "apply") THEN "off" ELSE "on")
    /\ q.pc = "resolve" => q.seen = server[x]
AtWork ==
    \A a \in App, x \in Thing : Undisturbed(x) /\ At(a, x) =>
        /\ AtWorkOf(app[a], x)
        /\ \A b \in App : At(b, x) => b = a

\* A window that moves everything out is at the step in front of its list; and what it
\* has still to reverse is in the list.
OutOK ==
    /\ out \in [App -> Outs]
    /\ \A a \in App : out[a].on =>
        /\ app[a] # Idle => /\ out[a].list # <<>> /\ app[a].pc # "resolve"
                            /\ Head(out[a].list) = Cut(app[a].thing)
        /\ out[a].clean => \A x \in Thing : step[Add(x)] = "done" => Add(x) \in ToSet(out[a].list)

Core == OrderOK /\ RouteOK /\ WorldOK /\ AppOK /\ UndoOK /\ FlightOK /\ Place /\ AtWork
MoveInv == Core /\ OutOK

-----------------------------------------------------------------------------
(* Sequences without repetition.                                           *)

LEMMA AppendNew ==
    ASSUME NEW S, NEW s \in Seq(S), NEW e \in S, IsInjective(s), e \notin ToSet(s)
    PROVE  /\ Append(s, e) \in Seq(S) /\ IsInjective(Append(s, e))
           /\ ToSet(Append(s, e)) = ToSet(s) \cup {e}
<1> DEFINE t == Append(s, e)
<1>1. /\ t \in Seq(S) /\ Len(t) = Len(s) + 1 /\ t[Len(s) + 1] = e
      /\ \A i \in 1..Len(s) : t[i] = s[i]
  BY AppendProperties
<1>2. DOMAIN t = 1..Len(s) + 1 /\ DOMAIN s = 1..Len(s) /\ Len(s) \in Nat
  BY <1>1, LenProperties
<1> HIDE DEF t
<1>3. \A i \in DOMAIN t : i \in DOMAIN s \/ i = Len(s) + 1
  BY <1>2
<1>4. IsInjective(t)
  BY <1>1, <1>2, <1>3 DEF IsInjective, ToSet
<1>5. ToSet(t) \subseteq ToSet(s) \cup {e}
  BY <1>1, <1>2, <1>3 DEF ToSet
<1>6. ToSet(s) \cup {e} \subseteq ToSet(t)
  <2>1. \A i \in DOMAIN s : i \in DOMAIN t /\ t[i] = s[i]
    BY <1>1, <1>2
  <2>2. Len(s) + 1 \in DOMAIN t
    BY <1>2
  <2> QED BY <1>1, <2>1, <2>2 DEF ToSet
<1> QED BY <1>1, <1>4, <1>5, <1>6 DEF t

LEMMA RemoveOne ==
    ASSUME NEW S, NEW s \in Seq(S), NEW k \in DOMAIN s, IsInjective(s)
    PROVE  /\ RemoveAt(s, k) \in Seq(S) /\ IsInjective(RemoveAt(s, k))
           /\ ToSet(RemoveAt(s, k)) = ToSet(s) \ {s[k]}
<1> DEFINE n == Len(s)
           front == SubSeq(s, 1, k - 1)
           back == SubSeq(s, k + 1, n)
           t == RemoveAt(s, k)
<1>1. n \in Nat /\ DOMAIN s = 1..n /\ k \in 1..n
  BY LenProperties
<1>2. /\ front \in Seq(S) /\ Len(front) = k - 1 /\ \A i \in 1..k - 1 : front[i] = s[i]
  <2>1. \A i \in 1..k - 1 : s[i] \in S
    BY <1>1, ElementOfSeq
  <2>2. /\ front \in Seq(S) /\ Len(front) = IF 1 <= k - 1 THEN (k - 1) - 1 + 1 ELSE 0
        /\ \A i \in 1..(k - 1) - 1 + 1 : front[i] = s[1 + i - 1]
    BY <1>1, <2>1, SubSeqProperties
  <2> QED BY <1>1, <2>2
<1>3. /\ back \in Seq(S) /\ Len(back) = n - k /\ \A i \in 1..n - k : back[i] = s[k + i]
  <2>1. \A i \in k + 1..n : s[i] \in S
    BY <1>1, ElementOfSeq
  <2>2. /\ back \in Seq(S) /\ Len(back) = IF k + 1 <= n THEN n - (k + 1) + 1 ELSE 0
        /\ \A i \in 1..n - (k + 1) + 1 : back[i] = s[(k + 1) + i - 1]
    BY <1>1, <2>1, SubSeqProperties
  <2> QED BY <1>1, <2>2
<1> HIDE DEF front, back
<1>4. t = front \o back
  BY DEF RemoveAt, front, back
<1> HIDE DEF t
<1>5. /\ t \in Seq(S) /\ Len(t) = n - 1
      /\ \A i \in 1..n - 1 : t[i] = IF i < k THEN s[i] ELSE s[i + 1]
  <2>1. /\ t \in Seq(S) /\ Len(t) = Len(front) + Len(back)
        /\ \A i \in 1..Len(front) + Len(back) :
              t[i] = IF i <= Len(front) THEN front[i] ELSE back[i - Len(front)]
    BY <1>2, <1>3, <1>4, ConcatProperties
  <2>2. ASSUME NEW i \in 1..n - 1 PROVE t[i] = IF i < k THEN s[i] ELSE s[i + 1]
    <3>1. CASE i < k
      BY <1>1, <1>2, <1>3, <2>1, <3>1
    <3>2. CASE ~(i < k)
      <4>1. t[i] = back[i - (k - 1)]
        BY <1>1, <1>2, <1>3, <2>1, <3>2
      <4>2. i - (k - 1) \in 1..n - k /\ k + (i - (k - 1)) = i + 1
        BY <1>1, <3>2
      <4> QED BY <1>1, <1>3, <3>2, <4>1, <4>2
    <3> QED BY <3>1, <3>2
  <2> QED BY <1>1, <1>2, <1>3, <2>1, <2>2
<1>6. DOMAIN t = 1..n - 1
  BY <1>5, LenProperties
<1>7. IsInjective(t)
  <2>1. SUFFICES ASSUME NEW i \in 1..n - 1, NEW j \in 1..n - 1, t[i] = t[j] PROVE i = j
    BY <1>6 DEF IsInjective
  <2> DEFINE at(m) == IF m < k THEN m ELSE m + 1
  <2>2. at(i) \in DOMAIN s /\ at(j) \in DOMAIN s
    BY <1>1
  <2>3. s[at(i)] = s[at(j)]
    BY <1>5, <2>1
  <2>4. at(i) = at(j)
    BY <2>2, <2>3 DEF IsInjective
  <2> QED BY <1>1, <2>4
<1>8. ToSet(t) \subseteq ToSet(s) \ {s[k]}
  <2>1. ASSUME NEW i \in 1..n - 1
        PROVE  \E j \in DOMAIN s : j # k /\ t[i] = s[j]
    BY <1>1, <1>5
  <2> QED BY <1>6, <2>1 DEF ToSet, IsInjective
<1>9. ToSet(s) \ {s[k]} \subseteq ToSet(t)
  <2>1. ASSUME NEW j \in DOMAIN s, j # k
        PROVE  \E i \in DOMAIN t : t[i] = s[j]
    <3>1. CASE j < k
      <4>1. j \in DOMAIN t /\ t[j] = s[j]
        BY <1>1, <1>5, <1>6, <3>1
      <4> QED BY <4>1
    <3>2. CASE j > k
      <4>1. j - 1 \in DOMAIN t /\ t[j - 1] = s[j]
        BY <1>1, <1>5, <1>6, <3>2
      <4> QED BY <4>1
    <3> QED BY <1>1, <2>1, <3>1, <3>2
  <2> QED BY <2>1 DEF ToSet
<1> QED BY <1>5, <1>7, <1>8, <1>9 DEF t

LEMMA ReverseSame ==
    ASSUME NEW S, NEW s \in Seq(S)
    PROVE  Reverse(s) \in Seq(S) /\ ToSet(Reverse(s)) = ToSet(s)
<1> DEFINE n == Len(s)
           t == Reverse(s)
<1>1. n \in Nat /\ DOMAIN s = 1..n /\ \A i \in 1..n : s[i] \in S
  BY LenProperties, ElementOfSeq
<1>2. t = [i \in 1..n |-> s[n - i + 1]]
  BY DEF Reverse
<1>3. DOMAIN t = 1..n /\ \A i \in 1..n : n - i + 1 \in 1..n /\ t[i] = s[n - i + 1]
  BY <1>1, <1>2
<1>4. t \in [1..n -> S]
  BY <1>1, <1>2, <1>3
<1>5. t \in Seq(S)
  BY <1>1, <1>4 DEF Seq
<1> HIDE DEF t
<1>6. ToSet(t) \subseteq ToSet(s)
  BY <1>1, <1>3 DEF ToSet
<1>7. ASSUME NEW j \in 1..n PROVE \E i \in 1..n : t[i] = s[j]
  <2>1. n - j + 1 \in 1..n /\ t[n - j + 1] = s[n - (n - j + 1) + 1]
    BY <1>1, <1>3
  <2>2. n - (n - j + 1) + 1 = j
    BY <1>1
  <2> QED BY <2>1, <2>2
<1>8. ToSet(s) \subseteq ToSet(t)
  <2>1. \A j \in DOMAIN s : \E i \in DOMAIN t : t[i] = s[j]
    BY <1>1, <1>3, <1>7
  <2> QED BY <2>1 DEF ToSet
<1> QED BY <1>5, <1>6, <1>8 DEF t

LEMMA TailRest ==
    ASSUME NEW S, NEW s \in Seq(S), s # <<>>
    PROVE  Tail(s) \in Seq(S) /\ Head(s) \in S /\ ToSet(s) \subseteq ToSet(Tail(s)) \cup {Head(s)}
<1>1. /\ Len(s) \in Nat \ {0} /\ DOMAIN s = 1..Len(s)
  BY EmptySeq, LenProperties
<1>2. /\ Tail(s) \in Seq(S) /\ Head(s) \in S /\ Len(Tail(s)) = Len(s) - 1
      /\ \A i \in 1..Len(Tail(s)) : Tail(s)[i] = s[i + 1]
  BY HeadTailProperties
<1>3. DOMAIN Tail(s) = 1..Len(s) - 1
  BY <1>2, LenProperties
<1>4. Head(s) = s[1]
  OBVIOUS
<1>5. ASSUME NEW i \in 1..Len(s) PROVE s[i] = Head(s) \/ s[i] \in ToSet(Tail(s))
  <2>1. CASE i = 1
    BY <1>4, <2>1
  <2>2. CASE i # 1
    <3>1. i - 1 \in 1..Len(s) - 1 /\ Tail(s)[i - 1] = s[i]
      BY <1>1, <1>2, <2>2
    <3> QED BY <1>3, <3>1 DEF ToSet
  <2> QED BY <2>1, <2>2
<1> QED BY <1>1, <1>2, <1>5 DEF ToSet

-----------------------------------------------------------------------------
(* Steps, files and their undo.                                            *)

LEMMA StepNames ==
    /\ \A x \in Thing : Add(x) \in Step /\ Cut(x) \in Step
    /\ \A x, y \in Thing : Add(x) # Cut(y) /\ (Add(x) = Add(y) => x = y) /\ (Cut(x) = Cut(y) => x = y)
    /\ \A s \in Step : \E x \in Thing : s[2] = x /\ s \in {Add(x), Cut(x)}
    /\ \A x \in Thing : Add(x)[2] = x /\ Cut(x)[2] = x
BY DEF Step, Add, Cut

\* What a step does to the order of the done steps.
LEMMA DoneOrder ==
    ASSUME OrderOK, NEW s \in Step, step[s] # "done", MarkDone(s)
    PROVE  OrderOK'
<1>1. s \notin ToSet(order)
  BY DEF OrderOK
<1>2. /\ order' \in Seq(Step) /\ IsInjective(order') /\ ToSet(order') = ToSet(order) \cup {s}
  BY <1>1, AppendNew DEF OrderOK, MarkDone
<1>3. \A t \in Step : step'[t] = IF t = s THEN "done" ELSE step[t]
  BY DEF OrderOK, MarkDone
<1>4. ToSet(order') = {t \in Step : step'[t] = "done"}
  BY <1>2, <1>3 DEF OrderOK
<1>5. step' \in [Step -> {"pending", "approved", "done", "skipped", "undone"}]
  BY DEF OrderOK, MarkDone
<1> QED BY <1>2, <1>4, <1>5 DEF OrderOK

LEMMA UndoneOrder ==
    ASSUME OrderOK, NEW s \in Step, step[s] = "done", MarkUndone(s)
    PROVE  OrderOK'
<1> DEFINE k == CHOOSE i \in DOMAIN order : order[i] = s
<1>1. s \in ToSet(order)
  BY DEF OrderOK
<1>2. k \in DOMAIN order /\ order[k] = s
  BY <1>1 DEF ToSet
<1>3. order' = RemoveAt(order, k)
  BY DEF MarkUndone
<1> HIDE DEF k
<1>4. /\ order' \in Seq(Step) /\ IsInjective(order') /\ ToSet(order') = ToSet(order) \ {s}
  BY <1>2, <1>3, RemoveOne DEF OrderOK
<1>5. \A t \in Step : step'[t] = IF t = s THEN "undone" ELSE step[t]
  BY DEF OrderOK, MarkUndone
<1>6. ToSet(order') = {t \in Step : step'[t] = "done"}
  BY <1>4, <1>5 DEF OrderOK
<1>7. step' \in [Step -> {"pending", "approved", "done", "skipped", "undone"}]
  BY DEF OrderOK, MarkUndone
<1> QED BY <1>4, <1>6, <1>7 DEF OrderOK

LEMMA FileOfStep ==
    \A x \in Thing : x \in FileOf(x) /\ x # Own /\ FileOf(x) \subseteq Row
BY ThingAssumption DEF FileOf, Row, Job

\* Only the row of the thing is written.
RowOnly(m, x) == m \in [Row -> Values] /\ \A y \in Row \ {x} : m[y] = mine[y]

LEMMA SetRow ==
    ASSUME WorldOK, NEW x \in Row, NEW v \in Values
    PROVE  RowOnly(Set(x, v), x) /\ Set(x, v)[x] = v
BY DEF WorldOK, Set, RowOnly

LEMMA SameRow == ASSUME WorldOK, NEW x \in Row PROVE RowOnly(mine, x)
BY DEF WorldOK, RowOnly

LEMMA RestoredRow ==
    ASSUME WorldOK, UndoOK, NEW x \in Thing, NEW s \in {Add(x), Cut(x)}, NEW v \in Values
    PROVE  RowOnly(Restored(s, x, v), x) /\ (Keeps(s, x, v) => Restored(s, x, v)[x] = v)
<1> DEFINE r == Restored(s, x, v)
<1>1. x \in FileOf(x) /\ x # Own /\ FileOf(x) \subseteq Row /\ x \in Row
  BY FileOfStep DEF Row
<1>2. CASE undo[s] = NoSnap
  BY <1>1, <1>2, SameRow DEF Restored, Keeps
<1>3. CASE undo[s] # NoSnap /\ Bytes(mine, x) # undo[s].after
  BY <1>1, <1>3, SetRow DEF Restored
<1>4. CASE undo[s] # NoSnap /\ Bytes(mine, x) = undo[s].after
  <2>1. undo[s] \in Snaps(x)
    BY <1>4 DEF UndoOK
  <2>2. /\ undo[s].before \in [FileOf(x) -> Values]
        /\ \A y \in FileOf(x) \ {x} : undo[s].before[y] = mine[y]
    <3>1. /\ undo[s].before \in [FileOf(x) -> Values]
          /\ \A y \in FileOf(x) \ {x} : undo[s].before[y] = undo[s].after[y]
      BY <2>1 DEF Snaps
    <3>2. \A y \in FileOf(x) : undo[s].after[y] = mine[y]
      BY <1>4 DEF Bytes
    <3> QED BY <3>1, <3>2
  <2>3. DOMAIN mine = Row /\ mine \in [Row -> Values]
    BY DEF WorldOK
  <2>4. r = [y \in Row |-> IF y \in FileOf(x) THEN undo[s].before[y] ELSE mine[y]]
    BY <1>4, <2>3 DEF Restored
  <2> QED BY <1>1, <2>2, <2>3, <2>4 DEF RowOnly, Keeps
<1> QED BY <1>2, <1>3, <1>4

LEMMA HalfDoneRow ==
    ASSUME WorldOK, NEW x \in Thing
    PROVE  /\ RowOnly(HalfDone(x), x)
           /\ mine[x] # "absent" => HalfDone(x)[x] = "on"
<1>1. x \in Row
  BY DEF Row
<1> QED BY <1>1, SetRow DEF HalfDone, Values

LEMMA HalfUndoneRow ==
    ASSUME WorldOK, UndoOK, NEW x \in Thing
    PROVE  /\ RowOnly(HalfUndone(x), x)
           /\ mine[x] # "absent" /\ Keeps(Cut(x), x, "off") => HalfUndone(x)[x] = "off"
<1>1. (IF mine[x] = "absent" THEN "absent" ELSE "off") \in Values
  BY DEF Values
<1> QED BY <1>1, RestoredRow DEF HalfUndone

LEMMA SnapRow ==
    ASSUME WorldOK, NEW x \in Thing, NEW m, RowOnly(m, x)
    PROVE  Snap(m, x) \in Snaps(x) /\ Snap(m, x) # NoSnap /\ Snap(m, x).before[x] = mine[x]
<1>1. x \in FileOf(x) /\ x # Own /\ FileOf(x) \subseteq Row
  BY FileOfStep
<1>2. /\ Bytes(mine, x) \in [FileOf(x) -> Values] /\ Bytes(m, x) \in [FileOf(x) -> Values]
      /\ Bytes(mine, x)[x] = mine[x]
      /\ \A y \in FileOf(x) \ {x} : Bytes(mine, x)[y] = Bytes(m, x)[y]
  BY <1>1 DEF Bytes, WorldOK, RowOnly
<1>3. Snap(m, x) = [before |-> Bytes(mine, x), after |-> Bytes(m, x)]
  BY DEF Snap
<1>4. Snap(m, x) # NoSnap
  <2>1. SUFFICES ASSUME Snap(m, x) = NoSnap PROVE FALSE
    OBVIOUS
  <2>2. Bytes(mine, x) = <<>>
    BY <1>3, <2>1 DEF NoSnap
  <2>3. DOMAIN Bytes(mine, x) = FileOf(x)
    BY <1>2
  <2>4. DOMAIN <<>> = {}
    OBVIOUS
  <2> QED BY <1>1, <2>2, <2>3, <2>4
<1> QED BY <1>2, <1>3, <1>4 DEF Snaps

\* The kinds never change.
LEMMA KindSame ==
    ASSUME kind' = kind, NEW x \in Thing
    PROVE  /\ (x \in Job)' = (x \in Job) /\ (x \in Unit)' = (x \in Unit)
           /\ Snaps(x)' = Snaps(x)
<1>1. Job' = Job /\ Unit' = Unit
  BY DEF Job, Unit
<1>2. FileOf(x)' = FileOf(x)
  BY <1>1 DEF FileOf
<1> QED BY <1>1, <1>2 DEF Snaps

-----------------------------------------------------------------------------
(* What a step about one thing leaves as it is.                            *)

\* A window is in one of four states.
LEMMA WindowStates ==
    ASSUME AppOK, NEW a \in App
    PROVE  /\ app[a].pc \in {"idle", "send", "end", "resolve"}
           /\ app[a].pc = "idle" <=> app[a] = Idle
           /\ app[a].pc = "send" => app[a] \in Sends
           /\ app[a].pc = "end" => app[a] \in Ends
           /\ app[a].pc = "resolve" => app[a] \in Resolves
           /\ app[a] # Idle => app[a].thing \in Thing
<1>1. app[a] \in {Idle} \cup Sends \cup Ends \cup Resolves
  BY DEF AppOK, Doing
<1> QED BY <1>1 DEF Idle, Sends, Ends, Resolves

\* Nothing the invariant says of y changes.
SameAt(y) ==
    /\ \A s \in {Add(y), Cut(y)} : (step'[s] = "done" <=> step[s] = "done") /\ undo'[s] = undo[s]
    /\ flight'[y] = flight[y] /\ prior'[y] = prior[y] /\ mine'[y] = mine[y] /\ server'[y] = server[y]

LEMMA PlaceElsewhere ==
    ASSUME Place, kind' = kind, disturbed \subseteq disturbed', NEW x \in Thing,
           \A y \in Thing \ {x} : SameAt(y),
           Undisturbed(x)' => PlaceOf(x)'
    PROVE  Place'
<1>1. SUFFICES ASSUME NEW y \in Thing, Undisturbed(y)', y # x
               PROVE  PlaceOf(y)'
  BY DEF Place
<1>2. PlaceOf(y) /\ SameAt(y)
  BY <1>1 DEF Place, Undisturbed
<1> QED BY <1>2, KindSame DEF SameAt, PlaceOf, Keeps

LEMMA PlaceSame ==
    ASSUME Place, kind' = kind, disturbed \subseteq disturbed', \A y \in Thing : SameAt(y)
    PROVE  Place'
<1>1. SUFFICES ASSUME NEW y \in Thing, Undisturbed(y)'
               PROVE  PlaceOf(y)'
  BY DEF Place
<1>2. PlaceOf(y) /\ SameAt(y)
  BY <1>1 DEF Place, Undisturbed
<1> QED BY <1>2, KindSame DEF SameAt, PlaceOf, Keeps

LEMMA AtWorkSame ==
    ASSUME AtWork, UNCHANGED <<kind, flight, server, app>>, disturbed \subseteq disturbed'
    PROVE  AtWork'
<1>1. SUFFICES ASSUME NEW a \in App, NEW x \in Thing, Undisturbed(x)', At(a, x)'
               PROVE  AtWorkOf(app[a], x)' /\ \A b \in App : At(b, x)' => b = a
  BY DEF AtWork
<1>2. At(a, x) /\ AtWorkOf(app[a], x) /\ \A b \in App : At(b, x) => b = a
  BY <1>1 DEF AtWork, At, Undisturbed
<1> QED BY <1>2, KindSame DEF AtWorkOf, At

\* A step of one window about one thing.
LEMMA AtWorkElsewhere ==
    ASSUME AtWork, kind' = kind, disturbed \subseteq disturbed', NEW a \in App, NEW x \in Thing,
           \A b \in App \ {a} : app'[b] = app[b],
           \A y \in Thing \ {x} : flight'[y] = flight[y] /\ server'[y] = server[y] /\ ~At(a, y)',
           Undisturbed(x)' => \A b \in App \ {a} : ~At(b, x),
           Undisturbed(x)' /\ At(a, x)' => AtWorkOf(app[a], x)'
    PROVE  AtWork'
<1>1. SUFFICES ASSUME NEW b \in App, NEW y \in Thing, Undisturbed(y)', At(b, y)'
               PROVE  AtWorkOf(app[b], y)' /\ \A c \in App : At(c, y)' => c = b
  BY DEF AtWork
<1>2. CASE y = x
  BY <1>1, <1>2 DEF At
<1>3. CASE y # x
  <2>1. b # a /\ At(b, y) /\ Undisturbed(y)
    BY <1>1, <1>3 DEF At, Undisturbed
  <2>2. AtWorkOf(app[b], y) /\ \A c \in App : At(c, y) => c = b
    BY <2>1 DEF AtWork
  <2>3. AtWorkOf(app[b], y)'
    BY <1>3, <2>1, <2>2, KindSame DEF AtWorkOf
  <2> QED BY <1>3, <2>1, <2>2, <2>3 DEF At
<1> QED BY <1>2, <1>3

LEMMA UndoSame == ASSUME UndoOK, UNCHANGED <<undo, kind>> PROVE UndoOK'
BY KindSame DEF UndoOK

LEMMA UndoWritten ==
    ASSUME UndoOK, kind' = kind, NEW x \in Thing, NEW s \in {Add(x), Cut(x)}, NEW u,
           u = NoSnap \/ u \in Snaps(x), undo' = [undo EXCEPT ![s] = u]
    PROVE  UndoOK' /\ undo'[s] = u /\ \A t \in Step \ {s} : undo'[t] = undo[t]
<1>1. s \in Step /\ DOMAIN undo = Step
  BY StepNames DEF UndoOK
<1>2. undo'[s] = u /\ \A t \in Step \ {s} : undo'[t] = undo[t]
  BY <1>1
<1>3. undo' = [t \in Step |-> undo'[t]]
  BY <1>1
<1>4. ASSUME NEW y \in Thing, NEW t \in {Add(y), Cut(y)}
      PROVE  undo'[t] = NoSnap \/ undo'[t] \in Snaps(y)'
  <2>1. Snaps(y)' = Snaps(y) /\ t \in Step
    BY KindSame, StepNames
  <2>2. CASE t = s
    BY <1>2, <2>1, <2>2, StepNames
  <2>3. CASE t # s
    BY <1>2, <2>1, <2>3 DEF UndoOK
  <2> QED BY <2>2, <2>3
<1> QED BY <1>2, <1>3, <1>4 DEF UndoOK

-----------------------------------------------------------------------------
(* The commands that change the container alone.                           *)

LEMMA MoveCore ==
    ASSUME Core, NEW s \in Step, NEW from, NEW to \in {"pending", "approved", "skipped"},
           "done" \notin from, Move(s, from, to)
    PROVE  Core'
<1>1. \A t \in Step : step'[t] = IF t = s THEN to ELSE step[t]
  BY DEF Core, OrderOK, Move
<1>2. \A t \in Step : step'[t] = "done" <=> step[t] = "done"
  BY <1>1 DEF Move
<1>3. OrderOK'
  <2>1. step' \in [Step -> {"pending", "approved", "done", "skipped", "undone"}]
    BY DEF Core, OrderOK, Move
  <2>2. order' = order /\ {t \in Step : step'[t] = "done"} = {t \in Step : step[t] = "done"}
    BY <1>2 DEF Move
  <2> QED BY <2>1, <2>2 DEF Core, OrderOK
<1>4. RouteOK' /\ WorldOK' /\ AppOK' /\ UndoOK' /\ AtWork'
  BY UndoSame, AtWorkSame DEF Core, Move, RouteOK, WorldOK, AppOK
<1>5. FlightOK'
  BY <1>2, StepNames DEF Core, FlightOK, Move
<1>6. Place'
  <2>1. \A y \in Thing : SameAt(y)
    BY <1>2, StepNames DEF SameAt, Move
  <2> QED BY <2>1, PlaceSame DEF Core, Move
<1> QED BY <1>3, <1>4, <1>5, <1>6 DEF Core

LEMMA ApplyAddCore ==
    ASSUME Core, NEW x \in Thing, ApplyAdd(x)
    PROVE  Core'
<1> DEFINE s == Add(x)
<1>1. /\ s \in Step /\ x \in Row /\ step[s] = "approved" /\ kind' = kind
      /\ UNCHANGED <<flight, prior, server, moving, app>> /\ disturbed \subseteq disturbed'
  BY StepNames DEF Row, ApplyAdd, DiesBeforePlan, Disturb, plan
<1>2. RowOnly(mine', x) /\ mine'[x] = "off"
  BY <1>1, SetRow DEF Core, ApplyAdd, Values
<1>3. Snap(mine', x) \in Snaps(x) /\ Snap(mine', x) # NoSnap /\ Snap(mine', x).before[x] = mine[x]
  BY <1>2, SnapRow DEF Core
<1>4. UndoOK' /\ undo'[s] = Snap(mine', x) /\ \A t \in Step \ {s} : undo'[t] = undo[t]
  BY <1>1, <1>3, UndoWritten DEF Core, ApplyAdd
<1>5. OrderOK' /\ \A t \in Step \ {s} : step'[t] = "done" <=> step[t] = "done"
  <2>1. CASE MarkDone(s)
    <3>1. OrderOK'
      BY <1>1, <2>1, DoneOrder DEF Core
    <3>2. \A t \in Step \ {s} : step'[t] = step[t]
      BY <2>1 DEF MarkDone, Core, OrderOK
    <3> QED BY <3>1, <3>2
  <2>2. CASE DiesBeforePlan(x)
    BY <2>2 DEF DiesBeforePlan, plan, Core, OrderOK
  <2> QED BY <2>1, <2>2 DEF ApplyAdd
<1>6. RouteOK' /\ AppOK' /\ AtWork'
  BY <1>1, AtWorkSame DEF Core, RouteOK, AppOK
<1>7. WorldOK'
  BY <1>1, <1>2, FaultAssumption DEF Core, WorldOK, RowOnly, ApplyAdd, DiesBeforePlan, Fault, Disturb
<1>8. FlightOK'
  BY <1>1, <1>5, StepNames DEF Core, FlightOK
<1>9. Place'
  <2>1. \A y \in Thing \ {x} : SameAt(y)
    BY <1>1, <1>2, <1>4, <1>5, StepNames DEF SameAt, RowOnly, Row
  <2>2. ASSUME Undisturbed(x)' PROVE PlaceOf(x)'
    <3>1. PlaceOf(x) /\ MarkDone(s)
      BY <1>1, <2>2 DEF Core, Place, Undisturbed, ApplyAdd, DiesBeforePlan, Disturb
    <3>2. step'[s] = "done" /\ step'[Cut(x)] = step[Cut(x)] /\ undo'[Cut(x)] = undo[Cut(x)]
      BY <1>1, <1>4, <3>1, StepNames DEF MarkDone, Core, OrderOK
    <3>3. flight[x] = "no" /\ step[Cut(x)] # "done" /\ mine[x] = "absent"
      BY <1>1, <3>1 DEF PlaceOf
    <3> QED BY <1>1, <1>2, <1>3, <1>4, <3>1, <3>2, <3>3 DEF PlaceOf, Keeps
  <2> QED BY <1>1, <2>1, <2>2, PlaceElsewhere DEF Core
<1> QED BY <1>4, <1>5, <1>6, <1>7, <1>8, <1>9 DEF Core

LEMMA UndoAddCore ==
    ASSUME Core, NEW x \in Thing, UndoAdd(x), UNCHANGED app
    PROVE  Core'
<1> DEFINE s == Add(x)
<1>1. /\ s \in Step /\ x \in Row /\ step[s] = "done" /\ step[Cut(x)] # "done" /\ kind' = kind
      /\ UNCHANGED <<flight, prior, server, moving, app>> /\ disturbed \subseteq disturbed'
  BY StepNames DEF Row, UndoAdd, CanUndoAdd, DiesBeforePlan, Disturb, plan
<1>2. RowOnly(mine', x) /\ (Keeps(s, x, "absent") => mine'[x] = "absent")
  BY <1>1, RestoredRow DEF Core, UndoAdd, Values
<1>3. UndoOK' /\ undo'[s] = NoSnap /\ \A t \in Step \ {s} : undo'[t] = undo[t]
  BY <1>1, UndoWritten DEF Core, UndoAdd
<1>4. OrderOK' /\ \A t \in Step \ {s} : step'[t] = "done" <=> step[t] = "done"
  <2>1. CASE MarkUndone(s)
    <3>1. OrderOK'
      BY <1>1, <2>1, UndoneOrder DEF Core
    <3>2. \A t \in Step \ {s} : step'[t] = step[t]
      BY <2>1 DEF MarkUndone, Core, OrderOK
    <3> QED BY <3>1, <3>2
  <2>2. CASE DiesBeforePlan(x)
    BY <2>2 DEF DiesBeforePlan, plan, Core, OrderOK
  <2> QED BY <2>1, <2>2 DEF UndoAdd
<1>5. RouteOK' /\ AppOK' /\ AtWork'
  BY <1>1, AtWorkSame DEF Core, RouteOK, AppOK
<1>6. WorldOK'
  BY <1>1, <1>2, FaultAssumption DEF Core, WorldOK, RowOnly, UndoAdd, DiesBeforePlan, Fault, Disturb
<1>7. FlightOK'
  BY <1>1, <1>4, StepNames DEF Core, FlightOK
<1>8. Place'
  <2>1. \A y \in Thing \ {x} : SameAt(y)
    BY <1>1, <1>2, <1>3, <1>4, StepNames DEF SameAt, RowOnly, Row
  <2>2. ASSUME Undisturbed(x)' PROVE PlaceOf(x)'
    <3>1. PlaceOf(x) /\ MarkUndone(s) /\ flight[x] = "no"
      BY <1>1, <2>2 DEF Core, Place, Undisturbed, UndoAdd, DiesBeforePlan, Disturb
    <3>2. step'[s] # "done" /\ step'[Cut(x)] = step[Cut(x)] /\ undo'[Cut(x)] = undo[Cut(x)]
      BY <1>1, <1>3, <3>1, StepNames DEF MarkUndone, Core, OrderOK
    <3> QED BY <1>1, <1>2, <1>3, <3>1, <3>2 DEF PlaceOf, Keeps
  <2> QED BY <1>1, <2>1, <2>2, PlaceElsewhere DEF Core
<1> QED BY <1>3, <1>4, <1>5, <1>6, <1>7, <1>8 DEF Core

LEMMA ReplanCore == Core /\ Replan => Core'
<1> SUFFICES ASSUME Core, Replan PROVE Core'
  OBVIOUS
<1>1. /\ UNCHANGED <<kind, step, order, prior, mine, undo, server, moving, app, faults>>
      /\ disturbed' = disturbed \cup {x \in Thing : flight[x] # "no"}
      /\ flight' = [x \in Thing |-> "no"]
  BY DEF Replan, Disturb
<1>2. OrderOK' /\ RouteOK' /\ WorldOK' /\ AppOK' /\ UndoOK' /\ FlightOK'
  BY <1>1, UndoSame DEF Core, OrderOK, RouteOK, WorldOK, AppOK, FlightOK
<1>3. \A x \in Thing : Undisturbed(x)' => flight[x] = "no" /\ Undisturbed(x)
  BY <1>1 DEF Undisturbed
<1>4. Place'
  <2>1. SUFFICES ASSUME NEW x \in Thing, Undisturbed(x)' PROVE PlaceOf(x)'
    BY DEF Place
  <2>2. PlaceOf(x) /\ flight'[x] = flight[x]
    BY <1>1, <1>3, <2>1 DEF Core, Place
  <2> QED BY <1>1, <2>2, KindSame DEF PlaceOf, Keeps
<1>5. AtWork'
  BY <1>1, <1>3 DEF Core, AtWork, At, AtWorkOf
<1> QED BY <1>2, <1>4, <1>5 DEF Core

LEMMA OwnEditCore == Core /\ OwnEdit => Core'
<1> SUFFICES ASSUME Core, OwnEdit PROVE Core'
  OBVIOUS
<1>1. UNCHANGED <<kind, plan, undo, server, moving, app, disturbed>>
  BY DEF OwnEdit
<1>2. RowOnly(mine', Own)
  BY SetRow DEF Core, OwnEdit, Row, Values
<1>3. OrderOK' /\ RouteOK' /\ AppOK' /\ UndoOK' /\ FlightOK' /\ AtWork'
  BY <1>1, UndoSame, AtWorkSame DEF Core, OrderOK, RouteOK, AppOK, FlightOK, plan
<1>4. WorldOK'
  BY <1>1, <1>2, FaultAssumption DEF Core, WorldOK, RowOnly, OwnEdit, Fault
<1>5. Place'
  <2>1. \A y \in Thing : SameAt(y)
    BY <1>1, <1>2, ThingAssumption DEF SameAt, RowOnly, Row, plan
  <2> QED BY <1>1, <2>1, PlaceSame DEF Core
<1> QED BY <1>3, <1>4, <1>5 DEF Core

LEMMA HandEditCore == ASSUME Core, NEW x \in Thing, HandEdit(x) PROVE Core'
<1>1. UNCHANGED <<kind, plan, undo, moving, app>> /\ disturbed' = disturbed \cup {x}
  BY DEF HandEdit, Disturb
<1>2. RowOnly(mine', x) /\ x \in Row
  BY SetRow, SameRow DEF Core, HandEdit, Row, Values
<1>3. server' \in [Thing -> Shown] /\ \A y \in Thing \ {x} : server'[y] = server[y]
  BY DEF Core, WorldOK, HandEdit, Shown
<1>4. OrderOK' /\ RouteOK' /\ AppOK' /\ UndoOK' /\ FlightOK'
  BY <1>1, UndoSame DEF Core, OrderOK, RouteOK, AppOK, FlightOK, plan
<1>5. WorldOK'
  BY <1>1, <1>2, <1>3, FaultAssumption DEF Core, WorldOK, RowOnly, HandEdit, Fault
<1>6. ~Undisturbed(x)' /\ \A y \in Thing \ {x} : SameAt(y)
  BY <1>1, <1>2, <1>3 DEF SameAt, RowOnly, Row, plan, Undisturbed
<1>7. Place'
  BY <1>1, <1>6, PlaceElsewhere DEF Core
<1>8. AtWork'
  <2>1. SUFFICES ASSUME NEW a \in App, NEW y \in Thing \ {x}, Undisturbed(y)', At(a, y)'
                 PROVE  AtWorkOf(app[a], y)' /\ \A b \in App : At(b, y)' => b = a
    BY <1>6 DEF AtWork
  <2>2. At(a, y) /\ AtWorkOf(app[a], y) /\ \A b \in App : At(b, y) => b = a
    BY <1>1, <2>1 DEF Core, AtWork, At, Undisturbed
  <2> QED BY <1>1, <1>6, <2>2, KindSame DEF AtWorkOf, At, SameAt
<1> QED BY <1>4, <1>5, <1>7, <1>8 DEF Core

-----------------------------------------------------------------------------
(* A host step.                                                            *)

\* An undisturbed thing that is not on its way has no window at it.
LEMMA NobodyAt ==
    ASSUME AtWork, NEW x \in Thing, Undisturbed(x), flight[x] = "no", NEW a \in App
    PROVE  ~At(a, x)
BY DEF AtWork, AtWorkOf

LEMMA BeginCore ==
    ASSUME Core, NEW a \in App, NEW x \in Thing, NEW way \in Ways, Begin(a, x, way)
    PROVE  Core'
<1> DEFINE s == Cut(x)
           sent == Sending(x, way, way, prior[x])
<1>1. /\ s \in Step /\ x \in Row /\ kind' = kind /\ flight[x] = "no" /\ app[a] = Idle
      /\ UNCHANGED <<step, prior, order, server, moving>> /\ disturbed \subseteq disturbed'
      /\ way = "apply" => step[s] # "done" /\ step[Add(x)] = "done" /\ (x \in Job => mine[x] # "absent")
      /\ way = "undo" => step[s] = "done" /\ (x \in Unit => prior[x] # "none")
  BY StepNames DEF Row, Begin, CanBegin, DiesBeforePlan, Disturb, plan
<1>2. \/ /\ flight' = [flight EXCEPT ![x] = way] /\ app' = [app EXCEPT ![a] = sent]
         /\ UNCHANGED <<faults, disturbed>>
      \/ /\ flight' = flight /\ app' = app /\ ~Undisturbed(x)' /\ Fault /\ disturbed' = disturbed \cup {x}
  BY DEF Begin, DiesBeforePlan, Disturb, Undisturbed, plan
<1>3. /\ RowOnly(mine', x) /\ UndoOK' /\ \A t \in Step \ {s} : undo'[t] = undo[t]
      /\ ~HalfFirst(x, way) => UNCHANGED <<mine, undo>>
      /\ HalfFirst(x, way) /\ way = "apply" =>
            /\ undo'[s] # NoSnap /\ undo'[s].before[x] = mine[x]
            /\ mine[x] # "absent" => mine'[x] = "on"
      /\ HalfFirst(x, way) /\ way = "undo" =>
            /\ UNCHANGED undo
            /\ mine[x] # "absent" /\ Keeps(s, x, "off") => mine'[x] = "off"
  <2>1. CASE ~HalfFirst(x, way)
    BY <1>1, <2>1, SameRow, UndoSame DEF Core, Begin
  <2>2. CASE HalfFirst(x, way) /\ way = "apply"
    <3>1. mine' = HalfDone(x) /\ undo' = [undo EXCEPT ![s] = Snap(mine', x)]
      BY <2>2 DEF Begin, HalfMoves
    <3>2. RowOnly(mine', x) /\ (mine[x] # "absent" => mine'[x] = "on")
      BY <3>1, HalfDoneRow DEF Core
    <3>3. Snap(mine', x) \in Snaps(x) /\ Snap(mine', x) # NoSnap /\ Snap(mine', x).before[x] = mine[x]
      BY <3>2, SnapRow DEF Core
    <3>4. UndoOK' /\ undo'[s] = Snap(mine', x) /\ \A t \in Step \ {s} : undo'[t] = undo[t]
      BY <1>1, <3>1, <3>3, UndoWritten DEF Core
    <3> QED BY <2>2, <3>2, <3>3, <3>4
  <2>3. CASE HalfFirst(x, way) /\ way = "undo"
    <3>1. mine' = HalfUndone(x) /\ UNCHANGED undo
      BY <2>3 DEF Begin, HalfMoves
    <3> QED BY <1>1, <2>3, <3>1, HalfUndoneRow, UndoSame DEF Core
  <2> QED BY <2>1, <2>2, <2>3 DEF Ways
<1>4. sent \in Sends /\ sent.pc = "send" /\ sent.thing = x
  BY DEF Sending, Sends, Core, RouteOK, Ways
<1>5. OrderOK' /\ RouteOK' /\ AppOK'
  BY <1>1, <1>2, <1>4 DEF Core, OrderOK, RouteOK, AppOK, Doing
<1>6. WorldOK'
  BY <1>1, <1>2, <1>3, FaultAssumption DEF Core, WorldOK, RowOnly, Fault
<1>7. FlightOK'
  BY <1>1, <1>2 DEF Core, FlightOK, RouteOK
<1>8. \A y \in Thing \ {x} : SameAt(y)
  <2>1. \A y \in Thing \ {x} : flight'[y] = flight[y]
    BY <1>2 DEF Core, RouteOK
  <2> QED BY <1>1, <1>3, <2>1, StepNames DEF SameAt, RowOnly, Row
<1>9. ASSUME Undisturbed(x)'
      PROVE  Undisturbed(x) /\ PlaceOf(x) /\ flight'[x] = way /\ app' = [app EXCEPT ![a] = sent]
  BY <1>1, <1>2, <1>9 DEF Undisturbed, Core, Place, RouteOK
<1>10. Place'
  <2>1. ASSUME Undisturbed(x)' PROVE PlaceOf(x)'
    <3>1. PlaceOf(x) /\ flight'[x] = way /\ flight'[x] # "no" /\ undo'[Add(x)] = undo[Add(x)]
      BY <1>3, <1>9, <2>1, StepNames DEF Ways
    <3>2. mine'[x] = (IF x \in Job THEN "on" ELSE "off") /\ (mine'[x] = "on" => Keeps(s, x, "off")')
      <4>1. CASE way = "apply"
        <5>1. mine[x] = "off"
          BY <1>1, <1>9, <2>1, <4>1 DEF PlaceOf
        <5> QED BY <1>3, <4>1, <5>1 DEF HalfFirst, Keeps
      <4>2. CASE way = "undo"
        <5>1. mine[x] = "on" /\ Keeps(s, x, "off")
          BY <1>1, <1>9, <2>1, <4>2 DEF PlaceOf
        <5> QED BY <1>3, <4>2, <5>1 DEF HalfFirst, Keeps
      <4> QED BY <4>1, <4>2 DEF Ways
    <3>3. step[Add(x)] = "done"
      BY <1>1, <3>1 DEF PlaceOf, Ways
    <3> QED BY <1>1, <3>1, <3>2, <3>3, KindSame DEF PlaceOf, Keeps
  <2> QED BY <1>1, <1>8, <2>1, PlaceElsewhere DEF Core
<1>11. AtWork'
  <2>1. CASE app' = app /\ flight' = flight
    BY <1>1, <2>1, AtWorkSame DEF Core
  <2>2. CASE app' = [app EXCEPT ![a] = sent]
    <3>1. app'[a] = sent /\ \A b \in App \ {a} : app'[b] = app[b]
      BY <2>2 DEF Core, AppOK
    <3>2. \A y \in Thing \ {x} : ~At(a, y)'
      BY <1>4, <3>1 DEF At
    <3>3. Undisturbed(x)' => \A b \in App \ {a} : ~At(b, x)
      BY <1>1, <1>9, NobodyAt DEF Core
    <3>4. ASSUME Undisturbed(x)' PROVE AtWorkOf(app[a], x)'
      <4>1. /\ sent.op = way /\ sent.close = way /\ sent.then = "asked" /\ sent.prior = prior[x]
            /\ sent.pc = "send"
        BY DEF Sending
      <4>2. /\ flight'[x] = way /\ way # "no" /\ prior[x] \in {"none", "on"}
            /\ server'[x] = (IF way = "apply" THEN "on" ELSE "off")
        BY <1>1, <1>9, <3>4 DEF PlaceOf, Ways
      <4> QED BY <1>1, <3>1, <4>1, <4>2, KindSame DEF AtWorkOf
    <3> QED BY <1>1, <1>8, <3>1, <3>2, <3>3, <3>4, AtWorkElsewhere DEF Core, SameAt
  <2> QED BY <1>2, <2>1, <2>2
<1> QED BY <1>3, <1>5, <1>6, <1>7, <1>10, <1>11 DEF Core

\* What the answer to an operation, given or not, makes of a window.
LEMMA AnsweredIs ==
    ASSUME NEW q \in Sends, NEW ok \in BOOLEAN, NEW found \in Priors
    PROVE  /\ Answered(q, ok, found) \in Doing /\ Answered(q, ok, found).pc \in {"idle", "end"}
           /\ Answered(q, ok, found).pc = "end" =>
                /\ Answered(q, ok, found) =
                     [pc |-> "end", thing |-> q.thing, close |-> q.close,
                      ok |-> IF q.then = "asked" THEN ok ELSE q.then = "finish", prior |-> found]
                /\ q.then # "asked" => ok
BY DEF Answered, Idle, Doing, Sends, Ends, Resolutions, Ways, Priors, Shown

\* The server never refuses what an undisturbed window asks.
LEMMA ServesIs ==
    ASSUME Core, NEW q \in Sends, Serves(q)
    PROVE  /\ server' \in [Thing -> Shown] /\ \A y \in Thing \ {q.thing} : server'[y] = server[y]
           /\ AtWorkOf(q, q.thing) => /\ ~Refuses(q) /\ server'[q.thing] = (IF q.op = "apply" THEN "off" ELSE "on")
                                      /\ Found(q) \in {"none", "on"}
<1>1. q.pc = "send" /\ q.thing \in Thing /\ q.op \in Ways
  BY DEF Sends
<1>2. server \in [Thing -> Shown]
  BY DEF Core, WorldOK
<1>3. server' \in [Thing -> Shown] /\ \A y \in Thing \ {q.thing} : server'[y] = server[y]
  BY <1>1, <1>2 DEF Serves, Shown
<1>4. server'[q.thing] = IF q.op = "apply" THEN "off"
                         ELSE IF q.thing \in Unit /\ q.prior # "on" THEN server[q.thing] ELSE "on"
  BY <1>1, <1>2 DEF Serves
<1>5. ASSUME AtWorkOf(q, q.thing)
      PROVE  /\ ~Refuses(q) /\ server'[q.thing] = (IF q.op = "apply" THEN "off" ELSE "on")
             /\ Found(q) \in {"none", "on"}
  BY <1>1, <1>4, <1>5 DEF AtWorkOf, Refuses, Found, Ways
<1> QED BY <1>3, <1>5

\* The operation is done, or not, and the window hears of it, or not.
LEMMA AnswerCore ==
    ASSUME Core, NEW a \in App, NEW q \in Sends, NEW x \in Thing, q = app[a], x = q.thing,
           UNCHANGED <<plan, mine, undo, moving, kind>>,
           NEW ok \in BOOLEAN, NEW found \in Priors, app' = [app EXCEPT ![a] = Answered(q, ok, found)],
           faults' \in 0..MaxFaults, disturbed \subseteq disturbed', disturbed' \subseteq Thing,
           \/ UNCHANGED server /\ ~ok /\ found = "none"
           \/ /\ Serves(q)
              /\ \/ ok /\ found = Found(q)
                 \/ ~Undisturbed(x)' \/ (~ok /\ q.then # "asked")
    PROVE  Core'
<1> DEFINE r == Answered(q, ok, found)
<1>1. /\ UNCHANGED <<step, flight, prior, order, mine, undo, moving, kind>>
      /\ q.pc = "send"
  BY DEF plan, Sends
<1>2. /\ server' \in [Thing -> Shown] /\ \A y \in Thing \ {x} : server'[y] = server[y]
      /\ server'[x] # "gone" \/ server'[x] = server[x]
  <2>1. CASE UNCHANGED server
    BY <2>1 DEF Core, WorldOK
  <2>2. CASE Serves(q)
    <3>1. server' \in [Thing -> Shown] /\ \A y \in Thing \ {x} : server'[y] = server[y]
      BY <1>1, <2>2, ServesIs
    <3>2. server'[x] # "gone" \/ server'[x] = server[x]
      BY <1>1, <2>2 DEF Serves, Core, WorldOK
    <3> QED BY <3>1, <3>2
  <2> QED BY <2>1, <2>2
<1>3. r \in Doing /\ r.pc \in {"idle", "end"} /\ (r.pc = "end" => r.thing = x)
  BY <1>1, AnsweredIs
<1>4. app'[a] = r /\ (\A b \in App \ {a} : app'[b] = app[b]) /\ app' \in [App -> Doing]
  BY <1>3 DEF Core, AppOK
<1>5. OrderOK' /\ RouteOK' /\ UndoOK' /\ FlightOK' /\ AppOK' /\ WorldOK'
  BY <1>1, <1>2, <1>4, UndoSame DEF Core, OrderOK, RouteOK, FlightOK, AppOK, WorldOK
<1>6. \A y \in Thing \ {x} : SameAt(y)
  BY <1>1, <1>2 DEF SameAt
<1>7. ASSUME Undisturbed(x)'
      PROVE  PlaceOf(x) /\ AtWorkOf(q, x) /\ \A b \in App \ {a} : ~At(b, x)
  <2>1. Undisturbed(x) /\ At(a, x)
    BY <1>1, <1>7 DEF At, Undisturbed
  <2> QED BY <2>1 DEF Core, Place, AtWork
<1>8. Place'
  <2>1. ASSUME Undisturbed(x)' PROVE PlaceOf(x)'
    BY <1>1, <1>2, <1>7, <2>1, KindSame DEF PlaceOf, AtWorkOf, Keeps
  <2> QED BY <1>1, <1>6, <2>1, PlaceElsewhere DEF Core
<1>9. AtWork'
  <2>1. \A y \in Thing \ {x} : ~At(a, y)'
    BY <1>3, <1>4 DEF At
  <2>2. ASSUME Undisturbed(x)', At(a, x)' PROVE AtWorkOf(app[a], x)'
    <3>1. r.pc = "end"
      BY <1>3, <1>4, <2>2 DEF At
    <3>2. /\ r = [pc |-> "end", thing |-> x, close |-> q.close,
                  ok |-> IF q.then = "asked" THEN ok ELSE q.then = "finish", prior |-> found]
          /\ q.then # "asked" => ok
      BY <1>1, <3>1, AnsweredIs
    <3>3. /\ q.close = flight[x] /\ flight[x] # "no" /\ flight[x] \in {"no"} \cup Ways
          /\ q.op = (IF q.then = "rollback" THEN Back(q.close) ELSE q.close)
          /\ server[x] = (IF q.op = "apply" THEN "on" ELSE "off")
          /\ q.then \in {"asked"} \cup Resolutions
      BY <1>1, <1>7, <2>2 DEF AtWorkOf, Sends, Core, RouteOK
    <3>4. found \in {"none", "on"} /\ server'[x] = (IF (q.op = "apply") = ok THEN "off" ELSE "on")
      <4>1. CASE UNCHANGED server /\ ~ok /\ found = "none"
        BY <3>3, <4>1 DEF Ways, Back
      <4>2. CASE Serves(q) /\ ok /\ found = Found(q)
        BY <1>1, <1>7, <2>2, <3>3, <4>2, ServesIs DEF Ways, Back
      <4> QED BY <2>2, <3>2, <4>1, <4>2
    <3>5. server'[x] = (IF r.ok = (r.close = "apply") THEN "off" ELSE "on")
      BY <3>2, <3>3, <3>4 DEF Ways, Back, Resolutions
    <3> QED BY <1>1, <1>4, <3>1, <3>2, <3>3, <3>4, <3>5 DEF AtWorkOf
  <2> QED BY <1>1, <1>2, <1>4, <1>7, <2>1, <2>2, AtWorkElsewhere DEF Core
<1> QED BY <1>5, <1>8, <1>9 DEF Core

LEMMA ServeCore == ASSUME Core, NEW a \in App, Serve(a) PROVE Core'
<1>1. PICK q \in Sends : q = app[a]
  BY WindowStates DEF Core, Serve
<1>2. q.thing \in Thing /\ q.pc = "send"
  BY DEF Sends
<1>3. Found(q) \in Priors /\ (Refuses(q) => Found(q) = "none") /\ Refuses(q) \in BOOLEAN
  BY <1>2 DEF Found, Priors, Core, WorldOK, Refuses
<1>4. faults' \in 0..MaxFaults /\ disturbed' = disturbed /\ disturbed' \subseteq Thing
  BY DEF Core, WorldOK, Serve
<1>5. /\ UNCHANGED <<plan, mine, undo, moving, kind>>
      /\ IF Refuses(q) THEN UNCHANGED server ELSE Serves(q)
      /\ app' = [app EXCEPT ![a] = Answered(q, ~Refuses(q), Found(q))]
  BY <1>1 DEF Serve
<1> QED BY <1>1, <1>2, <1>3, <1>4, <1>5, AnswerCore

LEMMA NoAnswerCore == ASSUME Core, NEW a \in App, NoAnswer(a) PROVE Core'
<1>1. PICK q \in Sends : q = app[a]
  BY WindowStates DEF Core, NoAnswer
<1>2. PICK x \in Thing : x = q.thing
  BY DEF Sends
<1>3. /\ UNCHANGED <<plan, mine, undo, moving, kind>> /\ Fault
      /\ app' = [app EXCEPT ![a] = Answered(q, FALSE, "none")]
      /\ \/ UNCHANGED <<server, disturbed>>
         \/ Serves(q) /\ disturbed' = disturbed \cup (IF q.then = "asked" THEN {x} ELSE {})
  BY <1>1, <1>2 DEF NoAnswer, Disturb
<1>4. faults' \in 0..MaxFaults /\ disturbed \subseteq disturbed' /\ disturbed' \subseteq Thing
  BY <1>3, FaultAssumption DEF Core, WorldOK, Fault
<1>5. "none" \in Priors /\ (q.then = "asked" /\ ~UNCHANGED <<server, disturbed>> => ~Undisturbed(x)')
  BY <1>3 DEF Priors, Undisturbed
<1> QED BY <1>1, <1>2, <1>3, <1>4, <1>5, AnswerCore

LEMMA EndCore == ASSUME Core, NEW a \in App, End(a) PROVE Core'
<1>1. PICK q \in Ends : q = app[a]
  BY WindowStates DEF Core, End
<1>2. PICK x \in Thing, way \in Ways : x = q.thing /\ way = q.close
  BY DEF Ends
<1> DEFINE s == Cut(x)
           moves == IF q.ok THEN ~HalfFirst(x, way) ELSE HalfFirst(x, way)
           half == IF q.ok THEN way ELSE Back(way)
           file == IF ~moves THEN mine ELSE IF half = "apply" THEN HalfDone(x) ELSE HalfUndone(x)
           u == IF half = "undo" THEN NoSnap ELSE IF moves THEN Snap(file, x) ELSE undo[s]
<1>3. /\ flight[x] = way /\ mine' = file /\ undo' = [undo EXCEPT ![s] = u]
      /\ app' = [app EXCEPT ![a] = Idle] /\ kind' = kind /\ UNCHANGED <<server, moving>>
      /\ \/ EndDone(x, way, q.ok, q.prior) /\ UNCHANGED <<faults, disturbed>>
         \/ /\ UNCHANGED <<step, flight, prior, order>> /\ Fault
            /\ disturbed' = disturbed \cup {x} /\ ~Undisturbed(x)'
  BY <1>1, <1>2 DEF End, DiesBeforePlan, Disturb, Undisturbed, plan
<1>4. /\ s \in Step /\ x \in Row /\ q.pc = "end" /\ q.ok \in BOOLEAN /\ q.prior \in Priors
      /\ half \in Ways /\ way # "no"
  BY StepNames DEF Row, Ends, Ways, Back
<1>5. /\ RowOnly(mine', x)
      /\ moves /\ half = "apply" /\ mine[x] # "absent" => mine'[x] = "on"
      /\ moves /\ half = "undo" /\ mine[x] # "absent" /\ Keeps(s, x, "off") => mine'[x] = "off"
      /\ ~moves => mine'[x] = mine[x]
  BY <1>3, <1>4, HalfDoneRow, HalfUndoneRow, SameRow DEF Core, Ways
<1>6. /\ UndoOK' /\ undo'[s] = u /\ \A t \in Step \ {s} : undo'[t] = undo[t]
      /\ moves /\ half = "apply" => undo'[s] # NoSnap /\ undo'[s].before[x] = mine[x]
  <2>1. file = mine'
    BY <1>3
  <2>2. Snap(file, x) \in Snaps(x) /\ Snap(file, x) # NoSnap /\ Snap(file, x).before[x] = mine[x]
    BY <1>5, <2>1, SnapRow DEF Core
  <2>3. undo[s] = NoSnap \/ undo[s] \in Snaps(x)
    BY DEF Core, UndoOK
  <2>4. u = NoSnap \/ u \in Snaps(x)
    BY <2>2, <2>3
  <2>5. UndoOK' /\ undo'[s] = u /\ \A t \in Step \ {s} : undo'[t] = undo[t]
    BY <1>3, <1>4, <2>4, UndoWritten DEF Core
  <2> QED BY <2>2, <2>5
<1> HIDE DEF u
<1>7. /\ flight'[x] \in {"no", way} /\ (Undisturbed(x)' => flight'[x] = "no")
      /\ \A y \in Thing \ {x} : flight'[y] = flight[y] /\ prior'[y] = prior[y]
      /\ RouteOK'
  <2>1. CASE UNCHANGED <<step, flight, prior, order>> /\ ~Undisturbed(x)'
    BY <1>3, <2>1 DEF Core, RouteOK
  <2>2. CASE EndDone(x, way, q.ok, q.prior)
    <3>1. flight' = [flight EXCEPT ![x] = "no"]
      BY <2>2 DEF EndDone
    <3>2. \/ prior' = prior \/ prior' = [prior EXCEPT ![x] = q.prior]
          \/ prior' = [prior EXCEPT ![x] = "none"]
      BY <2>2 DEF EndDone
    <3>3. prior' \in [Thing -> Priors] /\ \A y \in Thing \ {x} : prior'[y] = prior[y]
      BY <1>4, <3>2 DEF Core, RouteOK, Priors
    <3> QED BY <3>1, <3>3 DEF Core, RouteOK
  <2> QED BY <1>3, <2>1, <2>2
<1>8. /\ OrderOK' /\ \A t \in Step \ {s} : step'[t] = step[t]
      /\ Undisturbed(x)' => (step'[s] = "done" <=> half = "apply")
      /\ flight'[x] # "no" => step' = step
  <2>0. step[s] = "done" <=> way = "undo"
    BY <1>3 DEF Core, FlightOK, Ways
  <2>1. CASE UNCHANGED <<step, order>>
    <3>1. Undisturbed(x)' => ~q.ok
      BY <1>3, <1>4, <2>0, <2>1 DEF EndDone, MarkDone, MarkUndone, Core, OrderOK, Ways
    <3> QED BY <1>4, <2>0, <2>1, <3>1 DEF Core, OrderOK, Ways, Back
  <2>2. CASE q.ok /\ way = "apply" /\ EndDone(x, way, q.ok, q.prior)
    <3>1. MarkDone(s)
      BY <2>2 DEF EndDone
    <3>2. OrderOK'
      BY <1>4, <2>0, <2>2, <3>1, DoneOrder DEF Core
    <3>3. step' = [step EXCEPT ![s] = "done"] /\ DOMAIN step = Step
      BY <3>1 DEF MarkDone, Core, OrderOK
    <3>4. flight'[x] = "no"
      BY <2>2 DEF EndDone, Core, RouteOK
    <3> QED BY <1>4, <2>2, <3>2, <3>3, <3>4
  <2>3. CASE q.ok /\ way = "undo" /\ EndDone(x, way, q.ok, q.prior)
    <3>1. MarkUndone(s)
      BY <2>3 DEF EndDone
    <3>2. OrderOK'
      BY <1>4, <2>0, <2>3, <3>1, UndoneOrder DEF Core
    <3>3. step' = [step EXCEPT ![s] = "undone"] /\ DOMAIN step = Step
      BY <3>1 DEF MarkUndone, Core, OrderOK
    <3>4. flight'[x] = "no"
      BY <2>3 DEF EndDone, Core, RouteOK
    <3> QED BY <1>4, <2>3, <3>2, <3>3, <3>4
  <2>4. CASE ~q.ok /\ EndDone(x, way, q.ok, q.prior)
    BY <2>1, <2>4 DEF EndDone
  <2> QED BY <1>3, <1>4, <2>1, <2>2, <2>3, <2>4 DEF Ways
<1>9. AppOK' /\ app'[a] = Idle /\ \A b \in App \ {a} : app'[b] = app[b]
  BY <1>3 DEF Core, AppOK, Doing
<1>10. WorldOK'
  BY <1>3, <1>5, FaultAssumption DEF Core, WorldOK, RowOnly, Fault
<1>11. FlightOK'
  BY <1>3, <1>7, <1>8, StepNames DEF Core, FlightOK
<1>12. \A y \in Thing \ {x} : SameAt(y)
  BY <1>3, <1>5, <1>6, <1>7, <1>8, StepNames DEF SameAt, RowOnly, Row
<1>13. ASSUME Undisturbed(x)'
       PROVE  PlaceOf(x) /\ AtWorkOf(q, x) /\ EndDone(x, way, q.ok, q.prior)
              /\ \A b \in App \ {a} : ~At(b, x)
  <2>1. Undisturbed(x) /\ At(a, x) /\ EndDone(x, way, q.ok, q.prior)
    BY <1>1, <1>2, <1>3, <1>4, <1>13 DEF At, Undisturbed
  <2> QED BY <1>1, <2>1 DEF Core, Place, AtWork
<1>14. ASSUME Undisturbed(x)' PROVE PlaceOf(x)'
  <2>1. flight'[x] = "no" /\ (step'[s] = "done" <=> half = "apply")
    BY <1>7, <1>8, <1>14
  <2>2. step'[Add(x)] = "done" /\ Keeps(Add(x), x, "absent")'
    BY <1>3, <1>4, <1>6, <1>8, <1>13, <1>14, StepNames DEF PlaceOf, Keeps
  <2>3. prior'[x] \in {"none", "on"}
    BY <1>3, <1>4, <1>13, <1>14 DEF EndDone, PlaceOf, AtWorkOf, Core, RouteOK
  <2>4. server'[x] = (IF half = "apply" THEN "off" ELSE "on")
    BY <1>2, <1>3, <1>4, <1>13, <1>14 DEF AtWorkOf, Ways, Back
  <2>5. /\ mine[x] = (IF x \in Job THEN "on" ELSE "off")
        /\ mine[x] = "on" => Keeps(s, x, "off")
    BY <1>3, <1>4, <1>13, <1>14 DEF PlaceOf
  <2>6. /\ mine'[x] = (IF half = "apply" THEN "on" ELSE "off")
        /\ mine'[x] = "on" => Keeps(s, x, "off")'
    <3>1. CASE moves /\ half = "apply"
      <4>1. x \notin Job
        BY <1>4, <3>1 DEF HalfFirst, Ways, Back
      <4> QED BY <1>5, <1>6, <2>5, <3>1, <4>1 DEF Keeps
    <3>2. CASE moves /\ half = "undo"
      <4>1. x \in Job
        BY <1>4, <3>2 DEF HalfFirst, Ways, Back
      <4> QED BY <1>5, <2>5, <3>2, <4>1
    <3>3. CASE ~moves /\ half = "apply"
      <4>1. x \in Job
        BY <1>4, <3>3 DEF HalfFirst, Ways, Back
      <4>2. u = undo[s]
        BY <3>3 DEF u
      <4> QED BY <1>5, <1>6, <2>5, <3>3, <4>1, <4>2 DEF Keeps
    <3>4. CASE ~moves /\ half = "undo"
      <4>1. x \notin Job
        BY <1>4, <3>4 DEF HalfFirst, Ways, Back
      <4> QED BY <1>5, <2>5, <3>4, <4>1
    <3> QED BY <1>4, <3>1, <3>2, <3>3, <3>4 DEF Ways
  <2> HIDE DEF half
  <2> QED BY <1>4, <2>1, <2>2, <2>3, <2>4, <2>6 DEF PlaceOf, Ways
<1>15. Place'
  BY <1>3, <1>12, <1>14, PlaceElsewhere DEF Core
<1>16. AtWork'
  <2>1. \A y \in Thing : ~At(a, y)'
    BY <1>9 DEF At, Idle
  <2> QED BY <1>3, <1>9, <1>12, <1>13, <2>1, AtWorkElsewhere DEF Core, SameAt
<1> QED BY <1>6, <1>7, <1>8, <1>9, <1>10, <1>11, <1>15, <1>16 DEF Core

-----------------------------------------------------------------------------
(* What changes nothing but a window.                                      *)

LEMMA WindowCore ==
    ASSUME Core, NEW a \in App, NEW x \in Thing, NEW r \in Doing,
           UNCHANGED <<plan, mine, undo, server, moving, kind>>,
           faults' \in 0..MaxFaults, disturbed \subseteq disturbed', disturbed' \subseteq Thing,
           app' = [app EXCEPT ![a] = r],
           r # Idle => r.thing = x,
           Undisturbed(x)' /\ r # Idle => AtWorkOf(r, x) /\ \A b \in App \ {a} : ~At(b, x)
    PROVE  Core'
<1>1. UNCHANGED <<step, flight, prior, order, mine, undo, server, moving, kind>>
  BY DEF plan
<1>2. app'[a] = r /\ (\A b \in App \ {a} : app'[b] = app[b]) /\ app' \in [App -> Doing]
  BY DEF Core, AppOK
<1>3. OrderOK' /\ RouteOK' /\ AppOK' /\ UndoOK' /\ FlightOK' /\ WorldOK'
  BY <1>1, <1>2, UndoSame DEF Core, OrderOK, RouteOK, AppOK, FlightOK, WorldOK
<1>4. Place'
  <2>1. \A y \in Thing : SameAt(y)
    BY <1>1 DEF SameAt
  <2> QED BY <1>1, <2>1, PlaceSame DEF Core
<1>5. AtWork'
  <2>1. SUFFICES ASSUME NEW b \in App, NEW y \in Thing, Undisturbed(y)', At(b, y)'
                 PROVE  AtWorkOf(app[b], y)' /\ \A c \in App : At(c, y)' => c = b
    BY DEF AtWork
  <2>2. Undisturbed(y)
    BY <2>1 DEF Undisturbed
  <2>3. CASE r # Idle /\ y = x
    <3>1. b = a /\ \A c \in App : At(c, y)' => c = b
      BY <1>2, <2>1, <2>3 DEF At
    <3> QED BY <1>1, <1>2, <2>1, <2>3, <3>1, KindSame DEF AtWorkOf
  <2>4. CASE r = Idle \/ y # x
    <3>1. \A c \in App : At(c, y)' => c # a /\ At(c, y)
      BY <1>2, <2>4 DEF At, Idle
    <3>2. b # a /\ AtWorkOf(app[b], y) /\ \A c \in App : At(c, y) => c = b
      BY <2>1, <2>2, <3>1 DEF Core, AtWork
    <3>3. AtWorkOf(app[b], y)'
      BY <1>1, <1>2, <3>2, KindSame DEF AtWorkOf
    <3> QED BY <3>1, <3>2, <3>3
  <2> QED BY <2>3, <2>4
<1> QED BY <1>3, <1>4, <1>5 DEF Core

\* A window that stops.
LEMMA IdleCore ==
    ASSUME Core, NEW a \in App, UNCHANGED <<plan, mine, undo, server, moving, kind, disturbed>>,
           faults' \in 0..MaxFaults, app' = [app EXCEPT ![a] = Idle]
    PROVE  Core'
<1>1. Idle \in Doing /\ disturbed' \subseteq Thing
  BY DEF Doing, Core, WorldOK
<1>2. CASE Thing = {}
  BY <1>2 DEF Core, OrderOK, RouteOK, WorldOK, AppOK, UndoOK, FlightOK, Place, AtWork, plan, Doing, Step
<1>3. CASE Thing # {}
  BY <1>1, <1>3, WindowCore
<1> QED BY <1>2, <1>3

LEMMA CheckCore ==
    ASSUME Core, NEW a \in App, NEW x \in Thing, NEW choice \in Resolutions, Check(a, x, choice)
    PROVE  Core'
<1> DEFINE r == [pc |-> "resolve", thing |-> x, seen |-> server[x], choice |-> choice]
<1>1. r \in Doing /\ r # Idle /\ r.thing = x /\ r.pc = "resolve" /\ r.seen = server[x]
  BY DEF Core, WorldOK, Doing, Resolves, Idle
<1>2. disturbed' = disturbed \cup (IF \E b \in App : app[b].pc # "idle" /\ app[b].thing = x THEN {x} ELSE {})
  BY DEF Check, Disturb
<1>3. ASSUME Undisturbed(x)' PROVE AtWorkOf(r, x) /\ \A b \in App : ~At(b, x)
  BY <1>1, <1>2, <1>3 DEF Undisturbed, At, AtWorkOf, Check
<1>4. disturbed \subseteq disturbed' /\ disturbed' \subseteq Thing /\ faults' \in 0..MaxFaults
  BY <1>2 DEF Core, WorldOK, Check
<1> QED BY <1>1, <1>3, <1>4, WindowCore DEF Check

LEMMA ResolveCore == ASSUME Core, NEW a \in App, Resolve(a) PROVE Core'
<1>1. PICK q \in Resolves : q = app[a]
  BY WindowStates DEF Core, Resolve
<1>2. PICK x \in Thing : x = q.thing
  BY DEF Resolves
<1> DEFINE known == IF x \notin Unit \/ prior[x] # "none" THEN prior[x] ELSE "on"
           op == IF WantChanged(x, q.choice) THEN "apply" ELSE "undo"
           ending == [pc |-> "end", thing |-> x, close |-> flight[x], ok |-> q.choice = "finish", prior |-> known]
           sending == [Sending(x, op, flight[x], known) EXCEPT !.then = q.choice]
           r == app'[a]
<1>3. /\ app' = [app EXCEPT ![a] = r]
      /\ UNCHANGED <<plan, mine, undo, server, moving, kind, faults, disturbed>>
      /\ r = IF flight[x] = "no" \/ q.seen = "gone" THEN Idle ELSE IF Already(q) THEN ending ELSE sending
  BY <1>1, <1>2 DEF Resolve, Core, AppOK
<1>4. /\ flight[x] \in {"no"} \cup Ways /\ known \in Priors /\ op \in Ways
      /\ q.choice \in Resolutions /\ q.seen \in Shown /\ q.pc = "resolve"
  BY DEF Core, RouteOK, Priors, Shown, Ways, Resolves
<1> HIDE DEF known, op
<1>5. sending = [pc |-> "send", thing |-> x, op |-> op, close |-> flight[x], prior |-> known, then |-> q.choice]
  BY DEF Sending
<1>6. r \in Doing /\ (r # Idle => r.thing = x)
  BY <1>3, <1>4, <1>5 DEF Doing, Sends, Ends
<1>7. ASSUME Undisturbed(x)', r # Idle
      PROVE  AtWorkOf(r, x) /\ \A b \in App \ {a} : ~At(b, x)
  <2>1. Undisturbed(x) /\ At(a, x)
    BY <1>1, <1>2, <1>3, <1>4, <1>7 DEF At, Undisturbed
  <2>2. AtWorkOf(q, x) /\ PlaceOf(x) /\ \A b \in App \ {a} : ~At(b, x)
    BY <1>1, <2>1 DEF Core, AtWork, Place
  <2>3. /\ q.seen = server[x] /\ flight[x] \in Ways /\ flight[x] # "no" /\ known \in {"none", "on"}
        /\ (x \in Unit => known = "on") /\ server[x] \in {"on", "off"}
    BY <1>4, <2>2 DEF AtWorkOf, PlaceOf, known, Shown
  <2>4. /\ WantChanged(x, q.choice) \in BOOLEAN
        /\ WantChanged(x, q.choice) <=> ((flight[x] = "apply") = (q.choice = "finish"))
    BY DEF WantChanged
  <2>5. Already(q) <=> ((server[x] = "off") = WantChanged(x, q.choice))
    BY <1>2, <2>3 DEF Already
  <2>6. CASE Already(q)
    <3>1. r = ending
      BY <1>3, <1>7, <2>6
    <3>2. server[x] = (IF (q.choice = "finish") = (flight[x] = "apply") THEN "off" ELSE "on")
      BY <2>3, <2>4, <2>5, <2>6
    <3> QED BY <2>2, <2>3, <3>1, <3>2 DEF AtWorkOf
  <2>7. CASE ~Already(q)
    <3>1. r = sending
      BY <1>3, <1>7, <2>7
    <3>2. /\ server[x] = (IF op = "apply" THEN "on" ELSE "off")
          /\ op = (IF q.choice = "rollback" THEN Back(flight[x]) ELSE flight[x])
      <4>1. CASE q.choice = "finish"
        <5>1. WantChanged(x, q.choice) <=> flight[x] = "apply"
          BY <2>4, <4>1
        <5> QED BY <2>3, <2>4, <2>5, <2>7, <4>1, <5>1 DEF op, Ways
      <4>2. CASE q.choice = "rollback"
        <5>1. WantChanged(x, q.choice) <=> flight[x] # "apply"
          BY <2>4, <4>2
        <5> QED BY <2>3, <2>4, <2>5, <2>7, <4>2, <5>1 DEF op, Ways, Back
      <4> QED BY <1>4, <4>1, <4>2 DEF Resolutions
    <3> QED BY <1>5, <2>2, <2>3, <3>1, <3>2 DEF AtWorkOf
  <2> QED BY <2>2, <2>6, <2>7
<1>8. disturbed' \subseteq Thing /\ faults' \in 0..MaxFaults
  BY <1>3 DEF Core, WorldOK
<1> HIDE DEF r
<1> QED BY <1>3, <1>6, <1>7, <1>8, WindowCore

LEMMA CoreSame ==
    ASSUME Core, moving' \in {"in", "out", "no"},
           UNCHANGED <<kind, plan, mine, undo, server, app, faults, disturbed>>
    PROVE  Core'
<1>1. UNCHANGED <<kind, step, flight, prior, order, mine, undo, server, app, faults, disturbed>>
  BY DEF plan
<1>2. OrderOK' /\ RouteOK' /\ WorldOK' /\ AppOK' /\ UndoOK' /\ FlightOK' /\ AtWork'
  BY <1>1, UndoSame, AtWorkSame DEF Core, OrderOK, RouteOK, WorldOK, AppOK, FlightOK
<1>3. Place'
  <2>1. \A y \in Thing : SameAt(y)
    BY <1>1 DEF SameAt
  <2> QED BY <1>1, <2>1, PlaceSame DEF Core
<1> QED BY <1>2, <1>3 DEF Core

-----------------------------------------------------------------------------
(* Move out.                                                               *)

\* No first step becomes done.
NoNewAdd == \A x \in Thing : step'[Add(x)] = "done" => step[Add(x)] = "done"

LEMMA OutKept ==
    ASSUME OutOK, NoNewAdd, out' = out,
           \A b \in App : out[b].on /\ app'[b] # Idle /\ app'[b] # app[b] =>
              /\ app'[b].pc # "resolve" /\ out[b].list # <<>>
              /\ Head(out[b].list) = Cut(app'[b].thing)
    PROVE  OutOK'
BY DEF OutOK, NoNewAdd

LEMMA OutChanged ==
    ASSUME OutOK, NoNewAdd, NEW a \in App, NEW o \in Outs, out' = [out EXCEPT ![a] = o],
           \A b \in App \ {a} : app'[b] = app[b],
           o.on /\ app'[a] # Idle =>
              o.list # <<>> /\ app'[a].pc # "resolve" /\ Head(o.list) = Cut(app'[a].thing),
           o.on /\ o.clean => \A x \in Thing : step'[Add(x)] = "done" => Add(x) \in ToSet(o.list)
    PROVE  OutOK'
<1>1. out'[a] = o /\ (\A b \in App \ {a} : out'[b] = out[b]) /\ out' \in [App -> Outs]
  BY DEF OutOK
<1>2. ASSUME NEW b \in App, out'[b].on
      PROVE  /\ app'[b] # Idle => /\ out'[b].list # <<>> /\ app'[b].pc # "resolve"
                                  /\ Head(out'[b].list) = Cut(app'[b].thing)
             /\ out'[b].clean => \A x \in Thing : step'[Add(x)] = "done" => Add(x) \in ToSet(out'[b].list)
  <2>1. CASE b = a
    BY <1>1, <1>2, <2>1
  <2>2. CASE b # a
    BY <1>1, <1>2, <2>2 DEF OutOK, NoNewAdd
  <2> QED BY <2>1, <2>2
<1> QED BY <1>1, <1>2 DEF OutOK

\* An apply of any window takes the others' claim away.
LEMMA OutApplying ==
    ASSUME OutOK, Applying,
           \A b \in App : out[b].on /\ app'[b] # app[b] => app'[b] = Idle
    PROVE  OutOK'
<1>1. out' \in [App -> Outs] /\ \A b \in App : out'[b].on = out[b].on /\ out'[b].list = out[b].list
                                               /\ out'[b].clean = ~out[b].on
  BY DEF OutOK, Applying, Outs
<1> QED BY <1>1 DEF OutOK

\* A list that goes on loses its first step, and no other.
LEMMA OutNextIs ==
    ASSUME OutOK, NEW a \in App, NEW ok, out[a].on => out[a].list # <<>>
    PROVE  /\ OutNext(a, ok) \in Outs
           /\ OutNext(a, ok).on =>
                /\ out[a].on /\ ok /\ (OutNext(a, ok).clean => out[a].clean)
                /\ ToSet(out[a].list) \subseteq ToSet(OutNext(a, ok).list) \cup {Head(out[a].list)}
<1>1. out[a] \in Outs /\ NotOut \in Outs /\ ~NotOut.on
  <2>1. <<>> \in Seq(Step)
    BY EmptySeq
  <2> QED BY <2>1 DEF OutOK, Outs, NotOut
<1>2. CASE out[a].on /\ ok
  <2>1. /\ Tail(out[a].list) \in Seq(Step)
        /\ ToSet(out[a].list) \subseteq ToSet(Tail(out[a].list)) \cup {Head(out[a].list)}
    BY <1>1, <1>2, TailRest DEF Outs
  <2>2. OutNext(a, ok) = [out[a] EXCEPT !.list = Tail(@)]
    BY <1>2 DEF OutNext
  <2> QED BY <1>1, <1>2, <2>1, <2>2 DEF Outs
<1>3. CASE ~out[a].on
  BY <1>1, <1>3 DEF OutNext
<1>4. CASE out[a].on /\ ~ok
  BY <1>1, <1>4 DEF OutNext
<1> QED BY <1>2, <1>3, <1>4

LEMMA BeginWindow ==
    ASSUME Core, NEW a \in App, NEW x \in Thing, NEW way \in Ways, Begin(a, x, way)
    PROVE  /\ NoNewAdd /\ app[a] = Idle /\ \A b \in App \ {a} : app'[b] = app[b]
           /\ app'[a] # Idle => app'[a].pc = "send" /\ app'[a].thing = x
<1>1. step' = step /\ app[a] = Idle
  BY DEF Begin, DiesBeforePlan, plan
<1>2. app' = app \/ app' = [app EXCEPT ![a] = Sending(x, way, way, prior[x])]
  BY DEF Begin
<1> QED BY <1>1, <1>2 DEF NoNewAdd, Core, AppOK, Sending

LEMMA UndoAddOut ==
    ASSUME Core, NEW x \in Thing, UndoAdd(x) PROVE NoNewAdd
BY StepNames DEF UndoAdd, MarkUndone, DiesBeforePlan, plan, NoNewAdd, Core, OrderOK

LEMMA EndOut == ASSUME MoveInv, NEW a \in App, End(a) PROVE OutOK'
<1>1. PICK q \in Ends : q = app[a]
  BY WindowStates DEF MoveInv, Core, End
<1>2. PICK x \in Thing : x = q.thing
  BY DEF Ends
<1>3. /\ app' = [app EXCEPT ![a] = Idle] /\ app[a] # Idle
      /\ \/ EndDone(x, q.close, q.ok, q.prior) /\ out' = [out EXCEPT ![a] = OutNext(a, q.ok)]
         \/ UNCHANGED step /\ out' = [out EXCEPT ![a] = OutNext(a, FALSE)]
  <2>1. app[a] # Idle
    BY <1>1 DEF Ends, Idle
  <2>2. /\ app' = [app EXCEPT ![a] = Idle]
        /\ \/ EndDone(x, q.close, q.ok, q.prior) /\ out' = [out EXCEPT ![a] = OutNext(a, q.ok)]
           \/ DiesBeforePlan(x) /\ out' = [out EXCEPT ![a] = OutNext(a, FALSE)]
    BY <1>1, <1>2 DEF End
  <2> QED BY <2>1, <2>2 DEF DiesBeforePlan, plan
<1>4. \A y \in Thing : step'[Add(y)] = step[Add(y)]
  BY <1>3, StepNames DEF EndDone, MarkDone, MarkUndone, MoveInv, Core, OrderOK
<1>5. out[a].on => out[a].list # <<>> /\ Head(out[a].list) = Cut(x)
  BY <1>1, <1>2, <1>3 DEF MoveInv, OutOK
<1>6. app'[a] = Idle /\ \A b \in App \ {a} : app'[b] = app[b]
  BY <1>3 DEF MoveInv, Core, AppOK
<1>7. ASSUME NEW ok, out' = [out EXCEPT ![a] = OutNext(a, ok)] PROVE OutOK'
  <2> DEFINE o == OutNext(a, ok)
  <2>1. o \in Outs /\ (o.on => /\ out[a].on /\ (o.clean => out[a].clean)
                               /\ ToSet(out[a].list) \subseteq ToSet(o.list) \cup {Head(out[a].list)})
    BY <1>5, OutNextIs DEF MoveInv
  <2> HIDE DEF o
  <2>2. o.on /\ o.clean => \A y \in Thing : step'[Add(y)] = "done" => Add(y) \in ToSet(o.list)
    BY <1>4, <1>5, <2>1, StepNames DEF MoveInv, OutOK
  <2>3. NoNewAdd /\ out' = [out EXCEPT ![a] = o]
    BY <1>4, <1>7 DEF NoNewAdd, o
  <2> QED BY <1>6, <2>1, <2>2, <2>3, OutChanged DEF MoveInv
<1> QED BY <1>3, <1>7

LEMMA OutStepInv == ASSUME MoveInv, NEW a \in App, OutStep(a) PROVE MoveInv'
<1> DEFINE s == Head(out[a].list)
           x == s[2]
<1>1. app[a] = Idle /\ out[a].on /\ out[a].list # <<>> /\ s \in Step /\ x \in Thing /\ s \in {Add(x), Cut(x)}
  <2>1. app[a] = Idle /\ out[a].on /\ out[a].list # <<>>
    BY DEF OutStep
  <2>2. s \in Step
    BY <2>1, TailRest DEF MoveInv, OutOK, Outs
  <2> QED BY <2>1, <2>2, StepNames
<1>2. \/ s = Cut(x) /\ Begin(a, x, "undo") /\ UNCHANGED out
      \/ s = Add(x) /\ UndoAdd(x) /\ out' = [out EXCEPT ![a] = OutNext(a, step'[s] = "undone")] /\ UNCHANGED app
      \/ /\ out' = [out EXCEPT ![a] = OutNext(a, FALSE)]
         /\ UNCHANGED <<plan, mine, undo, server, moving, kind, app, faults, disturbed>>
  BY DEF OutStep
<1> HIDE DEF x
<1>3. CASE s = Cut(x) /\ Begin(a, x, "undo") /\ UNCHANGED out
  <2>1. Core'
    BY <1>1, <1>3, BeginCore DEF MoveInv, Ways
  <2>2. /\ NoNewAdd /\ \A b \in App \ {a} : app'[b] = app[b]
        /\ app'[a] # Idle => app'[a].pc = "send" /\ app'[a].thing = x
    BY <1>1, <1>3, BeginWindow DEF MoveInv, Ways
  <2>3. OutOK'
    BY <1>1, <1>3, <2>2, OutKept DEF MoveInv
  <2> QED BY <2>1, <2>3 DEF MoveInv
<1>4. CASE s = Add(x) /\ UndoAdd(x) /\ out' = [out EXCEPT ![a] = OutNext(a, step'[s] = "undone")] /\ UNCHANGED app
  <2>1. Core' /\ NoNewAdd
    BY <1>1, <1>4, UndoAddCore, UndoAddOut DEF MoveInv
  <2> DEFINE ok == step'[s] = "undone"
             o == OutNext(a, ok)
  <2>2. o \in Outs /\ (o.on => /\ out[a].on /\ ok /\ (o.clean => out[a].clean)
                               /\ ToSet(out[a].list) \subseteq ToSet(o.list) \cup {s})
    BY <1>1, OutNextIs DEF MoveInv
  <2>3. out' = [out EXCEPT ![a] = o]
    BY <1>4
  <2> HIDE DEF o
  <2>4. o.on /\ o.clean => \A y \in Thing : step'[Add(y)] = "done" => Add(y) \in ToSet(o.list)
    BY <1>4, <2>1, <2>2 DEF MoveInv, OutOK, NoNewAdd
  <2>5. OutOK'
    BY <1>1, <1>4, <2>1, <2>2, <2>3, <2>4, OutChanged DEF MoveInv
  <2> QED BY <2>1, <2>5 DEF MoveInv
<1>5. CASE /\ out' = [out EXCEPT ![a] = OutNext(a, FALSE)]
           /\ UNCHANGED <<plan, mine, undo, server, moving, kind, app, faults, disturbed>>
  <2>0. moving' \in {"in", "out", "no"}
    BY <1>5 DEF MoveInv, Core, WorldOK
  <2>1. Core'
    BY <1>1, <1>5, <2>0, CoreSame DEF MoveInv
  <2> DEFINE o == OutNext(a, FALSE)
  <2>2. o \in Outs /\ ~o.on
    BY <1>1, OutNextIs DEF MoveInv
  <2>3. out' = [out EXCEPT ![a] = o] /\ NoNewAdd /\ \A b \in App : app'[b] = app[b]
    BY <1>5 DEF NoNewAdd, plan
  <2> HIDE DEF o
  <2>4. OutOK'
    BY <2>2, <2>3, OutChanged DEF MoveInv
  <2> QED BY <2>1, <2>4 DEF MoveInv
<1> QED BY <1>2, <1>3, <1>4, <1>5

-----------------------------------------------------------------------------
(* The inductive invariant, and what follows from it.                      *)

LEMMA MoveInInit == Init => MoveInv
<1> SUFFICES ASSUME Init PROVE MoveInv
  OBVIOUS
<1>1. OrderOK
  <2>1. order = <<>> /\ <<>> \in Seq(Step) /\ DOMAIN <<>> = {}
    BY EmptySeq DEF Init
  <2>2. step \in [Step -> {"pending", "approved", "done", "skipped", "undone"}]
        /\ {s \in Step : step[s] = "done"} = {}
    BY DEF Init
  <2> QED BY <2>1, <2>2 DEF OrderOK, ToSet, IsInjective
<1>2. RouteOK /\ AppOK /\ FlightOK
  BY StepNames DEF Init, RouteOK, AppOK, FlightOK, Doing, Priors
<1>3. WorldOK
  BY FaultAssumption DEF Init, WorldOK, Row, Values, Shown
<1>4. UndoOK
  BY StepNames DEF Init, UndoOK
<1>5. Place
  BY StepNames, ThingAssumption DEF Init, Place, PlaceOf
<1>6. AtWork
  BY DEF Init, AtWork, At, Idle
<1>7. OutOK
  <2>1. <<>> \in Seq(Step)
    BY EmptySeq
  <2> QED BY <2>1 DEF Init, OutOK, Outs, NotOut
<1> QED BY <1>1, <1>2, <1>3, <1>4, <1>5, <1>6, <1>7 DEF MoveInv, Core

LEMMA MoveInStep == MoveInv /\ [Next]_vars => MoveInv'
<1> SUFFICES ASSUME MoveInv, [Next]_vars PROVE MoveInv'
  OBVIOUS
<1> USE DEF MoveInv
<1>1. CASE UNCHANGED vars
  <2>1. moving' \in {"in", "out", "no"}
    BY <1>1 DEF vars, Core, WorldOK
  <2> QED BY <1>1, <2>1, CoreSame, OutKept DEF vars, plan, NoNewAdd
<1>2. ASSUME NEW s \in Step, Approve(s) \/ Skip(s) \/ Unskip(s) PROVE MoveInv'
  <2>1. ASSUME NEW from, NEW to \in {"pending", "approved", "skipped"}, "done" \notin from,
               Move(s, from, to)
        PROVE  MoveInv'
    <3>1. Core'
      BY <2>1, MoveCore
    <3>2. NoNewAdd
      BY <2>1 DEF Move, NoNewAdd, Core, OrderOK
    <3> QED BY <2>1, <3>1, <3>2, OutKept DEF Move
  <2> QED BY <1>2, <2>1 DEF Approve, Skip, Unskip
<1>3. ASSUME NEW x \in Thing, ApplyAdd(x) PROVE MoveInv'
  BY <1>3, ApplyAddCore, OutApplying DEF ApplyAdd
<1>4. ASSUME NEW x \in Thing, PersonUndoes(x) PROVE MoveInv'
  BY <1>4, UndoAddCore, UndoAddOut, OutKept DEF PersonUndoes
<1>5. ASSUME NEW x \in Thing, HandEdit(x) PROVE MoveInv'
  BY <1>5, HandEditCore, OutKept DEF HandEdit, plan, NoNewAdd
<1>6. CASE Replan
  BY <1>6, ReplanCore, OutKept DEF Replan, NoNewAdd
<1>7. CASE Finish
  BY <1>7, CoreSame, OutKept DEF Finish, plan, NoNewAdd
<1>8. CASE OwnEdit
  BY <1>8, OwnEditCore, OutKept DEF OwnEdit, plan, NoNewAdd
<1>9. ASSUME NEW a \in App, NEW x \in Thing, BeginApply(a, x) PROVE MoveInv'
  <2>1. Core' /\ ~out[a].on /\ \A b \in App \ {a} : app'[b] = app[b]
    BY <1>9, BeginCore, BeginWindow DEF BeginApply, Ways
  <2> QED BY <1>9, <2>1, OutApplying DEF BeginApply
<1>10. ASSUME NEW a \in App, NEW x \in Thing, BeginUndo(a, x) PROVE MoveInv'
  <2>1. Core' /\ NoNewAdd /\ ~out[a].on /\ \A b \in App \ {a} : app'[b] = app[b]
    BY <1>10, BeginCore, BeginWindow DEF BeginUndo, Ways
  <2> QED BY <1>10, <2>1, OutKept DEF BeginUndo
<1>11. ASSUME NEW a \in App, NEW x \in Thing, NEW choice \in Resolutions, Check(a, x, choice)
       PROVE  MoveInv'
  BY <1>11, CheckCore, OutKept DEF Check, plan, NoNewAdd, Core, AppOK
<1>12. ASSUME NEW a \in App, Serve(a) \/ NoAnswer(a) PROVE MoveInv'
  <2>1. Core'
    BY <1>12, ServeCore, NoAnswerCore
  <2>2. PICK q \in Sends : q = app[a]
    BY <1>12, WindowStates DEF Core, Serve, NoAnswer
  <2>3. PICK ok \in BOOLEAN, found \in Priors : app' = [app EXCEPT ![a] = Answered(q, ok, found)]
    <3>1. Found(q) \in Priors /\ (~Refuses(q)) \in BOOLEAN /\ "none" \in Priors
      BY DEF Found, Priors, Core, WorldOK, Refuses, Sends
    <3> QED BY <1>12, <2>2, <3>1 DEF Serve, NoAnswer
  <2>4. q # Idle /\ (app'[a] # Idle => app'[a].pc = "end" /\ app'[a].thing = q.thing)
    <3>1. app'[a] = Answered(q, ok, found)
      BY <2>3 DEF Core, AppOK
    <3> QED BY <3>1 DEF Answered, Sends, Idle
  <2>5. NoNewAdd /\ out' = out /\ \A b \in App \ {a} : app'[b] = app[b]
    BY <1>12 DEF Serve, NoAnswer, plan, NoNewAdd, Core, AppOK
  <2>6. OutOK'
    BY <2>2, <2>4, <2>5, OutKept DEF OutOK
  <2> QED BY <2>1, <2>6
<1>13. ASSUME NEW a \in App, End(a) PROVE MoveInv'
  BY <1>13, EndCore, EndOut
<1>14. ASSUME NEW a \in App, EndRefused(a) PROVE MoveInv'
  <2>1. faults' \in 0..MaxFaults /\ app[a] # Idle /\ app' = [app EXCEPT ![a] = Idle]
    BY <1>14 DEF EndRefused, Core, WorldOK, Idle
  <2>2. Core'
    BY <1>14, <2>1, IdleCore DEF EndRefused
  <2> DEFINE o == OutNext(a, FALSE)
  <2>3. o \in Outs /\ ~o.on
    BY <2>1, OutNextIs DEF OutOK
  <2>4. NoNewAdd /\ out' = [out EXCEPT ![a] = o] /\ \A b \in App \ {a} : app'[b] = app[b]
    BY <1>14 DEF EndRefused, NoNewAdd, plan
  <2> HIDE DEF o
  <2> QED BY <2>2, <2>3, <2>4, OutChanged
<1>15. ASSUME NEW a \in App, Resolve(a) PROVE MoveInv'
  <2>0. Core'
    BY <1>15, ResolveCore
  <2>1. NoNewAdd /\ out' = out /\ app[a] # Idle /\ app[a].pc = "resolve"
        /\ \A b \in App \ {a} : app'[b] = app[b]
    BY <1>15 DEF Resolve, NoNewAdd, plan, Idle, Core, AppOK
  <2>2. ~out[a].on
    BY <2>1 DEF OutOK
  <2> QED BY <2>0, <2>1, <2>2, OutKept
<1>16. ASSUME NEW a \in App, OutStep(a) PROVE MoveInv'
  BY <1>16, OutStepInv
<1>17. ASSUME NEW a \in App, OutDone(a) \/ MoveOutBegin(a) \/ AppDies(a) PROVE MoveInv'
  <2>1. Core'
    <3>1. CASE OutDone(a) \/ MoveOutBegin(a)
      <4>1. moving' \in {"in", "out", "no"} /\ UNCHANGED <<kind, plan, mine, undo, server, app, faults, disturbed>>
        BY <3>1 DEF OutDone, MoveOutBegin, Core, WorldOK
      <4> QED BY <4>1, CoreSame
    <3>2. CASE AppDies(a)
      <4>1. faults' \in 0..MaxFaults
        BY <3>2, FaultAssumption DEF AppDies, Fault, Core, WorldOK
      <4> QED BY <3>2, <4>1, IdleCore DEF AppDies
    <3> QED BY <1>17, <3>1, <3>2
  <2>2. NoNewAdd /\ app'[a] = Idle /\ \A b \in App \ {a} : app'[b] = app[b]
    BY <1>17 DEF OutDone, MoveOutBegin, AppDies, NoNewAdd, plan, Core, AppOK
  <2>3. NotOut \in Outs /\ ~NotOut.on
    <3>1. <<>> \in Seq(Step)
      BY EmptySeq
    <3> QED BY <3>1 DEF NotOut, Outs
  <2> DEFINE all == [on |-> TRUE, list |-> Reverse(order), clean |-> TRUE]
  <2>4. all \in Outs /\ \A x \in Thing : step[Add(x)] = "done" => Add(x) \in ToSet(all.list)
    BY ReverseSame, StepNames DEF Outs, Core, OrderOK
  <2>5. OutOK'
    <3>1. CASE OutDone(a) \/ AppDies(a)
      <4>1. out' = [out EXCEPT ![a] = NotOut]
        BY <3>1 DEF OutDone, AppDies
      <4> QED BY <2>2, <2>3, <4>1, OutChanged
    <3>2. CASE MoveOutBegin(a)
      <4>1. out' = [out EXCEPT ![a] = all]
        BY <3>2 DEF MoveOutBegin
      <4> HIDE DEF all
      <4>2. \A x \in Thing : step'[Add(x)] = "done" => Add(x) \in ToSet(all.list)
        BY <2>2, <2>4 DEF NoNewAdd
      <4> QED BY <2>2, <2>4, <4>1, <4>2, OutChanged
    <3> QED BY <1>17, <3>1, <3>2
  <2> QED BY <2>1, <2>5
<1> QED BY <1>1, <1>2, <1>3, <1>4, <1>5, <1>6, <1>7, <1>8, <1>9, <1>10, <1>11, <1>12, <1>13,
           <1>14, <1>15, <1>16, <1>17 DEF Next, AppStep, Resolutions

THEOREM MoveInInvariant == Spec => []MoveInv
BY MoveInInit, MoveInStep, PTL DEF Spec

\* The types: the order of the done steps, by which Move out goes, lists each done
\* step once and no other (done_seq in move-in/lib.mjs).
LEMMA MoveInTypes == MoveInv => TypeOK
<1> SUFFICES ASSUME MoveInv PROVE TypeOK
  OBVIOUS
<1>1. ASSUME NEW a \in App
      PROVE  /\ app[a].pc \in {"idle", "send", "end", "resolve"} /\ ToSet(out[a].list) \subseteq Step
  <2>1. out[a].list \in Seq(Step)
    BY DEF MoveInv, OutOK, Outs
  <2>2. ToSet(out[a].list) \subseteq Step
    BY <2>1, LenProperties, ElementOfSeq DEF ToSet
  <2> QED BY <2>2, WindowStates DEF MoveInv, Core
<1> QED BY <1>1 DEF MoveInv, Core, OrderOK, RouteOK, WorldOK, TypeOK, Ways, Values, Shown, Priors, Row

\* "A job is switched on on one side or the other at every moment, and a bot is never
\* answered by both" (the order of the two halves in move-in-host.mjs), and the types:
\* for any number of windows, faults and things, as long as nothing cut across the
\* handing over of that one.
THEOREM NeverNobodyNeverBoth == Spec => []Inv
<1>1. MoveInv => SomebodyRunsTheJob
  BY DEF MoveInv, Core, Place, PlaceOf, SomebodyRunsTheJob, Job
<1>2. MoveInv => OneAnswersTheBot
  BY DEF MoveInv, Core, Place, PlaceOf, OneAnswersTheBot, Bot
<1>3. MoveInv => Inv
  BY <1>1, <1>2, MoveInTypes DEF Inv
<1> QED BY <1>3, MoveInInvariant, PTL

\* A thing that is not on its way is where the plan says, and only there.
THEOREM PlanTellsWhereAlways == Spec => []PlanTellsWhere
<1>1. MoveInv => PlanTellsWhere
  BY DEF MoveInv, Core, Place, PlaceOf, PlanTellsWhere
<1> QED BY <1>1, MoveInInvariant, PTL

\* A Move out that reports every step reversed left nothing handed over.
THEOREM MoveOutLeavesNothing == Spec => AllIsBack
<1>1. ASSUME MoveInv, NEW a \in App, OutDone(a), out[a].clean, NEW x \in Thing,
             Undisturbed(x), flight[x] = "no"
      PROVE  server[x] = "on" /\ mine[x] = "absent"
  <2>1. ToSet(out[a].list) = {}
    <3>1. DOMAIN <<>> = {}
      OBVIOUS
    <3> QED BY <1>1, <3>1 DEF OutDone, ToSet
  <2>2. step[Add(x)] # "done"
    BY <1>1, <2>1 DEF OutDone, MoveInv, OutOK
  <2> QED BY <1>1, <2>2 DEF MoveInv, Core, Place, PlaceOf
<1>2. MoveInv => [\A a \in App : OutDone(a) /\ out[a].clean =>
        \A x \in Thing : Undisturbed(x) /\ flight[x] = "no" => server[x] = "on" /\ mine[x] = "absent"]_vars
  BY <1>1
<1> QED BY <1>2, MoveInInvariant, PTL DEF AllIsBack

\* "Keep everything else the person did" (apply.mjs): a step of the program writes the
\* row of one thing, and the person's own row is the person's.
THEOREM OtherRowsAreKept == Spec => OthersRowsKept
<1> DEFINE A == \E x \in Thing \cup {Own} : \A y \in Thing \cup {Own} : y # x => mine'[y] = mine[y]
                  /\ (mine'[Own] # mine[Own] => faults' > faults /\ UNCHANGED plan)
<1>1. ASSUME mine' = mine PROVE A
  BY <1>1
<1>2. ASSUME NEW x \in Thing, RowOnly(mine', x) PROVE A
  BY <1>2, ThingAssumption DEF RowOnly, Row
<1>3. ASSUME MoveInv, OwnEdit PROVE A
  <2>1. RowOnly(mine', Own)
    BY <1>3, SetRow DEF MoveInv, Core, OwnEdit, Row, Values
  <2>2. faults' > faults /\ UNCHANGED plan
    BY <1>3, FaultAssumption DEF OwnEdit, Fault, MoveInv, Core, WorldOK
  <2> QED BY <2>1, <2>2 DEF RowOnly, Row
<1> HIDE DEF A
<1>4. ASSUME MoveInv, [Next]_vars PROVE A
  <2> USE <1>4 DEF MoveInv
  <2>1. CASE UNCHANGED mine
    BY <1>1, <2>1
  <2>2. ASSUME NEW x \in Thing, ApplyAdd(x) PROVE A
    BY <1>2, <2>2, SetRow DEF Core, ApplyAdd, Row, Values
  <2>3. ASSUME NEW x \in Thing, UndoAdd(x) PROVE A
    BY <1>2, <2>3, RestoredRow DEF Core, UndoAdd, Values
  <2>4. ASSUME NEW x \in Thing, HandEdit(x) PROVE A
    BY <1>2, <2>4, SetRow, SameRow DEF Core, HandEdit, Row, Values
  <2>5. ASSUME NEW a \in App, NEW x \in Thing, NEW way \in Ways, Begin(a, x, way) PROVE A
    <3>1. RowOnly(mine', x)
      BY <2>5, HalfDoneRow, HalfUndoneRow, SameRow DEF Core, Begin, HalfMoves, Row
    <3> QED BY <1>2, <3>1
  <2>6. ASSUME NEW a \in App, End(a) PROVE A
    <3>1. PICK x \in Thing : x = app[a].thing
      BY <2>6, WindowStates DEF Core, End, Ends
    <3>2. mine' \in {mine, HalfDone(x), HalfUndone(x)}
      BY <2>6, <3>1 DEF End
    <3>3. RowOnly(mine', x)
      BY <3>2, HalfDoneRow, HalfUndoneRow, SameRow DEF Core, Row
    <3> QED BY <1>2, <3>3
  <2>7. ASSUME NEW a \in App, OutStep(a) PROVE A
    <3>1. out[a].list # <<>> /\ Head(out[a].list) \in Step
      BY <2>7, TailRest DEF OutStep, OutOK, Outs
    <3>2. PICK x \in Thing : x = Head(out[a].list)[2]
      BY <3>1, StepNames
    <3>3. Begin(a, x, "undo") \/ UndoAdd(x) \/ UNCHANGED mine
      BY <2>7, <3>2 DEF OutStep
    <3> QED BY <2>1, <2>3, <2>5, <3>3 DEF Ways
  <2>8. CASE OwnEdit
    BY <1>3, <2>8
  <2>9. ASSUME NEW s \in Step, Approve(s) \/ Skip(s) \/ Unskip(s) PROVE A
    BY <2>1, <2>9 DEF Approve, Skip, Unskip, Move
  <2>10. CASE Replan \/ Finish
    BY <2>1, <2>10 DEF Replan, Finish
  <2>11. ASSUME NEW a \in App, NEW x \in Thing, NEW choice \in Resolutions, Check(a, x, choice)
         PROVE  A
    BY <2>1, <2>11 DEF Check
  <2>12. ASSUME NEW a \in App, \/ Serve(a) \/ EndRefused(a) \/ Resolve(a) \/ OutDone(a)
                               \/ NoAnswer(a) \/ MoveOutBegin(a) \/ AppDies(a)
         PROVE  A
    BY <2>1, <2>12 DEF Serve, EndRefused, Resolve, OutDone, NoAnswer, MoveOutBegin, AppDies
  <2>13. CASE UNCHANGED vars
    BY <2>1, <2>13 DEF vars
  <2> QED BY <2>2, <2>3, <2>4, <2>5, <2>6, <2>7, <2>8, <2>9, <2>10, <2>11, <2>12, <2>13
          DEF Next, AppStep, PersonUndoes, BeginApply, BeginUndo, Resolutions, Ways
<1>5. MoveInv /\ [Next]_vars => [A]_vars
  BY <1>4
<1> QED BY <1>5, MoveInInvariant, PTL DEF Spec, OthersRowsKept, A
=============================================================================
