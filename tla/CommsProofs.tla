----------------------------- MODULE CommsProofs ------------------------------
(***************************************************************************)
(* Proofs about what a mineral says to the outside: its chat bridges       *)
(* (ChatBridge), for any number of messages, parts of a reply and faults,  *)
(* and its connections (Connections), for any connections, commands,       *)
(* grants and deaths.                                                      *)
(*                                                                         *)
(* The bridges' inductive invariant, BridgeInv, says that the batch in     *)
(* hand is a piece of what arrived (BatchOK), that the offset is behind it *)
(* or names its first message (OffsetOK, BehindOK), what has become a job  *)
(* (OnceTg, OnceSl), and how many parts of each reply were posted while    *)
(* its record is in the outbox and a sender has it in hand (TgPosts,       *)
(* SlPosts).                                                               *)
(*                                                                         *)
(* The connections' two files are truncated before they are written.       *)
(* Until two writes cross, a file is as good as what it held before the    *)
(* write under way (Docs, Stores), so an edit counts as one step; of such  *)
(* files AllOK says that what a process has in hand is still true of them, *)
(* and that header and refresh token belong to one sign-in.                *)
(***************************************************************************)
EXTENDS ChatBridge, Connections, WellFoundedInduction, SequenceTheorems, TLAPS

-----------------------------------------------------------------------------
(* The chat bridges.                                                       *)

\* A message is a job already, or was lost in one of the two ways.
Handled(m) == jobs[m] > 0 \/ m \in cut \cup dropped

\* The batch in hand is a piece of what has arrived, in order and without gaps.
BatchOK ==
    /\ tg.pc \in {"opened", "saved"} => tg.batch # <<>>
    /\ \A i \in 1..Len(tg.batch) :
          /\ tg.batch[i] <= arrived
          /\ i > 1 => tg.batch[i] = tg.batch[i - 1] + 1

\* What the offset says while and after it is written.
OffsetOK ==
    /\ offset # Torn => offset <= arrived
    /\ tg.pc = "opened" => offset = Torn
    /\ tg.pc = "saved" => offset = tg.batch[1]

\* All messages Telegram keeps no longer are handled, and all in front of the batch.
BehindOK ==
    \A m \in Tg \ foreign :
        m <= confirmed \/ (tg.batch # <<>> /\ m < tg.batch[1]) => Handled(m)

\* Unless an offset was torn no message in front of us is a job yet.
OnceTg ==
    ~tornOffset =>
        /\ offset = Torn => tg.pc = "opened"
        /\ tg.pc = "batch" /\ tg.batch # <<>> => tg.batch[1] > offset
        /\ \A m \in Tg : jobs[m] > 0 =>
              /\ jobs[m] = 1
              /\ IF tg.pc \in {"opened", "saved"} THEN m < tg.batch[1] ELSE m <= offset

\* What Slack's bridge has seen is in its hand at most once, and no job before that.
OnceSl ==
    /\ \A i \in 1..Len(sl.pending) : sl.pending[i] \in sl.seen
    /\ \A i, j \in 1..Len(sl.pending) : sl.pending[i] = sl.pending[j] => i = j
    /\ \A m \in Sl \ cut :
          /\ jobs[m] <= 1
          /\ jobs[m] = 1 => m \in sl.seen /\ \A i \in 1..Len(sl.pending) : sl.pending[i] # m

\* The owner's DM is known to a bridge that is up once there is a job from Slack.
DmOK ==
    /\ sl.up => sl.dm = dmFile
    /\ \A m \in Sl : jobs[m] > 0 => dmFile

\* A reply has a job, and the kernel's hand on its file until it is whole.
BoxOK ==
    /\ \A m \in Msg : box[m] # "none" => jobs[m] > 0
    /\ kernel # 0 => box[kernel] = "empty"

\* What Telegram was sent.
TgPosts ==
    /\ tg.pc = "sent" =>
          Min(tg.todo) \in Tg /\ box[Min(tg.todo)] = "full" /\ posts[Min(tg.todo)][1] > 0
    /\ \A m \in Tg : box[m] = "gone" => posts[m][1] > 0
    /\ \A m \in Tg \ unsure : posts[m][1] > 0 =>
          posts[m][1] = 1 /\ (box[m] = "gone" \/ (tg.pc = "sent" /\ m = Min(tg.todo)))

\* What Slack was sent: as far as the bridge knows, and no less.
SlPosts ==
    /\ sl.pc = "sent" =>
          Min(sl.todo) \in Sl /\ box[Min(sl.todo)] = "full" /\ sl.done[Min(sl.todo)] = Parts
    /\ \A m \in Sl : sl.done[m] = Parts => sl.pc = "sent" /\ m = Min(sl.todo)
    /\ \A m \in Sl : \A i \in 1..Parts :
          /\ i <= sl.done[m] \/ box[m] = "gone" => posts[m][i] > 0
          /\ \A j \in 1..i : posts[m][i] > 0 => posts[m][j] > 0
          /\ m \notin unsure => /\ posts[m][i] <= 1
                                /\ posts[m][i] > 0 => i <= sl.done[m] \/ box[m] = "gone"

BridgeInv ==
    /\ TypeOK /\ BatchOK /\ OffsetOK /\ BehindOK /\ TgNoneSkipped /\ OnceTg /\ OnceSl
    /\ SlNoneSkipped /\ DmOK /\ BoxOK /\ TgPosts /\ SlPosts

-----------------------------------------------------------------------------
(* Messages, and the least of them.                                        *)

LEMMA Messages ==
    /\ Sl \subseteq Msg /\ Tg \subseteq Msg /\ Msg = Sl \cup Tg /\ Sl \cap Tg = {}
    /\ Msg \subseteq Nat \ {0} /\ \A m \in Tg : NS < m /\ m <= NS + NT
    /\ \A m \in Int : NS < m /\ m <= NS + NT => m \in Tg
    /\ NS \in Nat \ {0} /\ NT \in Nat \ {0} /\ Parts \in Nat \ {0} /\ MaxFaults \in Nat
    /\ MaxAgain \in Nat
  BY CountAssumption DEF Sl, Tg, Msg

LEMMA PartsAre ==
    /\ \A m \in Tg : PartsOf(m) = {1}
    /\ \A m \in Sl : PartsOf(m) = 1..Parts
  BY Messages DEF PartsOf

\* The least of some numbers is one of them.
LEMMA MinIsLeast ==
    ASSUME NEW S \in SUBSET Nat, S # {}
    PROVE  Min(S) \in S /\ \A y \in S : Min(S) <= y
<1> DEFINE R == OpToRel(<, Nat)
<1>1. IsWellFoundedOn(R, Nat)
  BY NatLessThanWellFounded
<1>2. \A x, y \in Nat : y < x => <<y, x>> \in R
  BY DEF OpToRel
<1> HIDE DEF R
<1>3. PICK x \in S : \A y \in S : ~ (<<y, x>> \in R)
  BY <1>1, WFMin
<1>4. ASSUME NEW y \in S PROVE x <= y
  <2>1. ~ (y < x)
    BY <1>2, <1>3
  <2> QED BY <2>1
<1> QED BY <1>4 DEF Min

\* Counting stops at two.
LEMMA CapIs ==
    ASSUME NEW n \in 0..2
    PROVE  Cap2(n) \in 1..2 /\ (n = 0 => Cap2(n) = 1)
<1>1. \E x \in {n + 1, 2} : \A y \in {n + 1, 2} : x <= y
  OBVIOUS
<1> QED BY <1>1 DEF Cap2, Min

LEMMA MaxOfTwo ==
    ASSUME NEW a \in Int, NEW b \in Int
    PROVE  Max({a, b}) = IF a <= b THEN b ELSE a
<1>1. \E x \in {a, b} : \A y \in {a, b} : x >= y
  OBVIOUS
<1>2. Max({a, b}) \in {a, b} /\ \A y \in {a, b} : Max({a, b}) >= y
  BY <1>1 DEF Max
<1> QED BY <1>2

-----------------------------------------------------------------------------
(* Type correctness.                                                       *)

TgType ==
    [mode : {"off", "reader", "sender"}, batch : Seq(Tg), todo : SUBSET Msg,
     pc : {"idle", "batch", "opened", "saved", "flush", "sent"}]
SlType ==
    [up : BOOLEAN, pc : {"idle", "sent"}, seen : SUBSET Sl, pending : Seq(Sl), todo : SUBSET Sl,
     done : [Sl -> 0..Parts], dm : BOOLEAN]

PostsOK == posts = [m \in Msg |-> posts[m]] /\ \A m \in Msg : posts[m] \in [PartsOf(m) -> 0..2]

LEMMA Offs ==
    /\ \A mode \in {"off", "reader", "sender"} : TgOff(mode) \in TgType
    /\ \A up, dm \in BOOLEAN : SlUp(up, dm) \in SlType
<1>1. <<>> \in Seq(Tg) /\ <<>> \in Seq(Sl)
  OBVIOUS
<1> QED BY <1>1, Messages DEF TgOff, SlUp, TgType, SlType

LEMMA TypeInit == Init => TypeOK
<1> SUFFICES ASSUME Init PROVE TypeOK
  OBVIOUS
<1>1. foreign \subseteq Tg /\ refused \subseteq Msg /\ arrived \in NS..NS + NT /\ confirmed \in NS..arrived
  BY Messages DEF Init
<1>2. tg \in TgType /\ sl \in SlType /\ tg = TgOff("off") /\ sl = SlUp(FALSE, FALSE)
  BY Offs DEF Init
<1>3. sl.seen \subseteq heard
  BY <1>2 DEF SlUp
<1>4. PostsOK
  BY DEF Init, PostsOK
<1>5. again \in 0..MaxAgain /\ faults \in 0..MaxFaults
  BY Messages DEF Init
<1>6. jobs \in [Msg -> 0..2] /\ box \in [Msg -> {"none", "empty", "full", "gone"}]
  BY DEF Init
<1>7. host \in BOOLEAN
  BY DEF Init
<1> QED
  BY <1>1, <1>2, <1>3, <1>4, <1>5, <1>6, <1>7 DEF Init, TypeOK, TgType, SlType, PostsOK, Bridges

\* A post counts once more.
LEMMA PostedType ==
    ASSUME PostsOK, NEW m \in Msg, NEW i \in PartsOf(m), Posted(m, i)
    PROVE  /\ PostsOK'
           /\ posts'[m][i] \in 1..2 /\ (posts[m][i] = 0 => posts'[m][i] = 1)
           /\ \A j \in PartsOf(m) : j # i => posts'[m][j] = posts[m][j]
           /\ \A q \in Msg : q # m => posts'[q] = posts[q]
<1>1. posts[m][i] \in 0..2 /\ posts[m] \in [PartsOf(m) -> 0..2]
  BY DEF PostsOK
<1>2. posts' = [posts EXCEPT ![m] = [posts[m] EXCEPT ![i] = Cap2(posts[m][i])]]
  BY DEF Posted
<1>3. Cap2(posts[m][i]) \in 0..2
  BY <1>1, CapIs
<1>4. posts' = [q \in Msg |-> IF q = m THEN [posts[m] EXCEPT ![i] = Cap2(posts[m][i])] ELSE posts[q]]
  BY <1>2 DEF PostsOK
<1>5. PostsOK'
  BY <1>1, <1>3, <1>4 DEF PostsOK
<1>6. posts'[m] = [posts[m] EXCEPT ![i] = Cap2(posts[m][i])] /\ \A q \in Msg \ {m} : posts'[q] = posts[q]
  BY <1>4
<1> QED BY <1>1, <1>5, <1>6, CapIs

LEMMA QueuedType ==
    ASSUME jobs \in [Msg -> 0..2], NEW m \in Msg, Queued(m)
    PROVE  /\ jobs' \in [Msg -> 0..2]
           /\ jobs'[m] \in 1..2 /\ (jobs[m] = 0 => jobs'[m] = 1)
           /\ \A q \in Msg : q # m => jobs'[q] = jobs[q]
<1>1. jobs[m] \in 0..2
  OBVIOUS
<1>2. Cap2(jobs[m]) \in 1..2 /\ (jobs[m] = 0 => Cap2(jobs[m]) = 1)
  BY <1>1, CapIs
<1> QED BY <1>2 DEF Queued

\* The types, in parts.
InOK ==
    /\ foreign \subseteq Tg /\ refused \subseteq Msg /\ arrived \in NS..NS + NT /\ confirmed \in NS..arrived
    /\ offset \in {0, Torn} \cup Tg
HeardOK == again \in 0..MaxAgain /\ heard \subseteq Sl /\ sl.seen \subseteq heard
JobsOK == jobs \in [Msg -> 0..2]
FilesOK == box \in [Msg -> {"none", "empty", "full", "gone"}] /\ kernel \in Msg \cup {0}
TgOK == tg \in TgType /\ (tg.mode = "off" => tg = TgOff("off"))
SlOK == sl \in SlType /\ (~sl.up => sl = SlUp(FALSE, FALSE))
RestOK ==
    /\ dmFile \in BOOLEAN /\ host \in BOOLEAN /\ faults \in 0..MaxFaults
    /\ taken \subseteq Bridges /\ cut \subseteq Msg /\ dropped \subseteq Msg
    /\ unsure \subseteq Msg /\ tornOffset \in BOOLEAN

LEMMA TypeParts ==
    TypeOK <=> InOK /\ HeardOK /\ JobsOK /\ FilesOK /\ TgOK /\ SlOK /\ RestOK /\ PostsOK
  BY DEF TypeOK, InOK, HeardOK, JobsOK, FilesOK, TgOK, SlOK, RestOK, PostsOK, TgType, SlType

LEMMA TypeAfter ==
    InOK' /\ HeardOK' /\ JobsOK' /\ FilesOK' /\ TgOK' /\ SlOK' /\ RestOK' /\ PostsOK' => TypeOK'
  BY DEF TypeOK, InOK, HeardOK, JobsOK, FilesOK, TgOK, SlOK, RestOK, PostsOK, TgType, SlType

\* What a step does not touch keeps its type.
LEMMA PartsKept ==
    /\ InOK /\ UNCHANGED <<foreign, refused, arrived, confirmed, offset>> => InOK'
    /\ HeardOK /\ UNCHANGED <<again, heard, sl>> => HeardOK'
    /\ JobsOK /\ UNCHANGED jobs => JobsOK'
    /\ FilesOK /\ UNCHANGED <<box, kernel>> => FilesOK'
    /\ TgOK /\ UNCHANGED tg => TgOK'
    /\ SlOK /\ UNCHANGED sl => SlOK'
    /\ RestOK /\ UNCHANGED <<dmFile, host, faults, taken, cut, dropped, unsure, tornOffset>> => RestOK'
    /\ PostsOK /\ UNCHANGED posts => PostsOK'
<1>1. InOK /\ UNCHANGED <<foreign, refused, arrived, confirmed, offset>> => InOK'
  BY DEF InOK
<1>2. HeardOK /\ UNCHANGED <<again, heard, sl>> => HeardOK'
  BY DEF HeardOK
<1>3. JobsOK /\ UNCHANGED jobs => JobsOK'
  BY DEF JobsOK
<1>4. FilesOK /\ UNCHANGED <<box, kernel>> => FilesOK'
  BY DEF FilesOK
<1>5. TgOK /\ UNCHANGED tg => TgOK'
  BY DEF TgOK
<1>6. SlOK /\ UNCHANGED sl => SlOK'
  BY DEF SlOK
<1>7. RestOK /\ UNCHANGED <<dmFile, host, faults, taken, cut, dropped, unsure, tornOffset>> => RestOK'
  BY DEF RestOK
<1>8. PostsOK /\ UNCHANGED posts => PostsOK'
  BY DEF PostsOK
<1> QED BY <1>1, <1>2, <1>3, <1>4, <1>5, <1>6, <1>7, <1>8

LEMMA Between == ASSUME NEW lo \in Nat, NEW a \in Nat, NEW c \in lo..a PROVE lo <= c /\ c <= a /\ a - c \in Nat
  OBVIOUS

\* The batch an answer brings: a is the last message fetched, c the last confirmed.
LEMMA PollType ==
    ASSUME InOK, offset # Torn => offset <= arrived, Poll
    PROVE  \E a, c \in Nat :
              /\ arrived' = a /\ confirmed' = c /\ c \in NS..a /\ a \in arrived..NS + NT
              /\ confirmed <= c /\ (offset # Torn => offset <= c)
              /\ c = confirmed \/ (offset # Torn /\ c = offset)
              /\ tg'.batch \in Seq(Tg) /\ Len(tg'.batch) = a - c
              /\ \A i \in 1..a - c : tg'.batch[i] = c + i
<1>0. /\ NS \in Nat /\ NT \in Nat /\ arrived \in NS..NS + NT /\ confirmed \in NS..arrived
      /\ offset \in {0, Torn} \cup Tg /\ arrived' \in arrived..NS + NT
  BY Messages DEF InOK, Poll
<1>1. PICK a \in Nat : a = arrived' /\ a \in arrived..NS + NT
  BY <1>0
<1>2. confirmed \in Nat /\ confirmed \in NS..a
  BY <1>0, <1>1
<1>3. PICK c \in Nat :
          /\ c = confirmed' /\ c \in NS..a /\ confirmed <= c
          /\ offset # Torn => offset <= c
          /\ c = confirmed \/ (offset # Torn /\ c = offset)
  <2>1. CASE offset = Torn
    <3>1. confirmed' = confirmed
      BY <2>1 DEF Poll
    <3> QED BY <1>2, <2>1, <3>1
  <2>2. CASE offset # Torn
    <3>1. offset \in Nat /\ offset <= arrived /\ offset <= a
      BY <1>0, <1>1, <2>2, Messages
    <3>2. confirmed' = IF confirmed <= offset THEN offset ELSE confirmed
      BY <1>2, <2>2, <3>1, MaxOfTwo DEF Poll
    <3> QED BY <1>0, <1>2, <3>1, <3>2, <2>2
  <2> QED BY <2>1, <2>2
<1>4. PICK n \in Nat : n = a - c
  <2>1. c <= a /\ a - c \in Nat
    BY <1>0, <1>3, Between
  <2> QED BY <2>1
<1>5. tg'.batch = [i \in 1..n |-> c + i]
  <2>1. tg' = [tg EXCEPT !.pc = "batch", !.batch = [i \in 1..a - c |-> c + i]]
    BY <1>1, <1>3 DEF Poll
  <2> QED BY <1>4, <2>1
<1>6. ASSUME NEW i \in 1..n PROVE c + i \in Tg
  <2>1. c + i \in Int /\ NS < c + i /\ c + i <= NS + NT
    <3>1. a <= NS + NT /\ NS <= c
      BY <1>0, <1>1, <1>3
    <3>2. 1 <= i /\ i <= a - c
      BY <1>4
    <3> QED BY <1>0, <3>1, <3>2
  <2> QED BY <2>1, Messages
<1>7. tg'.batch \in Seq(Tg) /\ Len(tg'.batch) = n
  BY <1>5, <1>6
<1>8. /\ tg'.batch \in Seq(Tg) /\ Len(tg'.batch) = a - c
      /\ \A i \in 1..a - c : tg'.batch[i] = c + i
  BY <1>4, <1>5, <1>7
<1> QED BY <1>1, <1>3, <1>8

\* A batch that is not empty has a first message, and the others behind it.
LEMMA BatchIs ==
    ASSUME NEW S, NEW b \in Seq(S), b # <<>>
    PROVE  /\ Head(b) = b[1] /\ b[1] \in S /\ 1 \in 1..Len(b) /\ Len(b) \in Nat
           /\ Tail(b) \in Seq(S) /\ Len(Tail(b)) = Len(b) - 1
           /\ \A i \in 1..Len(Tail(b)) : Tail(b)[i] = b[i + 1] /\ i + 1 \in 1..Len(b)
  OBVIOUS

\* A bridge that has something in hand is not off.
LEMMA InHand ==
    /\ TgOK /\ (tg.pc # "idle" \/ tg.batch # <<>>) => tg.mode # "off"
    /\ SlOK /\ (sl.pc # "idle" \/ sl.pending # <<>> \/ sl.todo # {}) => sl.up
  BY DEF TgOK, SlOK, TgOff, SlUp

LEMMA TgTypeStep ==
    ASSUME TypeOK, BatchOK, offset # Torn => offset <= arrived, TgSteps
    PROVE  TypeOK'
<1>0. InOK /\ HeardOK /\ JobsOK /\ FilesOK /\ TgOK /\ SlOK /\ RestOK /\ PostsOK
  BY TypeParts
<1> USE <1>0, TypeAfter, PartsKept DEF inVars, outVars, worldVars
<1>1. CASE Poll
  <2>1. TgOK'
    <3>1. tg' = [tg EXCEPT !.pc = "batch", !.batch = tg'.batch] /\ tg'.batch \in Seq(Tg)
      BY <1>1, PollType DEF Poll, TgOK, TgType
    <3> QED BY <1>1, <3>1 DEF Poll, TgOK, TgType
  <2>2. InOK'
    <3>1. PICK a, c \in Nat : arrived' = a /\ confirmed' = c /\ c \in NS..a /\ a \in arrived..NS + NT
      BY <1>1, PollType
    <3>2. a \in NS..NS + NT
      BY <3>1, Messages DEF InOK
    <3> QED BY <1>1, <3>1, <3>2 DEF InOK, Poll
  <2> QED BY <1>1, <2>1, <2>2 DEF Poll
<1>2. CASE OpenOffset
  <2>1. tg.mode # "off"
    BY <1>2, InHand DEF OpenOffset
  <2>2. TgOK' /\ InOK'
    BY <1>2, <2>1 DEF OpenOffset, TgOK, TgType, InOK
  <2> QED BY <1>2, <2>2 DEF OpenOffset
<1>3. CASE SaveOffset
  <2>1. tg.batch # <<>> /\ tg.mode # "off"
    BY <1>3, InHand DEF BatchOK, SaveOffset
  <2>2. Head(tg.batch) \in Tg
    BY <2>1, BatchIs DEF TgOK, TgType
  <2>3. TgOK' /\ InOK'
    BY <1>3, <2>1, <2>2 DEF SaveOffset, TgOK, TgType, InOK
  <2> QED BY <1>3, <2>3 DEF SaveOffset
<1>4. CASE Enqueue
  <2>1. tg.batch # <<>> /\ tg.mode # "off"
    BY <1>4, InHand DEF Enqueue, BatchOK
  <2>2. Head(tg.batch) \in Msg /\ Tail(tg.batch) \in Seq(Tg)
    BY <2>1, BatchIs, Messages DEF TgOK, TgType
  <2>3. JobsOK'
    BY <1>4, <2>2, QueuedType DEF Enqueue, JobsOK
  <2>4. TgOK'
    BY <1>4, <2>1, <2>2 DEF Enqueue, TgOK, TgType
  <2> QED BY <1>4, <2>3, <2>4 DEF Enqueue
<1>5. CASE FlushTg
  <2>1. TgOK'
    BY <1>5 DEF FlushTg, Outbox, TgOK, TgType
  <2> QED BY <1>5, <2>1 DEF FlushTg
<1>6. CASE FlushTgNext
  <2>1. tg.mode # "off"
    BY <1>6, InHand DEF FlushTgNext
  <2>2. TgOK'
    BY <1>6, <2>1 DEF FlushTgNext, NextFile, PassEnds, TgOK, TgType
  <2> QED BY <1>6, <2>2 DEF FlushTgNext
<1>7. CASE RemoveTg
  <2>1. tg.mode # "off"
    BY <1>7, InHand DEF RemoveTg
  <2>2. TgOK'
    BY <1>7, <2>1 DEF RemoveTg, NextFile, TgOK, TgType
  <2>3. FilesOK'
    BY <1>7 DEF RemoveTg, FilesOK
  <2> QED BY <1>7, <2>2, <2>3 DEF RemoveTg
<1>8. ASSUME NEW m \in Tg, SendTg(m) PROVE TypeOK'
  <2>1. PostsOK'
    BY <1>8, PostedType, PartsAre, Messages DEF SendTg
  <2>2. tg.mode # "off"
    BY <1>8, InHand DEF SendTg, NextTg
  <2>3. TgOK'
    BY <1>8, <2>2 DEF SendTg, TgOK, TgType
  <2> QED BY <1>8, <2>1, <2>3 DEF SendTg
<1>9. ASSUME NEW m \in Tg, SendTgFails(m) PROVE TypeOK'
  <2>1. tg.mode # "off"
    BY <1>9, InHand DEF SendTgFails, NextTg
  <2>2. TgOK'
    <3>1. PassEnds \/ NextFile
      BY <1>9 DEF SendTgFails
    <3> QED BY <2>1, <3>1 DEF PassEnds, NextFile, TgOK, TgType
  <2>3. PostsOK' /\ RestOK'
    <3>1. CASE UNCHANGED <<posts, unsure, faults>>
      BY <1>9, <3>1 DEF SendTgFails
    <3>2. CASE Posted(m, 1) /\ Lost(m)
      <4>1. PostsOK'
        BY <3>2, PostedType, PartsAre, Messages
      <4>2. RestOK'
        BY <1>9, <3>2, Messages DEF SendTgFails, Lost, Fault, RestOK
      <4> QED BY <4>1, <4>2
    <3> QED BY <1>9, <3>1, <3>2 DEF SendTgFails
  <2> QED BY <1>9, <2>2, <2>3 DEF SendTgFails
<1> QED BY <1>1, <1>2, <1>3, <1>4, <1>5, <1>6, <1>7, <1>8, <1>9 DEF TgSteps

LEMMA SlTypeStep ==
    ASSUME TypeOK, SlPosts,
           SlSteps \/ LearnDm \/ EnqueueSl \/ \E m \in Sl : Envelope(m)
    PROVE  TypeOK'
<1>0. InOK /\ HeardOK /\ JobsOK /\ FilesOK /\ TgOK /\ SlOK /\ RestOK /\ PostsOK
  BY TypeParts
<1> USE <1>0, TypeAfter, PartsKept DEF inVars, outVars, worldVars
<1>1. CASE FlushSl
  <2>1. SlOK' /\ sl'.seen = sl.seen
    BY <1>1 DEF FlushSl, SlOK, SlType
  <2> QED BY <1>1, <2>1 DEF FlushSl, HeardOK
<1>2. CASE FlushSlNext
  <2>1. sl.up
    BY <1>2, InHand DEF FlushSlNext
  <2>2. SlOK' /\ sl'.seen = sl.seen
    BY <1>2, <2>1 DEF FlushSlNext, SlOK, SlType
  <2>3. FilesOK'
    BY <1>2 DEF FlushSlNext, FilesOK
  <2> QED BY <1>2, <2>2, <2>3 DEF FlushSlNext, HeardOK
<1>3. CASE RemoveSl
  <2>1. sl.up
    BY <1>3, InHand DEF RemoveSl
  <2>2. [sl.done EXCEPT ![Min(sl.todo)] = 0] \in [Sl -> 0..Parts]
    <3>1. 0 \in 0..Parts /\ sl.done \in [Sl -> 0..Parts]
      BY Messages DEF SlOK, SlType
    <3> QED BY <3>1
  <2>3. SlOK' /\ sl'.seen = sl.seen
    BY <1>3, <2>1, <2>2 DEF RemoveSl, SlOK, SlType
  <2>4. FilesOK'
    BY <1>3 DEF RemoveSl, FilesOK
  <2> QED BY <1>3, <2>3, <2>4 DEF RemoveSl, HeardOK
<1>4. ASSUME NEW m \in Sl, PostSl(m) \/ PostSlFails(m) PROVE TypeOK'
  <2>1. sl.done[m] \in 0..Parts /\ sl.done[m] # Parts /\ sl.pc = "idle" /\ sl.todo # {}
    BY <1>4 DEF SlPosts, PostSl, PostSlFails, NextSl, SlOK, SlType
  <2>2. m \in Msg /\ sl.done[m] + 1 \in 0..Parts /\ sl.done[m] + 1 \in PartsOf(m)
    BY <2>1, Messages, PartsAre
  <2>3. sl.up
    BY <2>1, InHand
  <2>4. CASE PostSl(m)
    <3>1. SlOK' /\ sl'.seen = sl.seen
      BY <2>2, <2>3, <2>4 DEF PostSl, SlOK, SlType
    <3>2. PostsOK'
      BY <2>2, <2>4, PostedType DEF PostSl
    <3> QED BY <2>4, <3>1, <3>2 DEF PostSl, HeardOK
  <2>5. CASE PostSlFails(m)
    <3>1. PICK rest : (rest = {} \/ rest = sl.todo \ {m}) /\ sl' = [sl EXCEPT !.todo = rest]
      BY <2>5 DEF PostSlFails
    <3>2. SlOK' /\ sl'.seen = sl.seen
      BY <2>3, <3>1 DEF SlOK, SlType
    <3>3. PostsOK' /\ RestOK'
      <4>1. CASE UNCHANGED <<posts, unsure, faults>>
        BY <2>5, <4>1 DEF PostSlFails
      <4>2. CASE Posted(m, sl.done[m] + 1) /\ Lost(m)
        <5>1. PostsOK'
          BY <2>2, <4>2, PostedType
        <5>2. RestOK'
          BY <2>2, <2>5, <4>2, Messages DEF PostSlFails, Lost, Fault, RestOK
        <5> QED BY <5>1, <5>2
      <4> QED BY <2>5, <4>1, <4>2 DEF PostSlFails
    <3> QED BY <2>5, <3>2, <3>3 DEF PostSlFails, HeardOK
  <2> QED BY <1>4, <2>4, <2>5
<1>5. CASE LearnDm
  <2>1. sl.up
    BY <1>5, InHand DEF LearnDm
  <2>2. SlOK' /\ sl'.seen = sl.seen
    BY <1>5, <2>1 DEF LearnDm, SlOK, SlType
  <2>3. RestOK'
    BY <1>5 DEF LearnDm, RestOK
  <2> QED BY <1>5, <2>2, <2>3 DEF LearnDm, HeardOK
<1>6. CASE EnqueueSl
  <2>1. sl.up
    BY <1>6, InHand DEF EnqueueSl
  <2>2. Head(sl.pending) \in Msg /\ Tail(sl.pending) \in Seq(Sl)
    BY <1>6, BatchIs, Messages DEF EnqueueSl, SlOK, SlType
  <2>3. JobsOK'
    BY <1>6, <2>2, QueuedType DEF EnqueueSl, JobsOK
  <2>4. SlOK' /\ sl'.seen = sl.seen
    BY <1>6, <2>1, <2>2 DEF EnqueueSl, SlOK, SlType
  <2> QED BY <1>6, <2>3, <2>4 DEF EnqueueSl, HeardOK
<1>7. ASSUME NEW m \in Sl, Envelope(m) PROVE TypeOK'
  <2>1. Append(sl.pending, m) \in Seq(Sl)
    BY DEF SlOK, SlType
  <2>2. SlOK'
    BY <1>7, <2>1 DEF Envelope, SlOK, SlType
  <2>3. sl'.seen \subseteq heard'
    BY <1>7 DEF Envelope, SlOK, SlType, HeardOK
  <2>4. again' \in 0..MaxAgain /\ heard' \subseteq Sl
    <3>1. again' = again \/ (again < MaxAgain /\ again' = again + 1)
      BY <1>7 DEF Envelope
    <3>2. again' \in 0..MaxAgain
      BY <3>1, Messages DEF HeardOK
    <3> QED BY <1>7, <3>2 DEF Envelope, HeardOK
  <2> QED BY <1>7, <2>2, <2>3, <2>4 DEF Envelope, HeardOK
<1> QED BY <1>1, <1>2, <1>3, <1>4, <1>5, <1>6, <1>7 DEF SlSteps

\* The steps of the kernel and of those who start and stop the bridges.
OtherSteps ==
    \/ ReplyWritten \/ \E m \in Msg : Reply(m)
    \/ Supervise \/ SuperviseSl \/ SenderStops \/ Handover \/ PidFreed
    \/ DieTg \/ DieSl \/ DieKernel \/ HandlingFails \/ EnqueueSlFails

LEMMA KilledType ==
    ASSUME TgOK, RestOK, BatchOK, TgPosts, TgKilled
    PROVE  cut' \subseteq Msg /\ tornOffset' \in BOOLEAN /\ unsure' \subseteq Msg
<1>1. tg.pc = "saved" => Head(tg.batch) \in Msg
  BY BatchIs, Messages DEF TgOK, TgType, BatchOK
<1>2. tg.pc = "sent" => Min(tg.todo) \in Msg
  BY Messages DEF TgPosts
<1> QED BY <1>1, <1>2 DEF RestOK, TgKilled

LEMMA OtherTypeStep ==
    ASSUME TypeOK, BatchOK, TgPosts, OtherSteps
    PROVE  TypeOK'
<1>0. InOK /\ HeardOK /\ JobsOK /\ FilesOK /\ TgOK /\ SlOK /\ RestOK /\ PostsOK
  BY TypeParts
<1> USE <1>0, TypeAfter, PartsKept DEF inVars, outVars, worldVars
<1>1. ASSUME NEW m \in Msg, Reply(m) PROVE TypeOK'
  <2>1. FilesOK'
    BY <1>1 DEF Reply, FilesOK
  <2> QED BY <1>1, <2>1 DEF Reply
<1>2. CASE ReplyWritten
  <2>1. FilesOK'
    BY <1>2 DEF ReplyWritten, FilesOK
  <2> QED BY <1>2, <2>1 DEF ReplyWritten
<1>3. CASE Supervise
  <2>1. TgOK'
    BY <1>3, Offs DEF Supervise, TgOK, TgOff
  <2>2. RestOK'
    BY <1>3, KilledType DEF Supervise, RestOK, Bridges
  <2> QED BY <1>3, <2>1, <2>2 DEF Supervise
<1>4. CASE DieTg
  <2>1. TgOK'
    BY <1>4, Offs DEF DieTg, TgOK
  <2>2. RestOK'
    <3>1. taken' \subseteq Bridges
      BY <1>4 DEF DieTg, LeavesPid, RestOK, Bridges, TgOK, TgType
    <3>2. faults' \in 0..MaxFaults
      BY <1>4, Messages DEF DieTg, Fault, RestOK
    <3> QED BY <1>4, <3>1, <3>2, KilledType DEF DieTg, RestOK
  <2> QED BY <1>4, <2>1, <2>2 DEF DieTg
<1>5. CASE SuperviseSl
  <2>1. SlOK' /\ sl'.seen = {}
    BY <1>5, Offs DEF SuperviseSl, SlOK, SlUp, RestOK
  <2> QED BY <1>5, <2>1 DEF SuperviseSl, HeardOK
<1>6. CASE SenderStops
  <2>1. TgOK'
    BY <1>6, Offs DEF SenderStops, TgOK
  <2>2. RestOK'
    BY <1>6 DEF SenderStops, LeavesPid, RestOK, Bridges
  <2> QED BY <1>6, <2>1, <2>2 DEF SenderStops
<1>7. CASE DieSl
  <2>1. SlOK' /\ sl'.seen = {}
    BY <1>7, Offs DEF DieSl, SlOK, SlUp
  <2>2. sl.seen \subseteq Msg
    BY Messages DEF SlOK, SlType
  <2>3. RestOK'
    <3>1. faults' \in 0..MaxFaults
      BY <1>7, Messages DEF DieSl, Fault, RestOK
    <3>2. cut' \subseteq Msg /\ unsure' \subseteq Msg /\ taken' \subseteq Bridges
      BY <1>7, <2>2, Messages DEF DieSl, LeavesPid, RestOK, Bridges
    <3> QED BY <1>7, <3>1, <3>2 DEF DieSl, RestOK
  <2> QED BY <1>7, <2>1, <2>3 DEF DieSl, HeardOK
<1>8. CASE DieKernel
  <2>1. FilesOK' /\ RestOK'
    BY <1>8, Messages DEF DieKernel, Fault, FilesOK, RestOK
  <2> QED BY <1>8, <2>1 DEF DieKernel
<1>9. CASE Handover
  <2>1. RestOK'
    BY <1>9, Messages DEF Handover, Fault, RestOK
  <2> QED BY <1>9, <2>1 DEF Handover
<1>10. CASE PidFreed
  <2>1. RestOK'
    BY <1>10 DEF PidFreed, RestOK
  <2> QED BY <1>10, <2>1 DEF PidFreed
<1>11. CASE HandlingFails
  <2>1. tg.batch # <<>> /\ tg.mode # "off"
    BY <1>11, InHand DEF HandlingFails, BatchOK
  <2>2. Head(tg.batch) \in Msg
    BY <2>1, BatchIs, Messages DEF TgOK, TgType
  <2>3. TgOK'
    <3>1. tg' = [tg EXCEPT !.pc = "idle", !.batch = <<>>] /\ <<>> \in Seq(Tg)
      BY <1>11 DEF HandlingFails
    <3> QED BY <2>1, <3>1 DEF TgOK, TgType
  <2>4. RestOK'
    BY <1>11, <2>2, Messages DEF HandlingFails, Fault, RestOK
  <2> QED BY <1>11, <2>3, <2>4 DEF HandlingFails
<1>12. CASE EnqueueSlFails
  <2>1. sl.up
    BY <1>12, InHand DEF EnqueueSlFails
  <2>2. Head(sl.pending) \in Msg /\ Tail(sl.pending) \in Seq(Sl)
    BY <1>12, BatchIs, Messages DEF EnqueueSlFails, SlOK, SlType
  <2>3. SlOK' /\ sl'.seen = sl.seen
    BY <1>12, <2>1, <2>2 DEF EnqueueSlFails, SlOK, SlType
  <2>4. RestOK'
    <3>1. faults' \in 0..MaxFaults
      BY <1>12, Messages DEF EnqueueSlFails, Fault, RestOK
    <3>2. dropped' \subseteq Msg
      BY <1>12, <2>2 DEF EnqueueSlFails, RestOK
    <3> QED BY <1>12, <3>1, <3>2 DEF EnqueueSlFails, RestOK
  <2> QED BY <1>12, <2>3, <2>4 DEF EnqueueSlFails, HeardOK
<1> QED BY <1>1, <1>2, <1>3, <1>4, <1>5, <1>6, <1>7, <1>8, <1>9, <1>10, <1>11, <1>12 DEF OtherSteps

LEMMA NextCases ==
    Next <=> \/ TgSteps
             \/ SlSteps \/ LearnDm \/ EnqueueSl \/ \E m \in Sl : Envelope(m)
             \/ OtherSteps
  BY DEF Next, OtherSteps

LEMMA TypeStep ==
    ASSUME TypeOK, BatchOK, OffsetOK, TgPosts, SlPosts, [Next]_vars
    PROVE  TypeOK'
<1>1. CASE UNCHANGED vars
  BY <1>1, TypeParts, TypeAfter, PartsKept DEF vars, inVars, outVars, worldVars
<1> QED BY <1>1, NextCases, TgTypeStep, SlTypeStep, OtherTypeStep DEF OffsetOK

-----------------------------------------------------------------------------
(* What a step may touch: what is Telegram's, and what is Slack's.         *)

TgKept ==
    /\ UNCHANGED <<tg, arrived, confirmed, offset, foreign, tornOffset>>
    /\ cut \subseteq cut' /\ dropped \subseteq dropped' /\ unsure \subseteq unsure'
    /\ \A m \in Tg :
          /\ jobs'[m] = jobs[m] /\ posts'[m] = posts[m]
          /\ box'[m] = "gone" <=> box[m] = "gone"
          /\ box[m] = "full" => box'[m] = "full"

SlKept ==
    /\ UNCHANGED <<sl, dmFile, heard>> /\ cut \subseteq cut' /\ dropped \subseteq dropped' /\ unsure \subseteq unsure'
    /\ \A m \in Sl :
          /\ jobs'[m] = jobs[m] /\ posts'[m] = posts[m]
          /\ box'[m] = "gone" <=> box[m] = "gone"
          /\ box[m] = "full" => box'[m] = "full"

TgTurn == TgSteps \/ HandlingFails \/ Supervise \/ SenderStops \/ DieTg
SlTurn ==
    \/ SlSteps \/ LearnDm \/ EnqueueSl \/ EnqueueSlFails \/ \E m \in Sl : Envelope(m)
    \/ SuperviseSl \/ DieSl
KernelTurn == ReplyWritten \/ (\E m \in Msg : Reply(m)) \/ Handover \/ DieKernel \/ PidFreed

LEMMA Turns == Next <=> TgTurn \/ SlTurn \/ KernelTurn
  BY DEF Next, TgTurn, SlTurn, KernelTurn

LEMMA KernelKeeps ==
    ASSUME TypeOK, BoxOK, KernelTurn
    PROVE  TgKept /\ SlKept
<1>0. FilesOK /\ Sl \subseteq Msg /\ Tg \subseteq Msg /\ 0 \notin Msg
  BY TypeParts, Messages
<1> USE DEF inVars, outVars, worldVars, TgKept, SlKept
<1>1. ASSUME NEW m \in Msg, Reply(m) PROVE TgKept /\ SlKept
  <2>1. box'[m] = "empty" /\ box[m] = "none" /\ \A q \in Msg : q # m => box'[q] = box[q]
    BY <1>0, <1>1 DEF Reply, FilesOK
  <2>2. \A q \in Msg : (box'[q] = "gone" <=> box[q] = "gone") /\ (box[q] = "full" => box'[q] = "full")
    BY <2>1
  <2> QED BY <1>0, <1>1, <2>2 DEF Reply
<1>2. CASE ReplyWritten
  <2>1. kernel \in Msg /\ box[kernel] = "empty"
    BY <1>0, <1>2 DEF ReplyWritten, FilesOK, BoxOK
  <2>2. box'[kernel] = "full" /\ \A q \in Msg : q # kernel => box'[q] = box[q]
    BY <1>0, <1>2, <2>1 DEF ReplyWritten, FilesOK
  <2>3. \A q \in Msg : (box'[q] = "gone" <=> box[q] = "gone") /\ (box[q] = "full" => box'[q] = "full")
    BY <2>1, <2>2
  <2> QED BY <1>0, <1>2, <2>3 DEF ReplyWritten
<1>3. CASE Handover
  BY <1>3 DEF Handover
<1>4. CASE DieKernel
  BY <1>4 DEF DieKernel
<1>5. CASE PidFreed
  BY <1>5 DEF PidFreed
<1> QED BY <1>1, <1>2, <1>3, <1>4, <1>5 DEF KernelTurn

LEMMA TgKeepsSl ==
    ASSUME TypeOK, BatchOK, TgPosts, TgTurn
    PROVE  SlKept
<1>0. FilesOK /\ JobsOK /\ TgOK /\ PostsOK /\ Sl \subseteq Msg /\ Tg \subseteq Msg /\ Sl \cap Tg = {}
  BY TypeParts, Messages
<1> USE DEF inVars, outVars, worldVars, SlKept
<1>1. CASE Poll \/ OpenOffset \/ SaveOffset \/ FlushTg \/ FlushTgNext \/ SenderStops
  BY <1>1 DEF Poll, OpenOffset, SaveOffset, FlushTg, FlushTgNext, SenderStops
<1>2. CASE Enqueue
  <2>1. Head(tg.batch) \in Tg
    BY <1>0, <1>2, BatchIs DEF Enqueue, BatchOK, TgOK, TgType
  <2>2. \A q \in Sl : jobs'[q] = jobs[q]
    BY <1>0, <1>2, <2>1, QueuedType DEF Enqueue, JobsOK
  <2> QED BY <1>2, <2>2 DEF Enqueue
<1>3. CASE RemoveTg
  <2>1. Min(tg.todo) \in Tg
    BY <1>3 DEF RemoveTg, TgPosts
  <2>2. \A q \in Sl : box'[q] = box[q]
    BY <1>0, <1>3, <2>1 DEF RemoveTg, FilesOK
  <2> QED BY <1>3, <2>2 DEF RemoveTg
<1>4. ASSUME NEW m \in Tg, SendTg(m) PROVE SlKept
  <2>1. \A q \in Sl : posts'[q] = posts[q]
    BY <1>0, <1>4, PostedType, PartsAre DEF SendTg
  <2> QED BY <1>4, <2>1 DEF SendTg
<1>5. ASSUME NEW m \in Tg, SendTgFails(m) PROVE SlKept
  <2>1. UNCHANGED <<posts, unsure>> \/ (Posted(m, 1) /\ unsure' = unsure \cup {m})
    BY <1>5 DEF SendTgFails, Lost
  <2>2. (\A q \in Sl : posts'[q] = posts[q]) /\ unsure \subseteq unsure'
    BY <1>0, <2>1, PostedType, PartsAre
  <2> QED BY <1>5, <2>2 DEF SendTgFails
<1>6. CASE Supervise \/ DieTg \/ HandlingFails
  BY <1>6 DEF Supervise, DieTg, TgKilled, HandlingFails
<1> QED BY <1>1, <1>2, <1>3, <1>4, <1>5, <1>6 DEF TgTurn, TgSteps

LEMMA SlKeepsTg ==
    ASSUME TypeOK, SlPosts, SlTurn
    PROVE  TgKept
<1>0. FilesOK /\ JobsOK /\ SlOK /\ PostsOK /\ Sl \subseteq Msg /\ Tg \subseteq Msg /\ Sl \cap Tg = {}
  BY TypeParts, Messages
<1> USE DEF inVars, outVars, worldVars, TgKept
<1>1. CASE FlushSl \/ LearnDm \/ SuperviseSl \/ DieSl \/ EnqueueSlFails \/ \E m \in Sl : Envelope(m)
  BY <1>1 DEF FlushSl, LearnDm, SuperviseSl, DieSl, EnqueueSlFails, Envelope
<1>2. CASE EnqueueSl
  <2>1. Head(sl.pending) \in Sl
    BY <1>0, <1>2, BatchIs DEF EnqueueSl, SlOK, SlType
  <2>2. \A q \in Tg : jobs'[q] = jobs[q]
    BY <1>0, <1>2, <2>1, QueuedType DEF EnqueueSl, JobsOK
  <2> QED BY <1>2, <2>2 DEF EnqueueSl
<1>3. CASE FlushSlNext
  <2>1. Min(sl.todo) \in Sl
    BY <1>0, <1>3, MinIsLeast, Messages DEF FlushSlNext, SlOK, SlType
  <2>2. \A q \in Tg : box'[q] = box[q]
    BY <1>0, <1>3, <2>1 DEF FlushSlNext, FilesOK
  <2> QED BY <1>3, <2>2 DEF FlushSlNext
<1>4. CASE RemoveSl
  <2>1. Min(sl.todo) \in Sl
    BY <1>4 DEF RemoveSl, SlPosts
  <2>2. \A q \in Tg : box'[q] = box[q]
    BY <1>0, <1>4, <2>1 DEF RemoveSl, FilesOK
  <2> QED BY <1>4, <2>2 DEF RemoveSl
<1>5. ASSUME NEW m \in Sl, PostSl(m) \/ PostSlFails(m) PROVE TgKept
  <2>1. sl.done[m] + 1 \in PartsOf(m)
    <3>1. sl.done[m] \in 0..Parts /\ sl.done[m] # Parts
      BY <1>0, <1>5 DEF SlPosts, PostSl, PostSlFails, NextSl, SlOK, SlType
    <3> QED BY <3>1, Messages, PartsAre
  <2>2. UNCHANGED posts \/ Posted(m, sl.done[m] + 1)
    BY <1>5 DEF PostSl, PostSlFails
  <2>3. \A q \in Tg : posts'[q] = posts[q]
    BY <1>0, <2>1, <2>2, PostedType
  <2>4. unsure \subseteq unsure'
    BY <1>5 DEF PostSl, PostSlFails, Lost
  <2> QED BY <1>5, <2>3, <2>4 DEF PostSl, PostSlFails
<1> QED BY <1>1, <1>2, <1>3, <1>4, <1>5 DEF SlTurn, SlSteps

-----------------------------------------------------------------------------
(* Telegram's side, one lemma for each part of the invariant.              *)

\* Turns in which no message is taken up: those of the flush ...
Flushing ==
    /\ UNCHANGED <<arrived, confirmed, offset, foreign, jobs, cut, dropped, tornOffset>>
    /\ tg'.batch = tg.batch /\ tg'.pc \in {"idle", "flush", "sent"}
    /\ tg.pc \notin {"opened", "saved"} /\ (tg.pc = "batch" => tg.batch = <<>>)

\* ... and those in which the bridge is stopped or started, or gives up its batch.
Stopping ==
    /\ UNCHANGED <<arrived, confirmed, offset, foreign, jobs, posts, box>>
    /\ tg'.batch = <<>> /\ tg'.pc = "idle"
    /\ cut \subseteq cut' /\ dropped \subseteq dropped'
    /\ tg.pc = "saved" /\ Head(tg.batch) \notin foreign => Head(tg.batch) \in cut' \cup dropped'
    /\ tornOffset' = (tornOffset \/ tg.pc = "opened")

LEMMA TgTurnIs ==
    ASSUME TypeOK, TgTurn
    PROVE  Poll \/ OpenOffset \/ SaveOffset \/ Enqueue \/ Flushing \/ Stopping
<1>0. TgOK /\ RestOK
  BY TypeParts
<1> USE DEF inVars, outVars, worldVars, Flushing, Stopping, TgOff
<1>1. CASE FlushTg
  BY <1>0, <1>1 DEF FlushTg, TgOK, TgType
<1>2. CASE FlushTgNext
  BY <1>0, <1>2 DEF FlushTgNext, NextFile, PassEnds, TgOK, TgType
<1>3. CASE RemoveTg
  BY <1>0, <1>3 DEF RemoveTg, NextFile, TgOK, TgType
<1>4. ASSUME NEW m \in Tg, SendTg(m) PROVE Flushing
  BY <1>0, <1>4 DEF SendTg, NextTg, TgOK, TgType
<1>5. ASSUME NEW m \in Tg, SendTgFails(m) PROVE Flushing
  BY <1>0, <1>5 DEF SendTgFails, NextTg, NextFile, PassEnds, TgOK, TgType
<1>6. CASE Supervise
  BY <1>0, <1>6 DEF Supervise, TgKilled
<1>7. CASE DieTg
  BY <1>0, <1>7 DEF DieTg, TgKilled
<1>8. CASE SenderStops
  BY <1>0, <1>8 DEF SenderStops, RestOK
<1>9. CASE HandlingFails
  BY <1>0, <1>9 DEF HandlingFails, TgOK, TgType
<1> QED BY <1>1, <1>2, <1>3, <1>4, <1>5, <1>6, <1>7, <1>8, <1>9 DEF TgTurn, TgSteps

\* What the first three turns leave of the batch.
LEMMA Reading ==
    ASSUME TypeOK, BatchOK, OffsetOK
    PROVE  /\ tg.batch \in Seq(Tg) /\ foreign \subseteq Tg /\ arrived \in Nat /\ confirmed \in Nat
           /\ offset \in {Torn} \cup Nat /\ Torn \notin Nat /\ confirmed <= arrived
           /\ Poll => /\ tg.pc = "idle" /\ tg'.pc = "batch"
                      /\ UNCHANGED <<offset, foreign, jobs, cut, dropped, tornOffset>>
           /\ OpenOffset =>
                /\ tg.pc = "batch" /\ tg.batch # <<>> /\ tg'.pc = "opened" /\ tg'.batch = tg.batch
                /\ offset' = Torn /\ UNCHANGED <<arrived, confirmed, foreign, jobs, cut, dropped, tornOffset>>
           /\ SaveOffset =>
                /\ tg.pc = "opened" /\ tg.batch # <<>> /\ tg'.pc = "saved" /\ tg'.batch = tg.batch
                /\ offset' = tg.batch[1] /\ tg.batch[1] \in Tg
                /\ UNCHANGED <<arrived, confirmed, foreign, jobs, cut, dropped, tornOffset>>
           /\ Enqueue =>
                /\ tg.pc = "saved" /\ tg.batch # <<>> /\ tg'.pc = "batch" /\ tg'.batch = Tail(tg.batch)
                /\ offset = tg.batch[1] /\ tg.batch[1] \in Tg
                /\ IF tg.batch[1] \in foreign THEN UNCHANGED jobs ELSE Queued(tg.batch[1])
                /\ UNCHANGED <<offset, arrived, confirmed, foreign, cut, dropped, tornOffset>>
<1>0. TgOK /\ RestOK /\ InOK
  BY TypeParts
<1>1. /\ tg.batch \in Seq(Tg) /\ foreign \subseteq Tg /\ arrived \in Nat /\ confirmed \in Nat
      /\ offset \in {Torn} \cup Nat /\ Torn \notin Nat /\ confirmed <= arrived
  BY <1>0, Messages, CountAssumption DEF InOK, TgOK, TgType
<1> USE DEF inVars, outVars, worldVars
<1>2. Poll => /\ tg.pc = "idle" /\ tg'.pc = "batch"
              /\ UNCHANGED <<offset, foreign, jobs, cut, dropped, tornOffset>>
  BY <1>0 DEF Poll, TgOK, TgType
<1>3. CASE OpenOffset
  BY <1>0, <1>1, <1>2, <1>3 DEF OpenOffset, TgOK, TgType, Poll, SaveOffset, Enqueue
<1>4. CASE SaveOffset
  <2>1. tg.batch # <<>>
    BY <1>4 DEF SaveOffset, BatchOK
  <2>2. Head(tg.batch) = tg.batch[1] /\ tg.batch[1] \in Tg
    BY <1>1, <2>1, BatchIs
  <2> QED BY <1>0, <1>1, <1>2, <1>4, <2>1, <2>2 DEF SaveOffset, TgOK, TgType, OpenOffset, Enqueue
<1>5. CASE Enqueue
  <2>1. tg.batch # <<>> /\ offset = tg.batch[1]
    BY <1>5 DEF Enqueue, BatchOK, OffsetOK
  <2>2. Head(tg.batch) = tg.batch[1] /\ tg.batch[1] \in Tg
    BY <1>1, <2>1, BatchIs
  <2>3. tg'.pc = "batch" /\ tg'.batch = Tail(tg.batch)
    BY <1>0, <1>5 DEF Enqueue, TgOK, TgType
  <2> QED BY <1>1, <1>2, <1>5, <2>1, <2>2, <2>3 DEF Enqueue, SaveOffset, OpenOffset
<1> QED BY <1>1, <1>2, <1>3, <1>4, <1>5

LEMMA BatchStep ==
    ASSUME TypeOK, BatchOK, OffsetOK, TgTurn \/ TgKept
    PROVE  BatchOK' /\ OffsetOK'
<1>0. tg.batch \in Seq(Tg) /\ arrived \in Nat /\ offset \in {Torn} \cup Nat /\ Torn \notin Nat
  BY Reading
<1>1. CASE Poll
  <2>1. PICK a, c \in Nat :
            /\ arrived' = a /\ a \in arrived..NS + NT /\ tg'.batch \in Seq(Tg) /\ Len(tg'.batch) = a - c
            /\ \A i \in 1..a - c : tg'.batch[i] = c + i
    BY <1>1, PollType, TypeParts DEF OffsetOK
  <2>2. tg'.pc = "batch" /\ offset' = offset
    BY <1>1, Reading
  <2>3. arrived <= a
    BY <2>1, Messages, <1>0
  <2>4. BatchOK'
    <3>1. ASSUME NEW i \in 1..Len(tg'.batch)
          PROVE  tg'.batch[i] <= arrived' /\ (i > 1 => tg'.batch[i] = tg'.batch[i - 1] + 1)
      <4>1. i \in 1..a - c /\ tg'.batch[i] = c + i /\ c + i <= a
        BY <2>1
      <4>2. ASSUME i > 1 PROVE tg'.batch[i - 1] = c + (i - 1)
        <5>1. i - 1 \in 1..a - c
          BY <4>1, <4>2
        <5> QED BY <2>1, <5>1
      <4> QED BY <2>1, <4>1, <4>2
    <3> QED BY <2>2, <3>1 DEF BatchOK
  <2>5. OffsetOK'
    BY <1>0, <2>1, <2>2, <2>3 DEF OffsetOK
  <2> QED BY <2>4, <2>5
<1>2. CASE OpenOffset
  BY <1>2, Reading DEF BatchOK, OffsetOK
<1>3. CASE SaveOffset
  <2>1. tg.batch[1] <= arrived
    BY <1>0, <1>3, Reading, BatchIs DEF BatchOK
  <2> QED BY <1>3, <2>1, Reading DEF BatchOK, OffsetOK
<1>4. CASE Enqueue
  <2>1. /\ tg.batch # <<>> /\ tg'.pc = "batch" /\ tg'.batch = Tail(tg.batch)
        /\ UNCHANGED <<arrived, offset>>
    BY <1>4, Reading
  <2>2. ASSUME NEW i \in 1..Len(tg'.batch)
        PROVE  tg'.batch[i] <= arrived' /\ (i > 1 => tg'.batch[i] = tg'.batch[i - 1] + 1)
    <3>1. tg'.batch[i] = tg.batch[i + 1] /\ i + 1 \in 1..Len(tg.batch)
      BY <1>0, <2>1, BatchIs
    <3>2. tg.batch[i + 1] <= arrived /\ tg.batch[i + 1] = tg.batch[i] + 1
      <4>1. i + 1 > 1 /\ (i + 1) - 1 = i
        BY <2>1
      <4> QED BY <3>1, <4>1 DEF BatchOK
    <3>3. ASSUME i > 1 PROVE tg'.batch[i - 1] = tg.batch[i]
      <4>1. i - 1 \in 1..Len(Tail(tg.batch)) /\ (i - 1) + 1 = i
        BY <2>1, <3>3
      <4> QED BY <1>0, <2>1, <4>1, BatchIs
    <3> QED BY <2>1, <3>1, <3>2, <3>3
  <2> QED BY <2>1, <2>2 DEF BatchOK, OffsetOK
<1>5. CASE Flushing
  BY <1>5 DEF Flushing, BatchOK, OffsetOK
<1>6. CASE Stopping
  BY <1>6 DEF Stopping, BatchOK, OffsetOK
<1>7. CASE TgKept
  BY <1>7 DEF TgKept, BatchOK, OffsetOK
<1> QED BY <1>1, <1>2, <1>3, <1>4, <1>5, <1>6, <1>7, TgTurnIs

\* All messages behind the batch and behind the offset are handled.
LEMMA BehindStep ==
    ASSUME TypeOK, BatchOK, OffsetOK, BehindOK, TgNoneSkipped, TgTurn \/ TgKept
    PROVE  BehindOK' /\ TgNoneSkipped'
<1>0. /\ tg.batch \in Seq(Tg) /\ arrived \in Nat /\ offset \in {Torn} \cup Nat /\ Torn \notin Nat
      /\ JobsOK /\ Tg \subseteq Nat /\ Tg \subseteq Msg /\ confirmed \in Nat
  BY Reading, TypeParts, Messages
<1>1. CASE Poll
  <2>1. PICK a, c \in Nat :
            /\ confirmed' = c /\ (c = confirmed \/ (offset # Torn /\ c = offset))
            /\ tg'.batch \in Seq(Tg) /\ Len(tg'.batch) = a - c
            /\ \A i \in 1..a - c : tg'.batch[i] = c + i
    BY <1>1, PollType, TypeParts DEF OffsetOK
  <2>2. tg.pc = "idle" /\ tg'.pc = "batch" /\ UNCHANGED <<offset, foreign, jobs, cut, dropped>>
    BY <1>1, Reading
  <2>3. \A m \in Tg \ foreign : offset # Torn /\ m <= offset => Handled(m)
    BY <2>2 DEF TgNoneSkipped, Handled
  <2>4. \A m \in Tg \ foreign : m <= c => Handled(m)
    BY <2>1, <2>3 DEF BehindOK
  <2>5. tg'.batch # <<>> => tg'.batch[1] = c + 1
    BY <2>1, BatchIs
  <2>6. BehindOK'
    <3>1. ASSUME NEW m \in Tg \ foreign', m <= confirmed' \/ (tg'.batch # <<>> /\ m < tg'.batch[1])
          PROVE  Handled(m)'
      <4>1. m <= c
        BY <1>0, <2>1, <2>5, <3>1
      <4>2. Handled(m)
        BY <2>2, <2>4, <4>1, <3>1
      <4> QED BY <2>2, <4>2 DEF Handled
    <3> QED BY <3>1 DEF BehindOK
  <2>7. TgNoneSkipped'
    BY <2>2, <2>3 DEF TgNoneSkipped, Handled
  <2> QED BY <2>6, <2>7
<1>2. CASE OpenOffset
  <2>1. /\ tg'.batch = tg.batch /\ offset' = Torn
        /\ UNCHANGED <<confirmed, foreign, jobs, cut, dropped>>
    BY <1>2, Reading
  <2> QED BY <2>1 DEF BehindOK, TgNoneSkipped, Handled
<1>3. CASE SaveOffset
  <2>1. /\ tg.batch # <<>> /\ tg'.pc = "saved" /\ tg'.batch = tg.batch /\ offset' = tg.batch[1]
        /\ tg.batch[1] \in Tg /\ UNCHANGED <<confirmed, foreign, jobs, cut, dropped>>
    BY <1>3, Reading
  <2>2. BehindOK'
    BY <2>1 DEF BehindOK, Handled
  <2>3. ASSUME NEW m \in Tg \ foreign', m <= offset'
        PROVE  jobs'[m] > 0 \/ m \in cut' \cup dropped' \/ m = Head(tg'.batch)
    <3>1. m < tg.batch[1] => Handled(m)
      BY <2>1, <2>3 DEF BehindOK
    <3>2. m < tg.batch[1] \/ m = tg.batch[1]
      <4>1. m \in Nat /\ tg.batch[1] \in Nat /\ m <= tg.batch[1]
        BY <1>0, <2>1, <2>3
      <4> QED BY <4>1
    <3> QED BY <1>0, <2>1, <3>1, <3>2, BatchIs DEF Handled
  <2> QED BY <2>1, <2>2, <2>3 DEF TgNoneSkipped
<1>4. CASE Enqueue
  <2>1. /\ tg.pc = "saved" /\ tg.batch # <<>> /\ tg'.pc = "batch" /\ tg'.batch = Tail(tg.batch)
        /\ offset = tg.batch[1] /\ tg.batch[1] \in Tg
        /\ IF tg.batch[1] \in foreign THEN UNCHANGED jobs ELSE Queued(tg.batch[1])
        /\ UNCHANGED <<offset, confirmed, foreign, cut, dropped>>
    BY <1>4, Reading
  <2>2. /\ \A m \in Tg : jobs[m] > 0 => jobs'[m] > 0
        /\ tg.batch[1] \notin foreign => jobs'[tg.batch[1]] > 0
    <3>1. CASE tg.batch[1] \in foreign
      BY <2>1, <3>1
    <3>2. CASE tg.batch[1] \notin foreign
      <4>1. Queued(tg.batch[1]) /\ tg.batch[1] \in Msg /\ jobs \in [Msg -> 0..2]
        BY <1>0, <2>1, <3>2 DEF JobsOK
      <4>2. jobs'[tg.batch[1]] \in 1..2 /\ \A q \in Msg : q # tg.batch[1] => jobs'[q] = jobs[q]
        BY <4>1, QueuedType
      <4>3. jobs'[tg.batch[1]] > 0
        BY <4>2
      <4> QED BY <1>0, <4>2, <4>3
    <3> QED BY <3>1, <3>2
  <2>3. \A m \in Tg : Handled(m) => Handled(m)'
    BY <2>1, <2>2 DEF Handled
  <2>4. \A m \in Tg \ foreign : m <= tg.batch[1] => Handled(m)'
    <3>1. ASSUME NEW m \in Tg \ foreign, m <= tg.batch[1] PROVE Handled(m)'
      <4>1. CASE m = tg.batch[1]
        BY <2>2, <4>1 DEF Handled
      <4>2. CASE m < tg.batch[1]
        BY <2>1, <2>3, <4>2 DEF BehindOK
      <4>3. m \in Nat /\ tg.batch[1] \in Nat
        BY <1>0, <2>1
      <4> QED BY <3>1, <4>1, <4>2, <4>3
    <3> QED BY <3>1
  <2>5. tg'.batch # <<>> => tg'.batch[1] = tg.batch[1] + 1
    <3>1. ASSUME tg'.batch # <<>> PROVE tg'.batch[1] = tg.batch[1] + 1
      <4>1. Tail(tg.batch) \in Seq(Tg) /\ 1 \in 1..Len(Tail(tg.batch))
        BY <1>0, <2>1, <3>1, BatchIs
      <4>2. tg'.batch[1] = tg.batch[2] /\ 2 \in 1..Len(tg.batch)
        BY <1>0, <2>1, <4>1, BatchIs
      <4> QED BY <4>2 DEF BatchOK
    <3> QED BY <3>1
  <2>6. BehindOK'
    <3>1. ASSUME NEW m \in Tg \ foreign', m <= confirmed' \/ (tg'.batch # <<>> /\ m < tg'.batch[1])
          PROVE  Handled(m)'
      <4>1. CASE m <= confirmed'
        BY <2>1, <2>3, <4>1 DEF BehindOK
      <4>2. CASE tg'.batch # <<>> /\ m < tg'.batch[1]
        <5>1. m < tg.batch[1] + 1 /\ m \in Nat /\ tg.batch[1] \in Nat
          BY <1>0, <2>1, <2>5, <4>2
        <5>2. m <= tg.batch[1] /\ m \in Tg \ foreign
          BY <2>1, <5>1
        <5> QED BY <2>4, <5>2
      <4> QED BY <3>1, <4>1, <4>2
    <3> QED BY <3>1 DEF BehindOK
  <2>7. TgNoneSkipped'
    BY <2>1, <2>4 DEF TgNoneSkipped, Handled
  <2> QED BY <2>6, <2>7
<1>5. CASE Flushing
  <2>1. /\ UNCHANGED <<confirmed, offset, foreign, jobs, cut, dropped>> /\ tg'.batch = tg.batch
        /\ tg.pc # "saved"
    BY <1>5 DEF Flushing
  <2> QED BY <2>1 DEF BehindOK, TgNoneSkipped, Handled
<1>6. CASE Stopping
  <2>1. /\ UNCHANGED <<confirmed, offset, foreign, jobs>> /\ tg'.batch = <<>> /\ tg'.pc # "saved"
        /\ cut \subseteq cut' /\ dropped \subseteq dropped'
        /\ tg.pc = "saved" /\ Head(tg.batch) \notin foreign => Head(tg.batch) \in cut' \cup dropped'
    BY <1>6 DEF Stopping
  <2> QED BY <2>1 DEF BehindOK, TgNoneSkipped, Handled
<1>7. CASE TgKept
  <2>1. /\ UNCHANGED <<confirmed, offset, foreign, tg>> /\ cut \subseteq cut' /\ dropped \subseteq dropped'
        /\ \A m \in Tg : jobs'[m] = jobs[m]
    BY <1>7 DEF TgKept
  <2>2. BehindOK'
    BY <2>1 DEF BehindOK, Handled
  <2>3. TgNoneSkipped'
    BY <2>1 DEF TgNoneSkipped
  <2> QED BY <2>2, <2>3
<1> QED BY <1>1, <1>2, <1>3, <1>4, <1>5, <1>6, <1>7, TgTurnIs

\* No message becomes a job twice.
LEMMA OnceTgStep ==
    ASSUME TypeOK, BatchOK, OffsetOK, OnceTg, TgTurn \/ TgKept
    PROVE  OnceTg'
<1>0. /\ tg.batch \in Seq(Tg) /\ arrived \in Nat /\ offset \in {Torn} \cup Nat /\ Torn \notin Nat
      /\ JobsOK /\ Tg \subseteq Nat /\ Tg \subseteq Msg /\ tornOffset \in BOOLEAN
  BY Reading, TypeParts, Messages DEF RestOK
<1>1. CASE Poll
  <2>1. PICK a, c \in Nat :
            /\ confirmed' = c /\ (offset # Torn => offset <= c)
            /\ tg'.batch \in Seq(Tg) /\ Len(tg'.batch) = a - c
            /\ \A i \in 1..a - c : tg'.batch[i] = c + i
    BY <1>1, PollType, TypeParts DEF OffsetOK
  <2>2. tg.pc = "idle" /\ tg'.pc = "batch" /\ UNCHANGED <<offset, jobs, tornOffset>>
    BY <1>1, Reading
  <2>3. tg'.batch # <<>> => tg'.batch[1] = c + 1
    BY <2>1, BatchIs
  <2>4. ~tornOffset => offset # Torn /\ (tg'.batch # <<>> => tg'.batch[1] > offset)
    BY <1>0, <2>1, <2>2, <2>3 DEF OnceTg
  <2> QED BY <2>2, <2>4 DEF OnceTg
<1>2. CASE OpenOffset
  <2>1. /\ tg.pc = "batch" /\ tg.batch # <<>> /\ tg'.pc = "opened" /\ tg'.batch = tg.batch
        /\ offset' = Torn /\ UNCHANGED <<jobs, tornOffset>> /\ tg.batch[1] \in Nat
    BY <1>0, <1>2, Reading, BatchIs
  <2>2. ~tornOffset => offset \in Nat
    BY <1>0, <2>1 DEF OnceTg
  <2>3. ASSUME ~tornOffset, NEW m \in Tg, jobs[m] > 0 PROVE jobs[m] = 1 /\ m < tg.batch[1]
    <3>1. jobs[m] = 1 /\ m <= offset /\ offset < tg.batch[1] /\ m \in Nat /\ offset \in Nat
      BY <1>0, <2>1, <2>2, <2>3 DEF OnceTg
    <3> QED BY <2>1, <3>1
  <2> QED BY <2>1, <2>3 DEF OnceTg
<1>3. CASE SaveOffset
  <2>1. /\ tg.pc = "opened" /\ tg'.pc = "saved" /\ tg'.batch = tg.batch /\ offset' = tg.batch[1]
        /\ tg.batch[1] \in Tg /\ UNCHANGED <<jobs, tornOffset>>
    BY <1>3, Reading
  <2>2. offset' # Torn
    BY <1>0, <2>1
  <2> QED BY <2>1, <2>2 DEF OnceTg
<1>4. CASE Enqueue
  <2>1. /\ tg.pc = "saved" /\ tg.batch # <<>> /\ tg'.pc = "batch" /\ tg'.batch = Tail(tg.batch)
        /\ offset = tg.batch[1] /\ tg.batch[1] \in Tg
        /\ IF tg.batch[1] \in foreign THEN UNCHANGED jobs ELSE Queued(tg.batch[1])
        /\ UNCHANGED <<offset, tornOffset>>
    BY <1>4, Reading
  <2>2. tg'.batch # <<>> => tg'.batch[1] > offset
    <3>1. ASSUME tg'.batch # <<>> PROVE tg'.batch[1] = tg.batch[1] + 1
      <4>1. Tail(tg.batch) \in Seq(Tg) /\ 1 \in 1..Len(Tail(tg.batch))
        BY <1>0, <2>1, <3>1, BatchIs
      <4>2. tg'.batch[1] = tg.batch[2] /\ 2 \in 1..Len(tg.batch)
        BY <1>0, <2>1, <4>1, BatchIs
      <4> QED BY <4>2 DEF BatchOK
    <3>2. tg.batch[1] \in Nat
      BY <1>0, <2>1
    <3> QED BY <2>1, <3>1, <3>2
  <2>3. ASSUME ~tornOffset, NEW m \in Tg, jobs'[m] > 0 PROVE jobs'[m] = 1 /\ m <= offset
    <3>1. jobs[m] \in 0..2 /\ jobs[tg.batch[1]] \in 0..2
      BY <1>0, <2>1 DEF JobsOK
    <3>2. jobs[m] > 0 => jobs[m] = 1 /\ m < tg.batch[1]
      BY <2>1, <2>3 DEF OnceTg
    <3>3. CASE m = tg.batch[1]
      <4>1. jobs[m] = 0
        BY <1>0, <3>1, <3>2, <3>3
      <4>2. jobs'[m] = 1
        BY <1>0, <2>1, <2>3, <3>3, <4>1, QueuedType DEF JobsOK
      <4> QED BY <1>0, <2>1, <3>3, <4>2
    <3>4. CASE m # tg.batch[1]
      <4>1. jobs'[m] = jobs[m]
        BY <1>0, <2>1, <3>4, QueuedType DEF JobsOK
      <4>2. m \in Nat /\ tg.batch[1] \in Nat
        BY <1>0, <2>1
      <4>3. jobs[m] = 1 /\ m < tg.batch[1]
        BY <2>3, <3>2, <4>1
      <4> QED BY <2>1, <4>1, <4>2, <4>3
    <3> QED BY <3>3, <3>4
  <2> QED BY <1>0, <2>1, <2>2, <2>3 DEF OnceTg
<1>5. CASE Flushing
  BY <1>5 DEF Flushing, OnceTg
<1>6. CASE Stopping
  <2>1. /\ UNCHANGED <<offset, jobs>> /\ tg'.batch = <<>> /\ tg'.pc = "idle"
        /\ ~tornOffset' => ~tornOffset /\ tg.pc # "opened"
    BY <1>0, <1>6 DEF Stopping
  <2>2. tg.pc = "saved" => offset = tg.batch[1] /\ tg.batch[1] \in Tg
    <3>1. ASSUME tg.pc = "saved" PROVE offset = tg.batch[1] /\ tg.batch # <<>>
      BY <3>1 DEF OffsetOK, BatchOK
    <3> QED BY <1>0, <3>1, BatchIs
  <2>3. ASSUME ~tornOffset', NEW m \in Tg, jobs[m] > 0 PROVE jobs[m] = 1 /\ m <= offset
    <3>1. jobs[m] = 1 /\ IF tg.pc = "saved" THEN m < tg.batch[1] ELSE m <= offset
      BY <2>1, <2>3 DEF OnceTg
    <3>2. m \in Nat /\ (tg.pc = "saved" => tg.batch[1] \in Nat)
      BY <1>0, <2>2
    <3>3. tg.pc = "saved" => m <= offset
      BY <2>2, <3>1, <3>2
    <3> QED BY <3>1, <3>3
  <2>4. ~tornOffset' => offset # Torn
    BY <2>1 DEF OnceTg
  <2> QED BY <2>1, <2>3, <2>4 DEF OnceTg
<1>7. CASE TgKept
  BY <1>7 DEF TgKept, OnceTg
<1> QED BY <1>1, <1>2, <1>3, <1>4, <1>5, <1>6, <1>7, TgTurnIs

\* What Telegram was sent, and what became of the records.
LEMMA TgPostsStep ==
    ASSUME TypeOK, TgPosts, TgTurn \/ TgKept
    PROVE  TgPosts'
<1>0. /\ TgOK /\ FilesOK /\ PostsOK /\ RestOK /\ Tg \subseteq Msg
      /\ \A m \in Tg : PartsOf(m) = {1} /\ posts[m][1] \in 0..2
  BY TypeParts, Messages, PartsAre DEF PostsOK
<1> USE DEF inVars, outVars, worldVars
<1>1. ASSUME UNCHANGED <<box, posts, unsure>>, tg.pc # "sent", tg'.pc # "sent" PROVE TgPosts'
  BY <1>1 DEF TgPosts
<1>2. CASE Poll \/ OpenOffset \/ SaveOffset \/ Enqueue \/ FlushTg \/ FlushTgNext \/ SenderStops
  <2>1. UNCHANGED <<box, posts, unsure>> /\ tg.pc # "sent" /\ tg'.pc # "sent"
    <3>1. CASE Poll \/ OpenOffset \/ SaveOffset \/ Enqueue
      BY <1>0, <3>1 DEF Poll, OpenOffset, SaveOffset, Enqueue, TgOK, TgType
    <3>2. CASE FlushTg
      <4>1. tg'.pc = IF Outbox = {} THEN "idle" ELSE "flush"
        BY <1>0, <3>2 DEF FlushTg, TgOK, TgType
      <4> QED BY <3>2, <4>1 DEF FlushTg
    <3>4. CASE SenderStops
      BY <3>4 DEF SenderStops, TgOff
    <3>3. CASE FlushTgNext
      BY <1>0, <3>3 DEF FlushTgNext, NextFile, PassEnds, TgOK, TgType
    <3> QED BY <1>2, <3>1, <3>2, <3>3, <3>4
  <2> QED BY <1>1, <2>1
<1>3. CASE RemoveTg
  <2> DEFINE m == Min(tg.todo)
  <2>1. /\ m \in Tg /\ posts[m][1] > 0 /\ tg.pc = "sent" /\ tg'.pc # "sent"
        /\ UNCHANGED <<posts, unsure>>
    BY <1>0, <1>3 DEF RemoveTg, NextFile, TgPosts, TgOK, TgType
  <2>2. box'[m] = "gone" /\ \A q \in Tg : q # m => box'[q] = box[q]
    BY <1>0, <1>3, <2>1 DEF RemoveTg, FilesOK
  <2> HIDE DEF m
  <2>3. \A q \in Tg \ unsure : posts[q][1] > 0 => posts[q][1] = 1 /\ box'[q] = "gone"
    BY <2>1, <2>2 DEF TgPosts, m
  <2> QED BY <2>1, <2>2, <2>3 DEF TgPosts
<1>4. ASSUME NEW m \in Tg, SendTg(m) PROVE TgPosts'
  <2>1. /\ m = Min(tg.todo) /\ tg.pc = "flush" /\ tg'.pc = "sent" /\ tg'.todo = tg.todo
        /\ box[m] = "full" /\ UNCHANGED <<box, unsure>>
    BY <1>0, <1>4 DEF SendTg, NextTg, TgOK, TgType
  <2>2. /\ posts'[m][1] \in 1..2 /\ (posts[m][1] = 0 => posts'[m][1] = 1)
        /\ \A q \in Tg : q # m => posts'[q] = posts[q]
    BY <1>0, <1>4, PostedType DEF SendTg
  <2>3. m \notin unsure => posts'[m][1] = 1
    <3>1. ASSUME m \notin unsure PROVE posts[m][1] = 0
      <4>1. ~ (posts[m][1] > 0)
        BY <2>1, <3>1 DEF TgPosts
      <4> QED BY <1>0, <4>1
    <3> QED BY <2>2, <3>1
  <2>4. posts'[m][1] > 0
    BY <2>2
  <2>5. \A q \in Tg \ unsure : q # m => (posts'[q][1] > 0 => posts'[q][1] = 1 /\ box'[q] = "gone")
    BY <2>1, <2>2 DEF TgPosts
  <2>6. \A q \in Tg : box'[q] = "gone" => posts'[q][1] > 0
    BY <2>1, <2>2 DEF TgPosts
  <2> QED BY <2>1, <2>3, <2>4, <2>5, <2>6 DEF TgPosts
<1>5. ASSUME NEW m \in Tg, SendTgFails(m) PROVE TgPosts'
  <2>1. tg.pc = "flush" /\ tg'.pc # "sent" /\ box[m] = "full" /\ UNCHANGED box
    BY <1>0, <1>5 DEF SendTgFails, NextTg, NextFile, PassEnds, TgOK, TgType
  <2>2. CASE UNCHANGED <<posts, unsure>>
    BY <1>1, <2>1, <2>2
  <2>3. CASE Posted(m, 1) /\ unsure' = unsure \cup {m}
    <3>1. \A q \in Tg : q # m => posts'[q] = posts[q]
      BY <1>0, <2>3, PostedType
    <3>2. \A q \in Tg : box'[q] = "gone" => posts'[q][1] > 0
      BY <2>1, <3>1 DEF TgPosts
    <3>3. \A q \in Tg \ unsure' : posts'[q][1] > 0 => posts'[q][1] = 1 /\ box'[q] = "gone"
      BY <2>1, <2>3, <3>1 DEF TgPosts
    <3> QED BY <2>1, <3>2, <3>3 DEF TgPosts
  <2> QED BY <1>5, <2>2, <2>3 DEF SendTgFails, Lost
<1>6. CASE Supervise \/ DieTg
  <2>1. /\ UNCHANGED <<box, posts>> /\ tg'.pc = "idle" /\ unsure \subseteq unsure'
        /\ tg.pc = "sent" => Min(tg.todo) \in unsure'
    BY <1>6 DEF Supervise, DieTg, TgKilled, TgOff
  <2> QED BY <2>1 DEF TgPosts
<1>8. CASE HandlingFails
  <2>1. UNCHANGED <<box, posts, unsure>> /\ tg.pc # "sent" /\ tg'.pc # "sent"
    BY <1>0, <1>8 DEF HandlingFails, TgOK, TgType
  <2> QED BY <1>1, <2>1
<1>7. CASE TgKept
  <2>1. /\ UNCHANGED tg /\ unsure \subseteq unsure'
        /\ \A q \in Tg : /\ posts'[q] = posts[q] /\ (box'[q] = "gone" <=> box[q] = "gone")
                         /\ box[q] = "full" => box'[q] = "full"
    BY <1>7 DEF TgKept
  <2> QED BY <2>1 DEF TgPosts
<1> QED BY <1>2, <1>3, <1>4, <1>5, <1>6, <1>7, <1>8 DEF TgTurn, TgSteps

-----------------------------------------------------------------------------
(* Slack's side.                                                           *)

LEMMA OnceSlStep ==
    ASSUME TypeOK, OnceSl, DmOK, SlTurn \/ SlKept
    PROVE  OnceSl' /\ DmOK'
<1>0. /\ SlOK /\ JobsOK /\ RestOK /\ Sl \subseteq Msg /\ sl.pending \in Seq(Sl) /\ sl.seen \subseteq Sl
      /\ \A m \in Sl : jobs[m] \in 0..2
  BY TypeParts, Messages DEF SlOK, SlType, JobsOK
<1> USE DEF inVars, outVars, worldVars
<1>1. ASSUME UNCHANGED <<jobs, cut, dmFile>>, sl'.seen = sl.seen, sl'.pending = sl.pending,
             sl'.up = sl.up, sl'.dm = sl.dm
      PROVE  OnceSl' /\ DmOK'
  BY <1>1 DEF OnceSl, DmOK
<1>2. CASE SlSteps
  <2>1. /\ UNCHANGED <<jobs, cut, dmFile>> /\ sl'.seen = sl.seen /\ sl'.pending = sl.pending
        /\ sl'.up = sl.up /\ sl'.dm = sl.dm
    <3>1. CASE FlushSl \/ FlushSlNext \/ RemoveSl
      BY <1>0, <3>1 DEF FlushSl, FlushSlNext, RemoveSl, SlOK, SlType
    <3>2. ASSUME NEW m \in Sl, PostSl(m)
          PROVE  /\ UNCHANGED <<jobs, cut, dmFile>> /\ sl'.seen = sl.seen /\ sl'.pending = sl.pending
                 /\ sl'.up = sl.up /\ sl'.dm = sl.dm
      BY <1>0, <3>2 DEF PostSl, SlOK, SlType
    <3>3. ASSUME NEW m \in Sl, PostSlFails(m)
          PROVE  /\ UNCHANGED <<jobs, cut, dmFile>> /\ sl'.seen = sl.seen /\ sl'.pending = sl.pending
                 /\ sl'.up = sl.up /\ sl'.dm = sl.dm
      <4>1. PICK rest : sl' = [sl EXCEPT !.todo = rest]
        BY <3>3 DEF PostSlFails
      <4> QED BY <1>0, <3>3, <4>1 DEF PostSlFails, SlOK, SlType
    <3> QED BY <1>2, <3>1, <3>2, <3>3 DEF SlSteps
  <2> QED BY <1>1, <2>1
<1>3. CASE LearnDm
  BY <1>0, <1>3 DEF LearnDm, OnceSl, DmOK, SlOK, SlType
<1>4. CASE EnqueueSl
  <2> DEFINE h == Head(sl.pending)
  <2>1. /\ sl.pending # <<>> /\ sl.dm /\ sl.up /\ Queued(h) /\ UNCHANGED <<cut, dmFile>>
        /\ sl'.pending = Tail(sl.pending) /\ sl'.seen = sl.seen /\ sl'.up = sl.up /\ sl'.dm = sl.dm
    BY <1>0, <1>4, InHand DEF EnqueueSl, SlOK, SlType
  <2>2. /\ h = sl.pending[1] /\ h \in Sl /\ 1 \in 1..Len(sl.pending)
        /\ \A i \in 1..Len(sl'.pending) :
              sl'.pending[i] = sl.pending[i + 1] /\ i + 1 \in 1..Len(sl.pending)
    BY <1>0, <2>1, BatchIs
  <2> HIDE DEF h
  <2>3. jobs'[h] \in 1..2 /\ (jobs[h] = 0 => jobs'[h] = 1) /\ \A q \in Sl : q # h => jobs'[q] = jobs[q]
    BY <1>0, <2>1, <2>2, QueuedType DEF JobsOK
  <2>4. \A i, j \in 1..Len(sl'.pending) : sl'.pending[i] = sl'.pending[j] => i = j
    <3>1. ASSUME NEW i \in 1..Len(sl'.pending), NEW j \in 1..Len(sl'.pending), sl'.pending[i] = sl'.pending[j]
          PROVE  i = j
      <4>1. i + 1 = j + 1
        BY <2>2, <3>1 DEF OnceSl
      <4> QED BY <4>1
    <3> QED BY <3>1
  <2>5. \A i \in 1..Len(sl'.pending) : sl'.pending[i] # h
    <3>1. ASSUME NEW i \in 1..Len(sl'.pending), sl'.pending[i] = h PROVE FALSE
      <4>1. i + 1 = 1
        BY <2>2, <3>1 DEF OnceSl
      <4> QED BY <4>1
    <3> QED BY <3>1
  <2>6. h \in sl.seen
    BY <2>2 DEF OnceSl
  <2>7. h \notin cut => jobs'[h] = 1
    <3>1. ASSUME h \notin cut PROVE jobs[h] = 0
      <4>1. jobs[h] <= 1 /\ jobs[h] # 1
        BY <2>2, <3>1 DEF OnceSl
      <4> QED BY <1>0, <2>2, <4>1
    <3> QED BY <2>3, <3>1
  <2>8. ASSUME NEW q \in Sl \ cut
        PROVE  /\ jobs'[q] <= 1
               /\ jobs'[q] = 1 => q \in sl'.seen /\ \A i \in 1..Len(sl'.pending) : sl'.pending[i] # q
    <3>1. CASE q = h
      BY <2>1, <2>5, <2>6, <2>7, <3>1
    <3>2. CASE q # h
      <4>1. jobs'[q] = jobs[q]
        BY <2>3, <3>2
      <4> QED BY <2>1, <2>2, <4>1 DEF OnceSl
    <3> QED BY <3>1, <3>2
  <2>9. \A i \in 1..Len(sl'.pending) : sl'.pending[i] \in sl'.seen
    BY <2>1, <2>2 DEF OnceSl
  <2>10. OnceSl'
    BY <2>1, <2>4, <2>8, <2>9 DEF OnceSl
  <2>11. DmOK'
    BY <2>1 DEF DmOK
  <2> QED BY <2>10, <2>11
<1>5. ASSUME NEW m \in Sl, Envelope(m) PROVE OnceSl' /\ DmOK'
  <2>1. CASE m \in sl.seen
    <3>1. UNCHANGED <<sl, jobs, cut, dmFile>>
      BY <1>5, <2>1 DEF Envelope
    <3> QED BY <1>1, <3>1
  <2>2. CASE m \notin sl.seen
    <3>1. /\ sl'.seen = sl.seen \cup {m} /\ sl'.pending = Append(sl.pending, m) /\ sl'.up = sl.up
          /\ sl'.dm = sl.dm /\ UNCHANGED <<jobs, cut, dmFile>>
      BY <1>0, <1>5, <2>2 DEF Envelope, SlOK, SlType
    <3>2. /\ Len(sl'.pending) = Len(sl.pending) + 1 /\ Len(sl.pending) \in Nat
          /\ sl'.pending[Len(sl.pending) + 1] = m
          /\ \A i \in 1..Len(sl.pending) : sl'.pending[i] = sl.pending[i]
      BY <1>0, <3>1
    <3>3. \A i \in 1..Len(sl'.pending) :
             IF i = Len(sl.pending) + 1 THEN sl'.pending[i] = m
             ELSE i \in 1..Len(sl.pending) /\ sl'.pending[i] = sl.pending[i]
      BY <3>2
    <3>4. \A i \in 1..Len(sl.pending) : sl.pending[i] \in sl.seen /\ sl.pending[i] # m
      BY <2>2 DEF OnceSl
    <3>5. \A i, j \in 1..Len(sl'.pending) : sl'.pending[i] = sl'.pending[j] => i = j
      BY <3>3, <3>4 DEF OnceSl
    <3>6. \A i \in 1..Len(sl'.pending) : sl'.pending[i] \in sl'.seen
      BY <3>1, <3>3, <3>4
    <3>7. \A q \in Sl \ cut : /\ jobs[q] <= 1
                              /\ jobs[q] = 1 => q \in sl.seen /\ \A i \in 1..Len(sl'.pending) : sl'.pending[i] # q
      BY <2>2, <3>3 DEF OnceSl
    <3>8. OnceSl'
      BY <3>1, <3>5, <3>6, <3>7 DEF OnceSl
    <3> QED BY <3>1, <3>8 DEF DmOK
  <2> QED BY <2>1, <2>2
<1>6. CASE SuperviseSl
  <2>1. /\ sl.seen = {} /\ sl.pending = <<>> /\ sl'.seen = {} /\ sl'.pending = <<>> /\ sl'.dm = dmFile
        /\ UNCHANGED <<jobs, cut, dmFile>>
    BY <1>0, <1>6 DEF SuperviseSl, SlUp, SlOK
  <2> QED BY <2>1 DEF OnceSl, DmOK
<1>7. CASE DieSl
  <2>1. /\ sl'.seen = {} /\ sl'.pending = <<>> /\ ~sl'.up /\ cut' = cut \cup sl.seen
        /\ UNCHANGED <<jobs, dmFile>>
    BY <1>7 DEF DieSl, SlUp
  <2> QED BY <2>1 DEF OnceSl, DmOK
<1>9. CASE EnqueueSlFails
  <2>1. /\ sl.pending # <<>> /\ UNCHANGED <<jobs, cut, dmFile>> /\ sl'.pending = Tail(sl.pending)
        /\ sl'.seen = sl.seen /\ sl'.up = sl.up /\ sl'.dm = sl.dm
    BY <1>0, <1>9 DEF EnqueueSlFails, SlOK, SlType
  <2>2. \A i \in 1..Len(sl'.pending) :
           sl'.pending[i] = sl.pending[i + 1] /\ i + 1 \in 1..Len(sl.pending)
    BY <1>0, <2>1, BatchIs
  <2>3. \A i, j \in 1..Len(sl'.pending) : sl'.pending[i] = sl'.pending[j] => i = j
    <3>1. ASSUME NEW i \in 1..Len(sl'.pending), NEW j \in 1..Len(sl'.pending), sl'.pending[i] = sl'.pending[j]
          PROVE  i = j
      <4>1. i + 1 = j + 1
        BY <2>2, <3>1 DEF OnceSl
      <4> QED BY <4>1
    <3> QED BY <3>1
  <2>4. OnceSl'
    BY <2>1, <2>2, <2>3 DEF OnceSl
  <2> QED BY <2>1, <2>4 DEF DmOK
<1>8. CASE SlKept
  <2>1. /\ UNCHANGED <<sl, dmFile>> /\ cut \subseteq cut' /\ \A q \in Sl : jobs'[q] = jobs[q]
    BY <1>8 DEF SlKept
  <2>2. OnceSl'
    BY <2>1 DEF OnceSl
  <2> QED BY <2>1, <2>2 DEF DmOK
<1> QED BY <1>2, <1>3, <1>4, <1>5, <1>6, <1>7, <1>8, <1>9 DEF SlTurn

\* What Slack delivered is a job, waits its turn, or was lost.
LEMMA SlSkipsNone ==
    ASSUME TypeOK, OnceSl, SlNoneSkipped, SlTurn \/ SlKept
    PROVE  SlNoneSkipped'
<1>0. /\ SlOK /\ JobsOK /\ HeardOK /\ Sl \subseteq Msg /\ sl.pending \in Seq(Sl) /\ heard \subseteq Sl
      /\ sl.seen \subseteq heard
  BY TypeParts, Messages DEF SlOK, SlType, HeardOK
<1> USE DEF inVars, outVars, worldVars
<1>1. ASSUME UNCHANGED <<heard, jobs, cut, dropped>>, sl'.pending = sl.pending PROVE SlNoneSkipped'
  BY <1>1 DEF SlNoneSkipped
<1>2. CASE SlSteps \/ LearnDm \/ SuperviseSl
  <2>1. UNCHANGED <<heard, jobs, cut, dropped>> /\ sl'.pending = sl.pending
    <3>1. CASE FlushSl \/ FlushSlNext \/ RemoveSl \/ LearnDm
      BY <1>0, <3>1 DEF FlushSl, FlushSlNext, RemoveSl, LearnDm, SlOK, SlType
    <3>2. ASSUME NEW m \in Sl, PostSl(m) \/ PostSlFails(m)
          PROVE  UNCHANGED <<heard, jobs, cut, dropped>> /\ sl'.pending = sl.pending
      <4>1. CASE PostSl(m)
        BY <1>0, <4>1 DEF PostSl, SlOK, SlType
      <4>2. CASE PostSlFails(m)
        <5>1. PICK rest : sl' = [sl EXCEPT !.todo = rest]
          BY <4>2 DEF PostSlFails
        <5> QED BY <1>0, <4>2, <5>1 DEF PostSlFails, SlOK, SlType
      <4> QED BY <3>2, <4>1, <4>2
    <3>3. CASE SuperviseSl
      BY <1>0, <3>3 DEF SuperviseSl, SlUp, SlOK
    <3> QED BY <1>2, <3>1, <3>2, <3>3 DEF SlSteps
  <2> QED BY <1>1, <2>1
<1>3. ASSUME sl.pending # <<>>, sl'.pending = Tail(sl.pending), UNCHANGED <<heard, cut>>,
             dropped \subseteq dropped', \A m \in Sl : jobs[m] > 0 => jobs'[m] > 0,
             jobs'[Head(sl.pending)] > 0 \/ Head(sl.pending) \in dropped'
      PROVE  SlNoneSkipped'
  <2>1. /\ Head(sl.pending) = sl.pending[1] /\ Len(sl.pending) \in Nat
        /\ Len(sl'.pending) = Len(sl.pending) - 1
        /\ \A i \in 1..Len(sl'.pending) : sl'.pending[i] = sl.pending[i + 1]
    BY <1>0, <1>3, BatchIs
  <2>2. ASSUME NEW m \in heard, NEW i \in 1..Len(sl.pending), sl.pending[i] = m
        PROVE  jobs'[m] > 0 \/ m \in dropped' \/ \E j \in 1..Len(sl'.pending) : sl'.pending[j] = m
    <3>1. CASE i = 1
      BY <1>3, <2>1, <2>2, <3>1
    <3>2. CASE i # 1
      <4>1. i - 1 \in 1..Len(sl'.pending) /\ (i - 1) + 1 = i
        BY <2>1, <3>2
      <4>2. sl'.pending[i - 1] = m
        BY <2>1, <2>2, <4>1
      <4> QED BY <4>1, <4>2
    <3> QED BY <3>1, <3>2
  <2> QED BY <1>0, <1>3, <2>2 DEF SlNoneSkipped
<1>4. CASE EnqueueSl
  <2>1. Head(sl.pending) \in Sl /\ Queued(Head(sl.pending))
    BY <1>0, <1>4, BatchIs DEF EnqueueSl
  <2>2. jobs'[Head(sl.pending)] \in 1..2 /\ \A q \in Msg : q # Head(sl.pending) => jobs'[q] = jobs[q]
    BY <1>0, <2>1, QueuedType DEF JobsOK
  <2>3. jobs'[Head(sl.pending)] > 0
    BY <2>2
  <2>4. /\ sl.pending # <<>> /\ sl'.pending = Tail(sl.pending) /\ UNCHANGED <<heard, cut, dropped>>
    BY <1>0, <1>4 DEF EnqueueSl, SlOK, SlType
  <2> QED BY <1>0, <1>3, <2>2, <2>3, <2>4
<1>5. CASE EnqueueSlFails
  <2>1. /\ sl.pending # <<>> /\ sl'.pending = Tail(sl.pending) /\ UNCHANGED <<heard, cut, jobs>>
        /\ dropped' = dropped \cup {Head(sl.pending)}
    BY <1>0, <1>5 DEF EnqueueSlFails, SlOK, SlType
  <2> QED BY <1>3, <2>1
<1>6. ASSUME NEW m \in Sl, Envelope(m) PROVE SlNoneSkipped'
  <2>1. heard' = heard \cup {m} /\ UNCHANGED <<jobs, cut, dropped>>
    BY <1>6 DEF Envelope
  <2>2. CASE m \in sl.seen
    <3>1. heard' = heard /\ sl' = sl
      BY <1>0, <1>6, <2>1, <2>2 DEF Envelope
    <3> QED BY <1>1, <2>1, <3>1
  <2>3. CASE m \notin sl.seen
    <3>1. sl'.pending = Append(sl.pending, m)
      BY <1>0, <1>6, <2>3 DEF Envelope, SlOK, SlType
    <3>2. /\ Len(sl'.pending) = Len(sl.pending) + 1 /\ Len(sl.pending) \in Nat
          /\ sl'.pending[Len(sl.pending) + 1] = m
          /\ \A i \in 1..Len(sl.pending) : sl'.pending[i] = sl.pending[i]
      BY <1>0, <3>1
    <3>3. \E i \in 1..Len(sl'.pending) : sl'.pending[i] = m
      BY <3>2
    <3>4. \A i \in 1..Len(sl.pending) : i \in 1..Len(sl'.pending) /\ sl'.pending[i] = sl.pending[i]
      BY <3>2
    <3> QED BY <2>1, <3>3, <3>4 DEF SlNoneSkipped
  <2> QED BY <2>2, <2>3
<1>7. CASE DieSl
  <2>1. UNCHANGED <<heard, jobs, dropped>> /\ cut' = cut \cup sl.seen
    BY <1>7 DEF DieSl
  <2>2. \A i \in 1..Len(sl.pending) : sl.pending[i] \in sl.seen
    BY DEF OnceSl
  <2> QED BY <2>1, <2>2 DEF SlNoneSkipped
<1>8. CASE SlKept
  <2>1. /\ UNCHANGED <<sl, heard>> /\ cut \subseteq cut' /\ dropped \subseteq dropped'
        /\ \A q \in Sl : jobs'[q] = jobs[q]
    BY <1>8 DEF SlKept
  <2> QED BY <1>0, <2>1 DEF SlNoneSkipped
<1> QED BY <1>2, <1>4, <1>5, <1>6, <1>7, <1>8 DEF SlTurn

\* What Slack was sent, as far as the bridge knows.
LEMMA SlPostsStep ==
    ASSUME TypeOK, SlPosts, DmOK, BoxOK, SlTurn \/ SlKept
    PROVE  SlPosts'
<1>0. /\ SlOK /\ FilesOK /\ PostsOK /\ RestOK /\ Sl \subseteq Msg /\ Parts \in Nat \ {0}
      /\ sl.done \in [Sl -> 0..Parts] /\ sl.todo \subseteq Sl
      /\ \A m \in Sl : /\ PartsOf(m) = 1..Parts /\ sl.done[m] \in 0..Parts
                       /\ \A i \in 1..Parts : posts[m][i] \in 0..2
  <2>1. /\ SlOK /\ FilesOK /\ PostsOK /\ RestOK /\ Sl \subseteq Msg /\ Parts \in Nat \ {0}
        /\ sl.done \in [Sl -> 0..Parts] /\ sl.todo \subseteq Sl
    BY TypeParts, Messages DEF SlOK, SlType
  <2>2. ASSUME NEW m \in Sl
        PROVE  /\ PartsOf(m) = 1..Parts /\ sl.done[m] \in 0..Parts
               /\ \A i \in 1..Parts : posts[m][i] \in 0..2
    BY <2>1, PartsAre DEF PostsOK
  <2> QED BY <2>1, <2>2
<1> USE DEF inVars, outVars, worldVars
<1>1. ASSUME UNCHANGED <<box, posts, unsure>>, sl'.done = sl.done, sl.pc = "idle", sl'.pc = "idle"
      PROVE  SlPosts'
  BY <1>1 DEF SlPosts
<1>2. CASE FlushSl
  BY <1>0, <1>1, <1>2 DEF FlushSl, SlOK, SlType
<1>3. CASE FlushSlNext
  <2>1. /\ sl.up /\ sl'.done = sl.done /\ sl.pc = "idle" /\ sl'.pc = "idle"
        /\ UNCHANGED <<posts, unsure>>
    BY <1>0, <1>3, InHand DEF FlushSlNext, SlOK, SlType
  <2> DEFINE m == Min(sl.todo)
  <2>2. m \in Sl
    BY <1>0, <1>3, MinIsLeast, Messages DEF FlushSlNext
  <2>3. box[m] # "full"
    <3>1. box[m] = "full" => sl.dm
      BY <1>0, <2>1, <2>2 DEF BoxOK, DmOK
    <3> QED BY <1>3, <3>1 DEF FlushSlNext
  <2>4. UNCHANGED box
    <3>1. box' = [box EXCEPT ![m] = box[m]]
      BY <1>3, <2>3 DEF FlushSlNext
    <3> QED BY <1>0, <2>2, <3>1 DEF FilesOK
  <2> QED BY <1>1, <2>1, <2>4
<1>4. CASE RemoveSl
  <2> DEFINE m == Min(sl.todo)
  <2>1. m \in Sl /\ sl.done[m] = Parts /\ sl.pc = "sent" /\ UNCHANGED <<posts, unsure>>
    BY <1>4 DEF RemoveSl, SlPosts
  <2>2. box'[m] = "gone" /\ \A q \in Sl : q # m => box'[q] = box[q]
    BY <1>0, <1>4, <2>1 DEF RemoveSl, FilesOK
  <2>3. sl'.pc = "idle" /\ sl'.done[m] = 0 /\ \A q \in Sl : q # m => sl'.done[q] = sl.done[q]
    BY <1>0, <1>4, <2>1 DEF RemoveSl, SlOK, SlType
  <2> HIDE DEF m
  <2>4. \A q \in Sl : sl'.done[q] # Parts
    BY <1>0, <2>1, <2>3 DEF SlPosts, m
  <2>5. \A i \in 1..Parts : posts[m][i] > 0
    BY <2>1 DEF SlPosts
  <2>6. \A q \in Sl : \A i \in 1..Parts : i <= sl'.done[q] \/ box'[q] = "gone" => posts[q][i] > 0
    BY <2>2, <2>3, <2>5 DEF SlPosts
  <2>7. \A q \in Sl : \A i \in 1..Parts :
           q \notin unsure => (posts[q][i] > 0 => i <= sl'.done[q] \/ box'[q] = "gone")
    BY <2>2, <2>3 DEF SlPosts
  <2> QED BY <2>1, <2>3, <2>4, <2>6, <2>7 DEF SlPosts
<1>5. ASSUME NEW m \in Sl, PostSl(m) PROVE SlPosts'
  <2> DEFINE k == sl.done[m] + 1
  <2>1. /\ m = Min(sl.todo) /\ sl.pc = "idle" /\ box[m] = "full" /\ Posted(m, k)
        /\ UNCHANGED <<box, unsure>> /\ sl'.todo = sl.todo
        /\ sl'.pc = IF k = Parts THEN "sent" ELSE "idle"
        /\ sl'.done = [sl.done EXCEPT ![m] = k]
    BY <1>0, <1>5 DEF PostSl, NextSl, SlOK, SlType
  <2>2. sl'.done[m] = k /\ \A q \in Sl : q # m => sl'.done[q] = sl.done[q]
    BY <1>0, <2>1
  <2>3. \A q \in Sl : sl.done[q] # Parts
    BY <2>1 DEF SlPosts
  <2>4. k \in 1..Parts /\ \A j \in 1..k : j # k => j <= sl.done[m]
    BY <1>0, <2>3
  <2> HIDE DEF k
  <2>5. /\ posts'[m][k] \in 1..2 /\ (posts[m][k] = 0 => posts'[m][k] = 1)
        /\ \A j \in 1..Parts : j # k => posts'[m][j] = posts[m][j]
        /\ \A q \in Sl : q # m => posts'[q] = posts[q]
    BY <1>0, <2>1, <2>4, PostedType
  <2>6. sl'.pc = "sent" => Min(sl'.todo) \in Sl /\ box'[Min(sl'.todo)] = "full" /\ sl'.done[Min(sl'.todo)] = Parts
    BY <2>1, <2>2
  <2>7. \A q \in Sl : sl'.done[q] = Parts => sl'.pc = "sent" /\ q = Min(sl'.todo)
    BY <2>1, <2>2, <2>3
  <2>8. ASSUME NEW i \in 1..Parts
        PROVE  /\ i <= sl'.done[m] \/ box'[m] = "gone" => posts'[m][i] > 0
               /\ \A j \in 1..i : posts'[m][i] > 0 => posts'[m][j] > 0
               /\ m \notin unsure => /\ posts'[m][i] <= 1
                                     /\ posts'[m][i] > 0 => i <= sl'.done[m] \/ box'[m] = "gone"
    <3>1. posts'[m][k] > 0
      BY <2>5
    <3>2. ASSUME NEW j \in 1..Parts, j <= k PROVE posts'[m][j] > 0
      <4>1. CASE j = k
        BY <3>1, <4>1
      <4>2. CASE j # k
        <5>1. j <= sl.done[m]
          BY <2>4, <3>2, <4>2
        <5> QED BY <2>5, <4>2, <5>1 DEF SlPosts
      <4> QED BY <4>1, <4>2
    <3>3. i <= sl'.done[m] \/ box'[m] = "gone" => posts'[m][i] > 0
      BY <2>1, <2>2, <3>2
    <3>4. ASSUME NEW j \in 1..i, posts'[m][i] > 0 PROVE posts'[m][j] > 0
      <4>0. j \in 1..Parts
        BY <1>0
      <4>1. CASE i <= k
        BY <2>4, <3>2, <4>0, <4>1
      <4>2. CASE ~ (i <= k)
        <5>1. posts[m][i] > 0
          BY <2>4, <2>5, <3>4, <4>2
        <5>2. posts[m][j] > 0
          BY <5>1 DEF SlPosts
        <5> QED BY <2>5, <3>1, <4>0, <5>2
      <4> QED BY <4>1, <4>2
    <3>5. ASSUME m \notin unsure
          PROVE  posts'[m][i] <= 1 /\ (posts'[m][i] > 0 => i <= sl'.done[m])
      <4>1. CASE i = k
        <5>1. ~ (posts[m][k] > 0)
          <6>1. posts[m][k] > 0 => k <= sl.done[m]
            BY <2>1, <2>4, <3>5 DEF SlPosts
          <6> QED BY <1>0, <6>1 DEF k
        <5>2. posts'[m][k] = 1
          BY <1>0, <2>4, <2>5, <5>1
        <5> QED BY <2>2, <2>4, <4>1, <5>2
      <4>2. CASE i # k
        <5>1. posts[m][i] <= 1 /\ (posts[m][i] > 0 => i <= sl.done[m])
          BY <2>1, <3>5 DEF SlPosts
        <5>2. i <= sl.done[m] => i <= k
          BY <1>0 DEF k
        <5> QED BY <2>2, <2>5, <4>2, <5>1, <5>2
      <4> QED BY <4>1, <4>2
    <3> QED BY <3>3, <3>4, <3>5
  <2>9. ASSUME NEW q \in Sl, q # m, NEW i \in 1..Parts
        PROVE  /\ i <= sl'.done[q] \/ box'[q] = "gone" => posts'[q][i] > 0
               /\ \A j \in 1..i : posts'[q][i] > 0 => posts'[q][j] > 0
               /\ q \notin unsure => /\ posts'[q][i] <= 1
                                     /\ posts'[q][i] > 0 => i <= sl'.done[q] \/ box'[q] = "gone"
    <3>1. posts'[q] = posts[q] /\ sl'.done[q] = sl.done[q] /\ box'[q] = box[q]
      BY <2>1, <2>2, <2>5, <2>9
    <3> QED BY <3>1 DEF SlPosts
  <2>10. unsure' = unsure
    BY <2>1
  <2> QED BY <2>6, <2>7, <2>8, <2>9, <2>10 DEF SlPosts
<1>6. ASSUME NEW m \in Sl, PostSlFails(m) PROVE SlPosts'
  <2>1. /\ sl.pc = "idle" /\ box[m] = "full" /\ UNCHANGED box /\ sl'.pc = "idle" /\ sl'.done = sl.done
    <3>1. PICK rest : sl' = [sl EXCEPT !.todo = rest]
      BY <1>6 DEF PostSlFails
    <3> QED BY <1>0, <1>6, <3>1 DEF PostSlFails, NextSl, SlOK, SlType
  <2>2. CASE UNCHANGED <<posts, unsure>>
    BY <1>1, <2>1, <2>2
  <2>3. CASE Posted(m, sl.done[m] + 1) /\ unsure' = unsure \cup {m}
    <3> DEFINE k == sl.done[m] + 1
    <3>1. \A q \in Sl : sl.done[q] # Parts
      BY <2>1 DEF SlPosts
    <3>2. k \in 1..Parts /\ \A j \in 1..k : j # k => j <= sl.done[m]
      BY <1>0, <3>1
    <3>3. Posted(m, k)
      BY <2>3
    <3> HIDE DEF k
    <3>4. /\ posts'[m][k] > 0
          /\ \A j \in 1..Parts : j # k => posts'[m][j] = posts[m][j]
          /\ \A q \in Sl : q # m => posts'[q] = posts[q]
      <4>1. posts'[m][k] \in 1..2
        BY <1>0, <3>2, <3>3, PostedType
      <4> QED BY <1>0, <3>2, <3>3, <4>1, PostedType
    <3>5. ASSUME NEW i \in 1..Parts
          PROVE  /\ i <= sl'.done[m] \/ box'[m] = "gone" => posts'[m][i] > 0
                 /\ \A j \in 1..i : posts'[m][i] > 0 => posts'[m][j] > 0
      <4>1. i <= sl'.done[m] => posts'[m][i] > 0
        BY <2>1, <3>4 DEF SlPosts
      <4>2. ASSUME NEW j \in 1..i, posts'[m][i] > 0 PROVE posts'[m][j] > 0
        <5>0. j \in 1..Parts
          BY <1>0
        <5>1. CASE i = k
          <6>1. j = k \/ j <= sl.done[m]
            BY <3>2, <5>1
          <6> QED BY <3>4, <5>0, <6>1 DEF SlPosts
        <5>2. CASE i # k
          <6>1. posts[m][j] > 0
            BY <3>4, <4>2, <5>2 DEF SlPosts
          <6> QED BY <3>4, <5>0, <6>1
        <5> QED BY <5>1, <5>2
      <4> QED BY <2>1, <4>1, <4>2
    <3>6. ASSUME NEW q \in Sl, q # m, NEW i \in 1..Parts
          PROVE  /\ i <= sl'.done[q] \/ box'[q] = "gone" => posts'[q][i] > 0
                 /\ \A j \in 1..i : posts'[q][i] > 0 => posts'[q][j] > 0
                 /\ q \notin unsure => /\ posts'[q][i] <= 1
                                       /\ posts'[q][i] > 0 => i <= sl'.done[q] \/ box'[q] = "gone"
      <4>1. posts'[q] = posts[q] /\ sl'.done[q] = sl.done[q] /\ box'[q] = box[q]
        BY <2>1, <3>4, <3>6
      <4> QED BY <4>1 DEF SlPosts
    <3>7. \A q \in Sl : sl'.done[q] # Parts
      BY <2>1, <3>1
    <3> QED BY <2>1, <2>3, <3>5, <3>6, <3>7 DEF SlPosts
  <2> QED BY <1>6, <2>2, <2>3 DEF PostSlFails, Lost
<1>7. CASE LearnDm \/ EnqueueSl \/ EnqueueSlFails \/ \E m \in Sl : Envelope(m)
  <2>1. /\ UNCHANGED <<box, posts, unsure>> /\ sl'.done = sl.done /\ sl'.pc = sl.pc /\ sl'.todo = sl.todo
    BY <1>0, <1>7 DEF LearnDm, EnqueueSl, EnqueueSlFails, Envelope, SlOK, SlType
  <2> QED BY <2>1 DEF SlPosts
<1>8. CASE SuperviseSl
  <2>1. /\ UNCHANGED <<box, posts, unsure>> /\ sl'.done = sl.done /\ sl.pc = "idle" /\ sl'.pc = "idle"
    BY <1>0, <1>8 DEF SuperviseSl, SlUp, SlOK
  <2> QED BY <1>1, <2>1
<1>9. CASE DieSl
  <2>1. /\ UNCHANGED <<box, posts>> /\ sl'.pc = "idle" /\ (\A q \in Sl : sl'.done[q] = 0)
        /\ unsure \subseteq unsure' /\ \A q \in Sl : q \notin unsure' => ~ (sl.done[q] > 0)
    BY <1>0, <1>9 DEF DieSl, SlUp
  <2>2. \A q \in Sl : sl'.done[q] # Parts
    BY <1>0, <2>1
  <2>3. \A q \in Sl : \A i \in 1..Parts : ~ (i <= sl'.done[q])
    BY <1>0, <2>1
  <2>4. ASSUME NEW q \in Sl, q \notin unsure', NEW i \in 1..Parts
        PROVE  posts[q][i] <= 1 /\ (posts[q][i] > 0 => box[q] = "gone")
    <3>1. q \notin unsure /\ ~ (i <= sl.done[q])
      BY <1>0, <2>1, <2>4
    <3> QED BY <3>1 DEF SlPosts
  <2> QED BY <2>1, <2>2, <2>3, <2>4 DEF SlPosts
<1>10. CASE SlKept
  <2>1. /\ UNCHANGED sl /\ unsure \subseteq unsure'
        /\ \A q \in Sl : /\ posts'[q] = posts[q] /\ (box'[q] = "gone" <=> box[q] = "gone")
                         /\ box[q] = "full" => box'[q] = "full"
    BY <1>10 DEF SlKept
  <2> QED BY <2>1 DEF SlPosts
<1> QED BY <1>2, <1>3, <1>4, <1>5, <1>6, <1>7, <1>8, <1>9, <1>10 DEF SlTurn, SlSteps

-----------------------------------------------------------------------------
(* The records, and the theorems.                                          *)

LEMMA JobsGrow ==
    ASSUME TypeOK, BatchOK, Next
    PROVE  \A m \in Msg : jobs[m] > 0 => jobs'[m] > 0
<1>0. JobsOK /\ TgOK /\ SlOK /\ Sl \subseteq Msg /\ Tg \subseteq Msg /\ jobs \in [Msg -> 0..2]
  BY TypeParts, Messages DEF JobsOK
<1>1. ASSUME NEW h \in Msg, Queued(h) PROVE \A m \in Msg : jobs[m] > 0 => jobs'[m] > 0
  <2>1. jobs'[h] \in 1..2 /\ \A m \in Msg : m # h => jobs'[m] = jobs[m]
    BY <1>0, <1>1, QueuedType
  <2>2. jobs'[h] > 0
    BY <2>1
  <2> QED BY <2>1, <2>2
<1>2. CASE Enqueue
  <2>1. Head(tg.batch) \in Msg
    BY <1>0, <1>2, BatchIs DEF Enqueue, BatchOK, TgOK, TgType
  <2> QED BY <1>1, <1>2, <2>1 DEF Enqueue
<1>3. CASE EnqueueSl
  <2>1. Head(sl.pending) \in Msg
    BY <1>0, <1>3, BatchIs DEF EnqueueSl, SlOK, SlType
  <2> QED BY <1>1, <1>3, <2>1 DEF EnqueueSl
<1>4. CASE ~ Enqueue /\ ~ EnqueueSl
  <2> USE <1>4 DEF inVars
  <2>1. TgTurn => UNCHANGED jobs
    BY DEF TgTurn, TgSteps, Poll, OpenOffset, SaveOffset, FlushTg, FlushTgNext, RemoveTg, SendTg, SendTgFails,
           HandlingFails, Supervise, SenderStops, DieTg
  <2>2. SlTurn => UNCHANGED jobs
    BY DEF SlTurn, SlSteps, FlushSl, FlushSlNext, RemoveSl, PostSl, PostSlFails, LearnDm, EnqueueSlFails, Envelope, SuperviseSl, DieSl
  <2>3. KernelTurn => UNCHANGED jobs
    BY DEF KernelTurn, ReplyWritten, Reply, Handover, DieKernel, PidFreed
  <2> QED BY <2>1, <2>2, <2>3, Turns
<1> QED BY <1>2, <1>3, <1>4

LEMMA BoxStep ==
    ASSUME TypeOK, BatchOK, TgPosts, SlPosts, BoxOK, Next
    PROVE  BoxOK'
<1>0. /\ FilesOK /\ SlOK /\ Sl \subseteq Msg /\ Tg \subseteq Msg /\ 0 \notin Msg
      /\ box \in [Msg -> {"none", "empty", "full", "gone"}]
      /\ \A m \in Msg : jobs[m] > 0 => jobs'[m] > 0
  BY TypeParts, JobsGrow, Messages DEF FilesOK
<1> USE DEF outVars
<1>1. ASSUME UNCHANGED <<box, kernel>> PROVE BoxOK'
  BY <1>0, <1>1 DEF BoxOK, FilesOK
<1>2. ASSUME NEW x \in Msg, box[x] = "full", UNCHANGED kernel, box' = [box EXCEPT ![x] = "gone"]
      PROVE  BoxOK'
  <2>1. box'[x] = "gone" /\ (\A q \in Msg : q # x => box'[q] = box[q]) /\ jobs[x] > 0
    BY <1>0, <1>2 DEF BoxOK
  <2>2. \A q \in Msg : box'[q] # "none" => jobs'[q] > 0
    BY <1>0, <2>1 DEF BoxOK
  <2>3. kernel # 0 => kernel \in Msg /\ kernel # x
    BY <1>0, <1>2 DEF BoxOK, FilesOK
  <2> QED BY <1>2, <2>1, <2>2, <2>3 DEF BoxOK
<1>3. CASE RemoveTg
  <2>1. Min(tg.todo) \in Msg /\ box[Min(tg.todo)] = "full"
    BY <1>0, <1>3 DEF RemoveTg, TgPosts
  <2> QED BY <1>2, <1>3, <2>1 DEF RemoveTg
<1>4. CASE RemoveSl
  <2>1. Min(sl.todo) \in Msg /\ box[Min(sl.todo)] = "full"
    BY <1>0, <1>4 DEF RemoveSl, SlPosts
  <2> QED BY <1>2, <1>4, <2>1 DEF RemoveSl
<1>5. CASE FlushSlNext
  <2> DEFINE m == Min(sl.todo)
  <2>1. m \in Msg
    BY <1>0, <1>5, MinIsLeast, Messages DEF FlushSlNext, SlOK, SlType
  <2>2. box' = [box EXCEPT ![m] = IF box[m] = "full" THEN "gone" ELSE box[m]] /\ UNCHANGED kernel
    BY <1>5 DEF FlushSlNext
  <2> HIDE DEF m
  <2>3. CASE box[m] = "full"
    BY <1>2, <2>1, <2>2, <2>3
  <2>4. CASE box[m] # "full"
    <3>1. UNCHANGED box
      BY <1>0, <2>1, <2>2, <2>4
    <3> QED BY <1>1, <2>2, <3>1
  <2> QED BY <2>3, <2>4
<1>6. ASSUME NEW m \in Msg, Reply(m) PROVE BoxOK'
  <2>1. /\ kernel' = m /\ box'[m] = "empty" /\ jobs[m] > 0 /\ \A q \in Msg : q # m => box'[q] = box[q]
    BY <1>0, <1>6 DEF Reply
  <2> QED BY <1>0, <2>1 DEF BoxOK
<1>7. CASE ReplyWritten
  <2>1. kernel \in Msg /\ kernel' = 0 /\ box[kernel] = "empty" /\ box' = [box EXCEPT ![kernel] = "full"]
    BY <1>0, <1>7 DEF ReplyWritten, FilesOK, BoxOK
  <2>2. \A q \in Msg : box'[q] # "none" => box[q] # "none"
    BY <1>0, <2>1
  <2> QED BY <1>0, <2>1, <2>2 DEF BoxOK
<1>8. CASE DieKernel
  BY <1>0, <1>8 DEF DieKernel, BoxOK
<1>9. CASE TgTurn
  <2>1. ~ RemoveTg => UNCHANGED <<box, kernel>>
    BY <1>9 DEF TgTurn, TgSteps, Poll, OpenOffset, SaveOffset, Enqueue, FlushTg, FlushTgNext, SendTg, SendTgFails,
           HandlingFails, Supervise, SenderStops, DieTg
  <2> QED BY <1>1, <1>3, <2>1
<1>10. CASE SlTurn
  <2>1. ~ FlushSlNext /\ ~ RemoveSl => UNCHANGED <<box, kernel>>
    BY <1>10 DEF SlTurn, SlSteps, FlushSl, PostSl, PostSlFails, LearnDm, EnqueueSl, EnqueueSlFails, Envelope,
           SuperviseSl, DieSl
  <2> QED BY <1>1, <1>4, <1>5, <2>1
<1>11. CASE Handover \/ PidFreed
  BY <1>1, <1>11 DEF Handover, PidFreed
<1> QED BY <1>6, <1>7, <1>8, <1>9, <1>10, <1>11, Turns DEF KernelTurn

LEMMA InvInit == Init => BridgeInv
<1> SUFFICES ASSUME Init PROVE BridgeInv
  OBVIOUS
<1>1. TypeOK
  BY TypeInit
<1>2. /\ tg.batch = <<>> /\ tg.pc = "idle" /\ ~sl.up /\ sl.pc = "idle" /\ sl.pending = <<>>
      /\ \A m \in Sl : sl.done[m] = 0
  BY DEF Init, TgOff, SlUp
<1>3. /\ \A m \in Msg : jobs[m] = 0 /\ box[m] = "none"
      /\ \A m \in Msg : \A i \in PartsOf(m) : posts[m][i] = 0
  BY DEF Init
<1>4. offset = 0 /\ arrived = NS /\ confirmed = NS /\ kernel = 0 /\ offset # Torn
  BY CountAssumption DEF Init
<1>5. BatchOK /\ OffsetOK
  BY <1>2, <1>4, Messages DEF BatchOK, OffsetOK
<1>6. ASSUME NEW m \in Tg PROVE ~ (m <= confirmed) /\ ~ (m <= offset)
  <2>1. m \in Nat /\ NS \in Nat /\ NS < m
    BY Messages
  <2> QED BY <1>4, <2>1
<1>7. BehindOK /\ TgNoneSkipped /\ SlNoneSkipped
  BY <1>2, <1>6 DEF Init, BehindOK, TgNoneSkipped, SlNoneSkipped
<1>8. OnceTg
  BY <1>2, <1>3, <1>4, Messages DEF OnceTg
<1>9. OnceSl /\ DmOK /\ BoxOK
  BY <1>2, <1>3, <1>4, Messages DEF OnceSl, DmOK, BoxOK
<1>10. TgPosts
  BY <1>2, <1>3, Messages, PartsAre DEF TgPosts
<1>11. SlPosts
  <2>1. ASSUME NEW m \in Sl, NEW i \in 1..Parts PROVE posts[m][i] = 0 /\ box[m] = "none" /\ ~ (i <= sl.done[m])
    BY <1>2, <1>3, Messages, PartsAre
  <2>2. \A m \in Sl : sl.done[m] # Parts
    BY <1>2, Messages
  <2>3. \A m \in Sl : \A i \in 1..Parts : \A j \in 1..i : ~ (posts[m][i] > 0)
    BY <2>1
  <2>4. \A m \in Sl : \A i \in 1..Parts : posts[m][i] <= 1 /\ ~ (posts[m][i] > 0)
    BY <2>1
  <2> QED BY <1>2, <2>1, <2>2, <2>3, <2>4 DEF SlPosts
<1> QED BY <1>1, <1>5, <1>7, <1>8, <1>9, <1>10, <1>11 DEF BridgeInv

LEMMA InvStep == BridgeInv /\ [Next]_vars => BridgeInv'
<1> SUFFICES ASSUME BridgeInv, [Next]_vars PROVE BridgeInv'
  OBVIOUS
<1>0. /\ TypeOK /\ BatchOK /\ OffsetOK /\ BehindOK /\ TgNoneSkipped /\ OnceTg /\ OnceSl /\ DmOK /\ BoxOK
      /\ TgPosts /\ SlPosts /\ SlNoneSkipped
  BY DEF BridgeInv
<1>1. TypeOK'
  BY <1>0, TypeStep
<1>2. CASE UNCHANGED vars
  <2>1. TgKept /\ SlKept /\ UNCHANGED <<box, kernel, jobs>>
    BY <1>2 DEF vars, inVars, outVars, worldVars, TgKept, SlKept
  <2>2. BoxOK'
    BY <1>0, <2>1 DEF BoxOK
  <2> QED BY <1>0, <1>1, <2>1, <2>2, BatchStep, BehindStep, OnceTgStep, OnceSlStep, SlSkipsNone, TgPostsStep, SlPostsStep
      DEF BridgeInv
<1>3. CASE Next
  <2>1. (TgTurn \/ TgKept) /\ (SlTurn \/ SlKept)
    BY <1>0, <1>3, Turns, TgKeepsSl, SlKeepsTg, KernelKeeps
  <2> QED BY <1>0, <1>1, <1>3, <2>1, BatchStep, BehindStep, OnceTgStep, OnceSlStep, SlSkipsNone, TgPostsStep, SlPostsStep,
             BoxStep
      DEF BridgeInv
<1> QED BY <1>2, <1>3

LEMMA BridgeCorrect == Spec => []BridgeInv
<1>1. Init => BridgeInv
  BY InvInit
<1>2. BridgeInv /\ [Next]_vars => BridgeInv'
  BY InvStep
<1> QED BY <1>1, <1>2, PTL DEF Spec

LEMMA OneJob ==
    ASSUME BridgeInv
    PROVE  OneJobEach
<1>0. JobsOK /\ OnceTg /\ OnceSl /\ \A m \in Msg : jobs[m] \in 0..2
  BY TypeParts DEF BridgeInv, JobsOK
<1>1. ASSUME NEW m \in Tg, jobs[m] > 1 PROVE tornOffset
  <2>1. jobs[m] > 0 /\ jobs[m] # 1
    BY <1>0, <1>1, Messages
  <2> QED BY <1>0, <2>1 DEF OnceTg
<1>2. ASSUME NEW m \in Sl, jobs[m] > 1 PROVE m \in cut
  <2>1. ~ (jobs[m] <= 1)
    BY <1>0, <1>2, Messages
  <2> QED BY <1>0, <2>1 DEF OnceSl
<1> QED BY <1>1, <1>2, Messages DEF OneJobEach

\* Each message becomes one job, however often it is delivered: none becomes two but
\* by a death or a failed write of the offset, none is left out but by a death in hand
\* or its own failed enqueue (handleUpdates, setOffset, onEnvelope).
THEOREM OneJobForEachMessage == Spec => []Inv
<1>1. BridgeInv => Inv
  BY OneJob DEF BridgeInv, Inv
<1> QED BY <1>1, BridgeCorrect, PTL

\* A reply leaves the outbox only when all of it was posted, and a part is posted
\* twice only when nobody could know that it was (flushOutbox of both bridges).
THEOREM RepliesArePostedInFull == Spec => []PostedInFull
<1>1. BridgeInv => PostedInFull
  <2> SUFFICES ASSUME BridgeInv PROVE PostedInFull
    OBVIOUS
  <2>0. TgPosts /\ SlPosts /\ PostsOK /\ Msg = Sl \cup Tg /\ Parts \in Nat \ {0}
    BY TypeParts, Messages DEF BridgeInv
  <2>1. ASSUME NEW m \in Tg, NEW i \in PartsOf(m)
        PROVE  (box[m] = "gone" => posts[m][i] > 0) /\ (m \notin unsure => posts[m][i] < 2)
    <3>1. i = 1 /\ posts[m][1] \in 0..2
      BY <2>0, PartsAre DEF PostsOK
    <3>2. box[m] = "gone" => posts[m][1] > 0
      BY <2>0 DEF TgPosts
    <3>3. m \notin unsure => (posts[m][1] > 0 => posts[m][1] = 1)
      BY <2>0 DEF TgPosts
    <3> QED BY <3>1, <3>2, <3>3
  <2>2. ASSUME NEW m \in Sl, NEW i \in 1..Parts
        PROVE  (box[m] = "gone" => posts[m][i] > 0) /\ (m \notin unsure => posts[m][i] < 2)
    <3>1. posts[m][i] \in 0..2
      BY <2>0, PartsAre DEF PostsOK
    <3>2. m \notin unsure => posts[m][i] <= 1
      BY <2>0 DEF SlPosts
    <3>3. box[m] = "gone" => posts[m][i] > 0
      BY <2>0 DEF SlPosts
    <3> QED BY <3>1, <3>2, <3>3
  <2>3. ASSUME NEW m \in Sl, NEW i \in 1..Parts - 1, posts[m][i + 1] > 0 PROVE posts[m][i] > 0
    <3>1. i + 1 \in 1..Parts /\ i \in 1..i + 1
      BY <2>0
    <3> QED BY <2>0, <2>3, <3>1 DEF SlPosts
  <2>4. ASSUME NEW m \in Msg, NEW i \in PartsOf(m)
        PROVE  (box[m] = "gone" => posts[m][i] > 0) /\ (m \notin unsure => posts[m][i] < 2)
    <3>1. CASE m \in Tg
      BY <2>1, <3>1
    <3>2. CASE m \in Sl
      BY <2>2, <3>2, PartsAre
    <3> QED BY <2>0, <3>1, <3>2
  <2> QED BY <2>3, <2>4 DEF PostedInFull
<1> QED BY <1>1, BridgeCorrect, PTL

-----------------------------------------------------------------------------
(* The connections.                                                        *)

\* What a command, or the renewal's child, may still have to do.
SignEdits == {<<"sign", "keep">>, <<"keep">>}
AppEdits ==
    {<<"drop", "strip", "forget">>, <<"strip", "forget">>, <<"forget">>}
    \cup {<<"strip", "forget", k>> : k \in {"bare", "paste", "move"}}
    \cup {<<"forget", k>> : k \in {"bare", "paste", "move"}}
    \cup {<<k>> : k \in {"bare", "paste", "move"}}

ProcType ==
    [conn : SUBSET Conn, grant : {0} \cup Grant, key : {0} \cup Grant,
     todo : {<<>>} \cup SignEdits \cup AppEdits, at : {"read", "truncate", "write"},
     seen : {<<>>} \cup DocType \cup StoreType]

\* A process in the middle of its edits: a grant in its hand means a sign-in, and the
\* file it has read is the one it is to write.
BusyOK(q) ==
    /\ \E c \in Conn : q.conn = {c}
    /\ \/ q.grant \in Grant /\ q.key \in {0, q.grant} /\ q.todo \in SignEdits
       \/ q.grant = 0 /\ q.key = 0 /\ q.todo \in AppEdits
    /\ \/ q.at = "read" /\ q.seen = <<>>
       \/ q.at \in {"truncate", "write"} /\ q.seen \in IF OfStore(q) THEN StoreType ELSE DocType

ProcOK ==
    /\ proc \in [Proc -> ProcType]
    /\ \A p \in Proc : proc[p] = Idle \/ BusyOK(proc[p])
    /\ \A p \in Cli : p > calls => proc[p] = Idle
    /\ \A p \in Cli : proc[p].key = proc[p].grant
    /\ proc[Renewal] # Idle => proc[Renewal].grant > 0

RefOK ==
    /\ ref \in [pc : {"idle", "renew"}, keys : [Conn -> {0} \cup Grant], todo : SUBSET Conn]
    /\ ref.pc = "idle" => ref = RefIdle /\ proc[Renewal] = Idle
    /\ \A c \in ref.todo : ref.keys[c] > 0

Types == ConnTypeOK /\ ProcOK /\ RefOK

\* A file that is being written is torn, and one process writes it.
Writing(p) == proc[p].at = "write"
WholeFiles ==
    /\ \A p \in Proc : Writing(p) => File(proc[p]) = TornFile
    /\ \A p, q \in Proc : Writing(p) /\ Writing(q) /\ OfStore(proc[p]) = OfStore(proc[q]) => p = q

\* What the files say, or said before the write under way.
Docs == ({doc} \ {TornFile}) \cup {proc[p].seen : p \in {r \in Proc : Writing(r) /\ ~OfStore(proc[r])}}
Stores == ({store} \ {TornFile}) \cup {proc[p].seen : p \in {r \in Proc : Writing(r) /\ OfStore(proc[r])}}

Does(p, edit) == proc[p].todo # <<>> /\ Head(proc[p].todo) = edit
Has(p, c) == c \in proc[p].conn

\* One process has a connection in hand, and what is in hands is no older than what
\* the provider has issued, and not used up.
HandsOK(c) ==
    /\ \A p, q \in Proc : Has(p, c) /\ Has(q, c) => p = q
    /\ c \in ref.todo => \A p \in Proc : ~Has(p, c)
    /\ Renewing(c) => c \notin wiped
    /\ spent[c] \subseteq 1..issued[c] /\ (c \notin Rotating => spent[c] = {})
    /\ \A p \in Proc : Has(p, c) => proc[p].grant <= issued[c]
    /\ Has(Renewal, c) => proc[Renewal].key = (IF c \in Rotating THEN proc[Renewal].grant ELSE 0)
    /\ c \in ref.todo => ref.keys[c] <= issued[c]
    /\ c \notin lost => \A p \in Proc : Has(p, c) => proc[p].key \notin spent[c]

\* An entry and a record of a connection are as the last command left them.
WordOK(c, d, s) ==
    /\ \/ d.kind = asked[c]
       \/ d.kind = "signed" /\ (asked[c] = "bare" \/ (asked[c] = "pasted" /\ c \notin wiped))
    /\ c \in wiped => s.key = 0
    /\ Renewing(c) => d.kind \in {"bare", "signed", "pasted"}
    /\ \A p \in Proc : Has(p, c) /\ Does(p, "forget") => d.kind \notin {"signed", "pasted"}

\* They are of one sign-in.
PairOK(c, d, s) ==
    /\ s.key <= issued[c]
    /\ c \in ref.todo => s.key = ref.keys[c]
    /\ \A p \in Proc : Has(p, c) /\ Does(p, "keep") => d = Entry("signed", proc[p].grant)
    /\ c \notin lost /\ ~Has(Renewal, c) => s.key \notin spent[c]
    /\ c \notin lost /\ (\A p \in Proc : Has(p, c) => ~Does(p, "keep")) /\ d.kind = "signed" => d.grant = s.token

ConnOK(c) == HandsOK(c) /\ \A d \in Docs, s \in Stores : WordOK(c, d[c], s[c]) /\ PairOK(c, d[c], s[c])

AllOK == WholeFiles /\ \A c \in Conn \ crossed : ConnOK(c)

ConnectionsInv == Types /\ (~raced => AllOK)
-----------------------------------------------------------------------------
LEMMA Constants ==
    /\ MaxGrants \in Nat /\ MaxCalls \in Nat /\ MaxFailures \in Nat
    /\ Grant \subseteq Nat /\ 1 \in Grant /\ 0 \notin Grant
    /\ Proc = Cli \cup {Renewal} /\ Renewal \notin Cli /\ Renewal \in Proc /\ Cli \subseteq Nat
BY ConnBounds DEF Grant, Proc, Cli, Renewal

LEMMA GrantsAreNat == {0} \cup Grant \subseteq Nat
BY DEF Grant

\* The lists of edits, one after the other.
LEMMA SignLists ==
    ASSUME NEW t \in SignEdits
    PROVE  /\ t # <<>> /\ Head(t) \in {"sign", "keep"}
           /\ Len(t) = 1 <=> Head(t) = "keep"
           /\ Head(t) = "sign" => Tail(t) \in SignEdits /\ Head(Tail(t)) = "keep"
<1>1. CASE t = <<"sign", "keep">>
  BY <1>1 DEF SignEdits
<1>2. CASE t = <<"keep">>
  BY <1>2 DEF SignEdits
<1> QED BY <1>1, <1>2 DEF SignEdits

NextEdits(t) ==
    /\ t # <<>> /\ Head(t) \in {"drop", "strip", "forget", "bare", "paste", "move"}
    /\ Len(t) # 1 => Tail(t) \in AppEdits
    /\ Head(t) = "drop" => Len(t) # 1 /\ Head(Tail(t)) = "strip"
    /\ Head(t) = "strip" => Len(t) # 1 /\ Head(Tail(t)) = "forget"
    /\ Head(t) = "forget" /\ Len(t) # 1 => Head(Tail(t)) \in {"bare", "paste", "move"}
    /\ Head(t) \in {"bare", "paste", "move"} => Len(t) = 1
    /\ t[Len(t)] # "forget" => <<t[Len(t)]>> \in AppEdits

LEMMA AppLists ==
    ASSUME NEW t \in AppEdits
    PROVE  NextEdits(t)
<1>1. CASE t = <<"drop", "strip", "forget">>
  BY <1>1 DEF AppEdits, NextEdits
<1>2. CASE t = <<"strip", "forget">>
  BY <1>2 DEF AppEdits, NextEdits
<1>3. CASE t = <<"forget">>
  BY <1>3 DEF AppEdits, NextEdits
<1>4. ASSUME NEW k \in {"bare", "paste", "move"}, t = <<"strip", "forget", k>>
      PROVE  NextEdits(t)
  BY <1>4 DEF AppEdits, NextEdits
<1>5. ASSUME NEW k \in {"bare", "paste", "move"}, t = <<"forget", k>>
      PROVE  NextEdits(t)
  BY <1>5 DEF AppEdits, NextEdits
<1>6. ASSUME NEW k \in {"bare", "paste", "move"}, t = <<k>>
      PROVE  NextEdits(t)
  BY <1>6 DEF AppEdits, NextEdits
<1> QED BY <1>1, <1>2, <1>3, <1>4, <1>5, <1>6 DEF AppEdits
-----------------------------------------------------------------------------
(* Types.                                                                      *)

LEMMA IdleType == Idle \in ProcType
BY DEF Idle, ProcType

\* What Onward leaves in a process.
LEMMA OnwardType ==
    ASSUME ProcOK, NEW p \in Proc, BusyOK(proc[p]), Onward(p)
    PROVE  /\ proc' \in [Proc -> ProcType]
           /\ \A r \in Proc \ {p} : proc'[r] = proc[r]
           /\ \/ proc'[p] = Idle /\ Len(proc[p].todo) = 1
              \/ /\ BusyOK(proc'[p]) /\ proc'[p].grant = proc[p].grant /\ proc'[p].key = proc[p].key
                 /\ proc'[p].conn = proc[p].conn /\ proc'[p].at = "read"
                 /\ proc'[p].todo = Tail(proc[p].todo) /\ Len(proc[p].todo) # 1
<1> DEFINE q == proc[p]
           n == [q EXCEPT !.todo = Tail(q.todo), !.at = "read", !.seen = <<>>]
<1>1. proc \in [Proc -> ProcType] /\ q \in ProcType
  BY DEF ProcOK
<1>2. CASE Len(q.todo) = 1
  BY <1>1, <1>2, IdleType DEF Onward
<1>3. CASE Len(q.todo) # 1
  <2>1. proc' = [proc EXCEPT ![p] = n]
    BY <1>3 DEF Onward
  <2>2. /\ q.todo \in SignEdits => Tail(q.todo) \in SignEdits
        /\ q.todo \in AppEdits => Tail(q.todo) \in AppEdits
    BY <1>3, SignLists, AppLists DEF NextEdits
  <2>3. q.todo \in SignEdits \cup AppEdits
    BY DEF BusyOK
  <2>4. /\ n.conn = q.conn /\ n.grant = q.grant /\ n.key = q.key
        /\ n.todo = Tail(q.todo) /\ n.at = "read" /\ n.seen = <<>>
    BY <1>1 DEF ProcType
  <2>5. n \in ProcType
    BY <1>1, <2>2, <2>3 DEF ProcType
  <2>6. BusyOK(n)
    BY <2>2, <2>4 DEF BusyOK
  <2> QED BY <1>1, <1>3, <2>1, <2>4, <2>5, <2>6
<1> QED BY <1>2, <1>3

\* A command starts in a process that was idle.
LEMMA StartTypes ==
    ASSUME Types, NEW c \in Conn, NEW g, NEW todo, Start(c, g, todo),
           \/ g \in Grant /\ todo = <<"sign", "keep">>
           \/ g = 0 /\ todo \in AppEdits,
           issued' \in [Conn -> Grant]
    PROVE  /\ Types' /\ calls' \in Cli /\ proc[calls'] = Idle
           /\ proc'[calls'] = Busy(c, g, g, todo)
           /\ \A r \in Proc \ {calls'} : proc'[r] = proc[r]
<1> DEFINE b == Busy(c, g, g, todo)
<1> USE DEF Types
<1>1. calls \in Nat /\ calls' = calls + 1 /\ calls' \in Cli /\ calls' # Renewal /\ calls' \in Proc
  BY Constants DEF Start, ConnTypeOK, Cli, Renewal
<1>2. proc[calls'] = Idle
  BY <1>1 DEF ProcOK
<1>3. /\ b.conn = {c} /\ b.grant = g /\ b.key = g /\ b.todo = todo /\ b.at = "read" /\ b.seen = <<>>
      /\ b \in ProcType /\ BusyOK(b)
  BY DEF Busy, ProcType, BusyOK, SignEdits
<1>4. proc \in [Proc -> ProcType] /\ proc' = [proc EXCEPT ![calls'] = b]
  BY DEF ProcOK, Start
<1>5. proc' \in [Proc -> ProcType] /\ proc'[calls'] = b /\ \A r \in Proc \ {calls'} : proc'[r] = proc[r]
  BY <1>1, <1>3, <1>4
<1>6. ProcOK'
  <2>1. \A p \in Cli : p > calls' => proc'[p] = Idle
    BY <1>1, <1>5, Constants DEF ProcOK, Proc
  <2>2. \A p \in Cli : proc'[p].key = proc'[p].grant
    BY <1>3, <1>5, Constants DEF ProcOK
  <2>3. proc'[Renewal] # Idle => proc'[Renewal].grant > 0
    BY <1>1, <1>5, Constants DEF ProcOK
  <2> QED BY <1>3, <1>5, <2>1, <2>2, <2>3 DEF ProcOK
<1>7. RefOK'
  BY <1>1, <1>5, Constants DEF RefOK, Start
<1>8. ConnTypeOK'
  <2>1. \A p \in Proc :
          /\ proc'[p].conn \subseteq Conn /\ (proc'[p].conn = {} <=> proc'[p] = Idle)
          /\ proc'[p].at \in {"read", "truncate", "write"} /\ {proc'[p].grant, proc'[p].key} \subseteq {0} \cup Grant
    BY <1>3, <1>5, Constants DEF ConnTypeOK, ProcType, Idle
  <2> QED BY <1>1, <2>1 DEF ConnTypeOK, Start, Cli
<1> QED BY <1>1, <1>2, <1>5, <1>6, <1>7, <1>8

LEMMA ProcParts ==
    ASSUME proc' \in [Proc -> ProcType], \A p \in Proc : proc'[p] = Idle \/ BusyOK(proc'[p])
    PROVE  \A p \in Proc :
              /\ proc'[p].conn \subseteq Conn /\ (proc'[p].conn = {} <=> proc'[p] = Idle)
              /\ proc'[p].at \in {"read", "truncate", "write"}
              /\ {proc'[p].grant, proc'[p].key} \subseteq {0} \cup Grant
<1> SUFFICES ASSUME NEW p \in Proc
             PROVE  /\ proc'[p].conn \subseteq Conn /\ (proc'[p].conn = {} <=> proc'[p] = Idle)
                    /\ proc'[p].at \in {"read", "truncate", "write"}
                    /\ {proc'[p].grant, proc'[p].key} \subseteq {0} \cup Grant
  OBVIOUS
<1>1. proc'[p] \in ProcType
  OBVIOUS
<1>2. Idle.conn = {}
  BY DEF Idle
<1>3. BusyOK(proc'[p]) => proc'[p].conn # {}
  BY DEF BusyOK
<1> QED BY <1>1, <1>2, <1>3 DEF ProcType

\* A step of one process on its way, with what it has in its hands.
LEMMA OneProcess ==
    ASSUME Types, NEW p \in Proc, proc' \in [Proc -> ProcType],
           \A r \in Proc \ {p} : proc'[r] = proc[r],
           \/ proc'[p] = Idle
           \/ /\ proc[p] # Idle /\ BusyOK(proc'[p])
              /\ proc'[p].grant = proc[p].grant /\ proc'[p].key = proc[p].key,
           calls' = calls, ref' = ref
    PROVE  ProcOK' /\ RefOK' /\ \A r \in Proc : proc'[r] = Idle \/ BusyOK(proc'[r])
<1>1. \A r \in Proc : proc'[r] = Idle \/ BusyOK(proc'[r])
  BY DEF Types, ProcOK
<1>2. \A r \in Proc : proc[r] = Idle => proc'[r] = Idle
  OBVIOUS
<1>3. \A r \in Cli : r > calls' => proc'[r] = Idle
  BY <1>2, Constants DEF Types, ProcOK
<1>4. \A r \in Cli : proc'[r].key = proc'[r].grant
  <2> SUFFICES ASSUME NEW r \in Cli PROVE proc'[r].key = proc'[r].grant
    OBVIOUS
  <2>1. CASE proc'[r] = Idle
    BY <2>1 DEF Idle
  <2>2. CASE proc'[r] # Idle
    BY <2>2, Constants DEF Types, ProcOK
  <2> QED BY <2>1, <2>2
<1>5. proc'[Renewal] # Idle => proc'[Renewal].grant > 0
  BY Constants DEF Types, ProcOK
<1>6. ProcOK'
  BY <1>1, <1>3, <1>4, <1>5 DEF ProcOK
<1>7. RefOK'
  BY <1>2, Constants DEF Types, RefOK
<1> QED BY <1>1, <1>6, <1>7

\* What an edit makes of an entry, and of a record.
Entries == {e \in [kind : EntryKind, grant : {0} \cup Grant] : e.kind = "signed" <=> e.grant # 0}
Records == [key : {0} \cup Grant, token : {0} \cup Grant]

LEMMA EditsType ==
    ASSUME NEW q, BusyOK(q), q \in ProcType
    PROVE  /\ q.todo # <<>> /\ Head(q.todo) \in {"sign", "keep", "drop", "strip", "forget", "bare", "paste", "move"}
           /\ ~OfStore(q) => \A e \in Entries : EditDoc(Head(q.todo), e, q.grant) \in Entries
           /\ OfStore(q) => \A s \in Records : Keep(s, q) \in Records
           /\ Kept(0, 0) \in Records
<1>1. q.todo \in SignEdits \cup AppEdits
  BY DEF BusyOK
<1>2. q.todo # <<>> /\ Head(q.todo) \in {"sign", "keep", "drop", "strip", "forget", "bare", "paste", "move"}
  BY <1>1, SignLists, AppLists DEF NextEdits
<1>3. Head(q.todo) \in {"sign", "keep"} => q.grant \in Grant
  BY SignLists, AppLists DEF BusyOK, NextEdits
<1>4. Kept(0, 0) \in Records
  BY DEF Kept, Records
<1>5. ASSUME NEW s \in Records PROVE Keep(s, q) \in Records
  <2>1. Keep(s, q) = [key |-> IF q.key > 0 THEN q.key ELSE s.key, token |-> q.grant]
    BY DEF Keep, Kept
  <2>2. q.key \in {0} \cup Grant /\ q.grant \in {0} \cup Grant /\ s.key \in {0} \cup Grant
    BY DEF ProcType, Records
  <2> QED BY <2>1, <2>2 DEF Records
<1>6. ASSUME ~OfStore(q), NEW e \in Entries
      PROVE  EditDoc(Head(q.todo), e, q.grant) \in Entries
  <2>1. ASSUME NEW k \in EntryKind \ {"signed"} PROVE Entry(k, 0) \in Entries
    BY DEF Entry, Entries
  <2>2. ASSUME NEW g \in Grant PROVE Entry("signed", g) \in Entries
    BY Constants DEF Entry, Entries, EntryKind
  <2>3. Stripped(e) \in Entries
    BY <2>1 DEF Stripped, EntryKind
  <2>4. Head(q.todo) \in {"sign", "drop", "strip", "bare", "paste", "move"}
    BY <1>2, <1>6 DEF OfStore
  <2>5. CASE Head(q.todo) = "sign"
    BY <1>3, <2>2, <2>5 DEF EditDoc
  <2>6. CASE Head(q.todo) = "strip"
    BY <2>3, <2>6 DEF EditDoc
  <2>7. CASE Head(q.todo) \in {"drop", "bare", "paste", "move"}
    BY <2>1, <2>7 DEF EditDoc, EntryKind
  <2> QED BY <2>4, <2>5, <2>6, <2>7
<1> QED BY <1>2, <1>4, <1>5, <1>6

LEMMA FilesTypes ==
    /\ DocType = [Conn -> Entries] /\ StoreType = [Conn -> Records]
    /\ NoDoc \in DocType /\ NoStore \in StoreType
    /\ TornFile \notin DocType /\ TornFile \notin StoreType
<1>1. DocType = [Conn -> Entries] /\ StoreType = [Conn -> Records]
  BY DEF DocType, StoreType, Entries, Records
<1>2. Entry("none", 0) \in Entries /\ Kept(0, 0) \in Records
  BY DEF Entry, Entries, EntryKind, Kept, Records
<1> QED BY <1>1, <1>2, TornIsNoFile DEF NoDoc, NoStore

LEMMA ReadTypes ==
    ASSUME Types, NEW p \in Proc, Read(p)
    PROVE  Types' /\ BusyOK(proc[p]) /\ \A r \in Proc \ {p} : proc'[r] = proc[r]
<1> DEFINE q == proc[p]
           seen == IF File(q) # TornFile THEN File(q) ELSE IF OfStore(q) THEN NoStore ELSE NoDoc
           n == [q EXCEPT !.at = "truncate", !.seen = seen]
<1>1. q # Idle /\ q.todo # <<>> /\ q.at = "read"
  BY DEF Read, Idle
<1>2. BusyOK(q) /\ q \in ProcType /\ proc \in [Proc -> ProcType]
  BY <1>1 DEF Types, ProcOK
<1>3. seen \in IF OfStore(q) THEN StoreType ELSE DocType
  BY FilesTypes DEF Types, ConnTypeOK, File
<1>4. /\ proc' \in [Proc -> ProcType] /\ \A r \in Proc \ {p} : proc'[r] = proc[r]
      /\ \/ proc'[p] = Idle
         \/ proc[p] # Idle /\ BusyOK(proc'[p]) /\ proc'[p].grant = proc[p].grant /\ proc'[p].key = proc[p].key
  <2>1. CASE Onward(p)
    BY <1>1, <1>2, <2>1, OnwardType DEF Types
  <2>2. CASE proc' = [proc EXCEPT ![p].at = "truncate", ![p].seen = seen]
    <3>1. proc' = [proc EXCEPT ![p] = n]
      BY <1>2, <2>2
    <3>2. /\ n.conn = q.conn /\ n.grant = q.grant /\ n.key = q.key /\ n.todo = q.todo
          /\ n.at = "truncate" /\ n.seen = seen
      BY <1>2 DEF ProcType
    <3>3. n \in ProcType
      BY <1>2, <1>3 DEF ProcType
    <3>4. OfStore(n) = OfStore(q)
      BY <3>2 DEF OfStore
    <3>5. BusyOK(n)
      BY <1>2, <1>3, <3>2, <3>4 DEF BusyOK
    <3> QED BY <1>1, <1>2, <3>1, <3>2, <3>3, <3>5
  <2> QED BY <2>1, <2>2 DEF Read
<1>5. ref' = ref /\ calls' = calls
  BY DEF Read
<1>6. ProcOK' /\ RefOK' /\ \A r \in Proc : proc'[r] = Idle \/ BusyOK(proc'[r])
  BY <1>4, <1>5, OneProcess
<1>7. ConnTypeOK'
  BY <1>4, <1>6, ProcParts DEF Read, Types, ConnTypeOK, providers
<1> QED BY <1>2, <1>4, <1>6, <1>7 DEF Types

LEMMA TruncateTypes ==
    ASSUME Types, NEW p \in Proc, Truncate(p)
    PROVE  /\ Types' /\ BusyOK(proc[p]) /\ \A r \in Proc \ {p} : proc'[r] = proc[r]
           /\ proc'[p].conn = proc[p].conn /\ proc'[p].todo = proc[p].todo /\ proc'[p].seen = proc[p].seen
           /\ proc'[p].grant = proc[p].grant /\ proc'[p].key = proc[p].key /\ proc'[p].at = "write"
<1> DEFINE q == proc[p]
           n == [q EXCEPT !.at = "write"]
<1>1. q # Idle /\ q.at = "truncate"
  BY DEF Truncate, Idle
<1>2. BusyOK(q) /\ q \in ProcType /\ proc \in [Proc -> ProcType]
  BY <1>1 DEF Types, ProcOK
<1>3. proc' = [proc EXCEPT ![p] = n]
  BY <1>2 DEF Truncate
<1>4. /\ n.conn = q.conn /\ n.grant = q.grant /\ n.key = q.key /\ n.todo = q.todo
      /\ n.at = "write" /\ n.seen = q.seen
  BY <1>2 DEF ProcType
<1>5. n \in ProcType
  BY <1>2 DEF ProcType
<1>6. OfStore(n) = OfStore(q)
  BY <1>4 DEF OfStore
<1>7. BusyOK(n)
  BY <1>1, <1>2, <1>4, <1>6 DEF BusyOK
<1>8. /\ proc' \in [Proc -> ProcType] /\ \A r \in Proc \ {p} : proc'[r] = proc[r]
      /\ proc'[p] = n
  BY <1>2, <1>3, <1>5
<1>9. ref' = ref /\ calls' = calls
  BY DEF Truncate
<1>10. ProcOK' /\ RefOK' /\ \A r \in Proc : proc'[r] = Idle \/ BusyOK(proc'[r])
  BY <1>1, <1>4, <1>7, <1>8, <1>9, OneProcess
<1>11. ConnTypeOK'
  BY <1>8, <1>10, ProcParts DEF Truncate, OnlyFile, Types, ConnTypeOK, providers
<1> QED BY <1>2, <1>4, <1>8, <1>10, <1>11 DEF Types

\* What a write puts into the file.
NewDoc(q, c) == [q.seen EXCEPT ![c] = EditDoc(Head(q.todo), q.seen[c], q.grant)]
NewStore(q, c) ==
    [q.seen EXCEPT ![c] = IF Head(q.todo) = "keep" THEN Keep(q.seen[c], q) ELSE Kept(0, 0)]

LEMMA WriteTypes ==
    ASSUME Types, NEW p \in Proc, Write(p)
    PROVE  /\ Types' /\ BusyOK(proc[p]) /\ \A r \in Proc \ {p} : proc'[r] = proc[r]
           /\ \A c \in proc[p].conn :
                IF OfStore(proc[p])
                THEN /\ store' = NewStore(proc[p], c) /\ doc' = doc /\ proc[p].seen \in StoreType /\ asked' = asked
                     /\ wiped' = (IF p \notin Cli THEN wiped
                                  ELSE IF Head(proc[p].todo) = "forget" THEN wiped \cup {c} ELSE wiped \ {c})
                ELSE /\ doc' = NewDoc(proc[p], c) /\ store' = store /\ proc[p].seen \in DocType /\ wiped' = wiped
                     /\ asked' = (IF p \in Cli THEN [asked EXCEPT ![c] = doc'[c].kind] ELSE asked)
<1> DEFINE q == proc[p]
<1>1. q # Idle /\ q.at = "write"
  BY DEF Write, Idle
<1>2. BusyOK(q) /\ q \in ProcType /\ proc \in [Proc -> ProcType]
  BY <1>1 DEF Types, ProcOK
<1>3. Onward(p) /\ ref' = ref /\ calls' = calls
  BY DEF Write
<1>4. /\ proc' \in [Proc -> ProcType] /\ \A r \in Proc \ {p} : proc'[r] = proc[r]
      /\ \/ proc'[p] = Idle
         \/ proc[p] # Idle /\ BusyOK(proc'[p]) /\ proc'[p].grant = proc[p].grant /\ proc'[p].key = proc[p].key
  BY <1>1, <1>2, <1>3, OnwardType DEF Types
<1>5. ProcOK' /\ RefOK' /\ \A r \in Proc : proc'[r] = Idle \/ BusyOK(proc'[r])
  BY <1>3, <1>4, OneProcess
<1>6. PICK c \in Conn : q.conn = {c}
  BY <1>2 DEF BusyOK
<1>7. /\ OnlyFile(q, [q.seen EXCEPT ![c] = CASE ~OfStore(q)             -> EditDoc(Head(q.todo), q.seen[c], q.grant)
                                             [] Head(q.todo) = "keep"   -> Keep(q.seen[c], q)
                                             [] Head(q.todo) = "forget" -> Kept(0, 0)])
      /\ asked' = (IF p \in Cli /\ ~OfStore(q) THEN [asked EXCEPT ![c] = doc'[c].kind] ELSE asked)
      /\ wiped' = (IF p \in Cli /\ OfStore(q)
                   THEN IF Head(q.todo) = "forget" THEN wiped \cup {c} ELSE wiped \ {c}
                   ELSE wiped)
  BY <1>6 DEF Write
<1>8. CASE OfStore(q)
  <2>1. Head(q.todo) \in {"keep", "forget"}
    BY <1>8 DEF OfStore
  <2>2. q.seen \in [Conn -> Records]
    BY <1>1, <1>2, <1>8, FilesTypes DEF BusyOK
  <2>3. store' = NewStore(q, c) /\ doc' = doc
    BY <1>7, <1>8, <2>1 DEF OnlyFile, NewStore
  <2>4. NewStore(q, c) \in [Conn -> Records]
    BY <1>2, <1>8, <2>2, EditsType DEF NewStore
  <2>5. asked' = asked /\ wiped' \subseteq Conn
    BY <1>7, <1>8 DEF Types, ConnTypeOK
  <2>6. ConnTypeOK'
    BY <1>4, <1>5, <2>3, <2>4, <2>5, ProcParts, FilesTypes DEF Write, Types, ConnTypeOK, providers
  <2> QED BY <1>2, <1>4, <1>5, <1>6, <1>7, <1>8, <2>2, <2>3, <2>5, <2>6, FilesTypes DEF Types
<1>9. CASE ~OfStore(q)
  <2>2. q.seen \in [Conn -> Entries]
    BY <1>1, <1>2, <1>9, FilesTypes DEF BusyOK
  <2>1. Head(q.todo) \notin {"keep", "forget"}
    BY <1>9 DEF OfStore
  <2>3. doc' = NewDoc(q, c) /\ store' = store
    BY <1>7, <1>9, <2>1 DEF OnlyFile, NewDoc
  <2>4. NewDoc(q, c) \in [Conn -> Entries]
    BY <1>2, <1>9, <2>2, EditsType DEF NewDoc
  <2>5. wiped' = wiped
    BY <1>7, <1>9
  <2>6. asked' \in [Conn -> EntryKind]
    BY <1>7, <2>3, <2>4 DEF Types, ConnTypeOK, Entries
  <2>7. ConnTypeOK'
    BY <1>4, <1>5, <2>3, <2>4, <2>5, <2>6, ProcParts, FilesTypes DEF Write, Types, ConnTypeOK, providers
  <2> QED BY <1>2, <1>4, <1>5, <1>6, <1>7, <1>9, <2>2, <2>3, <2>5, <2>7, FilesTypes DEF Types
<1> QED BY <1>8, <1>9

LEMMA DieTypes ==
    ASSUME Types, NEW p \in Proc, Die(p)
    PROVE  Types' /\ proc'[p] = Idle /\ \A r \in Proc \ {p} : proc'[r] = proc[r]
<1>1. proc \in [Proc -> ProcType] /\ ref \in [pc : {"idle", "renew"}, keys : [Conn -> {0} \cup Grant], todo : SUBSET Conn]
  BY DEF Types, ProcOK, RefOK
<1>2. proc' = [proc EXCEPT ![p] = Idle] /\ calls' = calls /\ ref' = (IF p = Renewal THEN RefIdle ELSE ref)
  BY DEF Die
<1>3. proc' \in [Proc -> ProcType] /\ proc'[p] = Idle /\ \A r \in Proc \ {p} : proc'[r] = proc[r]
  BY <1>1, <1>2, IdleType
<1>4. \A r \in Proc : proc'[r] = Idle \/ (proc'[r] = proc[r] /\ BusyOK(proc'[r]))
  BY <1>3 DEF Types, ProcOK
<1>5. Idle.key = Idle.grant
  BY DEF Idle
<1>6. ProcOK'
  <2>1. \A r \in Cli : r > calls' => proc'[r] = Idle
    BY <1>2, <1>3, Constants DEF Types, ProcOK
  <2>2. \A r \in Cli : proc'[r].key = proc'[r].grant
    BY <1>4, <1>5, Constants DEF Types, ProcOK
  <2>3. proc'[Renewal] # Idle => proc'[Renewal].grant > 0
    BY <1>4, Constants DEF Types, ProcOK
  <2> QED BY <1>3, <1>4, <2>1, <2>2, <2>3 DEF ProcOK
<1>7. RefOK'
  <2>1. CASE p = Renewal
    <3>1. RefIdle.pc = "idle" /\ RefIdle.todo = {} /\ RefIdle.keys \in [Conn -> {0} \cup Grant]
      BY DEF RefIdle
    <3>2. RefIdle \in [pc : {"idle", "renew"}, keys : [Conn -> {0} \cup Grant], todo : SUBSET Conn]
      BY <3>1 DEF RefIdle
    <3>3. ref' = RefIdle /\ proc'[Renewal] = Idle
      BY <1>2, <1>3, <2>1
    <3> QED BY <3>1, <3>2, <3>3 DEF RefOK
  <2>2. CASE p # Renewal
    BY <1>2, <1>3, <2>2, Constants DEF Types, RefOK
  <2> QED BY <2>1, <2>2
<1>8. ref'.pc \in {"idle", "renew"} /\ ref'.todo \subseteq Conn
  BY <1>7 DEF RefOK
<1>9. lost' \subseteq Conn /\ crossed' = crossed /\ wiped' = wiped
  BY <1>1 DEF Die, Types, ConnTypeOK, ProcType
<1>10. failures' \in 0..MaxFailures /\ raced' \in BOOLEAN
  BY Constants DEF Die, Types, ConnTypeOK
<1>11. ConnTypeOK'
  BY <1>2, <1>3, <1>4, <1>8, <1>9, <1>10, ProcParts DEF Die, Types, ConnTypeOK, providers
<1> QED BY <1>3, <1>6, <1>7, <1>11 DEF Types

\* What is left of a command whose forget died.
LastEdit(q) == q.todo[Len(q.todo)]

LEMMA ForgetTypes ==
    ASSUME Types, NEW p \in Cli, ForgetDies(p)
    PROVE  /\ Types' /\ BusyOK(proc[p]) /\ proc[p].grant = 0
           /\ \A r \in Proc \ {p} : proc'[r] = proc[r]
           /\ \/ proc'[p] = Idle
              \/ /\ proc'[p].conn = proc[p].conn /\ proc'[p].key = 0 /\ proc'[p].grant = 0
                 /\ proc'[p].at = "read" /\ ~Does(p, "forget")' /\ ~Does(p, "keep")'
<1> DEFINE q == proc[p]
           n == [q EXCEPT !.todo = <<LastEdit(q)>>, !.at = "read", !.seen = <<>>]
<1>0. p \in Proc
  BY Constants
<1>1. q # Idle /\ q.todo # <<>> /\ Head(q.todo) \in {"strip", "forget"}
  BY DEF ForgetDies, Idle
<1>2. BusyOK(q) /\ q \in ProcType /\ proc \in [Proc -> ProcType]
  BY <1>0, <1>1 DEF Types, ProcOK
<1>3. q.todo \in AppEdits /\ q.grant = 0 /\ q.key = 0
  BY <1>1, <1>2, SignLists DEF BusyOK
<1>4. proc' = [proc EXCEPT ![p] = IF LastEdit(q) = "forget" THEN Idle ELSE n]
  BY DEF ForgetDies, LastEdit
<1>6. /\ n.conn = q.conn /\ n.grant = q.grant /\ n.key = q.key /\ n.todo = <<LastEdit(q)>>
      /\ n.at = "read" /\ n.seen = <<>>
  BY <1>2 DEF ProcType
<1>7. ASSUME LastEdit(q) # "forget"
      PROVE  n.todo \in AppEdits /\ Head(n.todo) \notin {"keep", "forget"} /\ n \in ProcType /\ BusyOK(n)
  <2>1. <<LastEdit(q)>> \in AppEdits
    BY <1>3, <1>7, AppLists DEF NextEdits, LastEdit
  <2>2. Head(<<LastEdit(q)>>) # "keep"
    BY <2>1, AppLists DEF NextEdits
  <2>3. n \in ProcType
    BY <1>2, <2>1 DEF ProcType
  <2>4. BusyOK(n)
    BY <1>2, <1>3, <1>6, <2>1 DEF BusyOK
  <2> QED BY <1>6, <1>7, <2>1, <2>2, <2>3, <2>4
<1>8. /\ proc' \in [Proc -> ProcType] /\ \A r \in Proc \ {p} : proc'[r] = proc[r]
      /\ \/ proc'[p] = Idle
         \/ proc'[p] = n /\ LastEdit(q) # "forget"
  BY <1>0, <1>2, <1>4, <1>7, IdleType
<1>9. ref' = ref /\ calls' = calls
  BY DEF ForgetDies
<1>10. ProcOK' /\ RefOK' /\ \A r \in Proc : proc'[r] = Idle \/ BusyOK(proc'[r])
  BY <1>0, <1>1, <1>6, <1>7, <1>8, <1>9, OneProcess
<1>11. failures' \in 0..MaxFailures /\ raced' \in BOOLEAN
  BY Constants DEF ForgetDies, Types, ConnTypeOK
<1>12. ConnTypeOK'
  BY <1>8, <1>10, <1>11, ProcParts DEF ForgetDies, Types, ConnTypeOK, providers
<1>13. Types'
  BY <1>10, <1>12 DEF Types
<1> QED BY <1>2, <1>3, <1>6, <1>7, <1>8, <1>13 DEF Does

\* The renewal pass begins with what the store says is due, of live connections.
ToRenew == IF store = TornFile \/ doc = TornFile THEN {} ELSE Due(store) \cap Live(doc)

LEMMA PassTypes ==
    ASSUME Types, RefreshBegin
    PROVE  Types' /\ proc' = proc /\ proc[Renewal] = Idle /\ ref.todo = {}
<1>1. Pass(ToRenew)
  BY DEF RefreshBegin, ToRenew
<1>2. proc' = proc /\ calls' = calls /\ ref.pc = "idle" /\ ref = RefIdle /\ proc[Renewal] = Idle
  BY <1>1 DEF Pass, Types, RefOK
<1>3. ref.todo = {}
  BY <1>2 DEF RefIdle
<1>4. /\ ToRenew \subseteq Conn
      /\ \A c \in ToRenew : store[c].key \in Grant
  <2>1. CASE store = TornFile \/ doc = TornFile
    BY <2>1 DEF ToRenew
  <2>2. CASE ~(store = TornFile \/ doc = TornFile)
    <3>1. store \in [Conn -> Records]
      BY <2>2, FilesTypes DEF Types, ConnTypeOK
    <3> QED BY <2>2, <3>1, Constants DEF ToRenew, Due, Live, Records
  <2> QED BY <2>1, <2>2
<1>5. /\ ref'.pc = "renew" /\ ref'.todo = ToRenew
      /\ ref'.keys = [c \in Conn |-> IF c \in ToRenew THEN store[c].key ELSE 0]
      /\ ref' = [pc |-> ref'.pc, todo |-> ref'.todo, keys |-> ref'.keys]
  BY <1>1 DEF Pass
<1>6. RefOK'
  <2>1. ref'.keys \in [Conn -> {0} \cup Grant]
    BY <1>4, <1>5
  <2>2. \A c \in ref'.todo : ref'.keys[c] > 0
    BY <1>4, <1>5, Constants DEF Grant
  <2>3. ref' \in [pc : {"idle", "renew"}, keys : [Conn -> {0} \cup Grant], todo : SUBSET Conn]
    BY <1>4, <1>5, <2>1
  <2> QED BY <1>5, <2>2, <2>3 DEF RefOK
<1>7. ProcOK'
  BY <1>2 DEF Types, ProcOK
<1>8. ConnTypeOK'
  BY <1>1, <1>2, <1>4, <1>5 DEF Pass, Types, ConnTypeOK, providers
<1> QED BY <1>2, <1>3, <1>6, <1>7, <1>8 DEF Types

LEMMA IssuesType ==
    ASSUME Types, NEW c \in Conn, Asks(c), Issues(c)
    PROVE  /\ issued' \in [Conn -> Grant] /\ issued'[c] = issued[c] + 1
           /\ \A x \in Conn \ {c} : issued'[x] = issued[x] /\ spent'[x] = spent[x]
           /\ spent' \in [Conn -> SUBSET Grant]
           /\ spent'[c] = (IF c \in Rotating THEN spent[c] \cup {ref.keys[c]} ELSE spent[c])
           /\ ref.keys[c] \in Grant /\ c \in ref.todo
<1>1. c \in ref.todo /\ ref.keys[c] \in Grant
  BY DEF Asks, Types, RefOK
<1>2. issued[c] \in Grant /\ issued[c] < MaxGrants
  BY DEF Issues, Takes, Types, ConnTypeOK
<1>3. issued[c] + 1 \in Grant
  BY <1>2, Constants DEF Grant
<1> QED BY <1>1, <1>3 DEF Issues, Types, ConnTypeOK

\* A connection is taken off the list.
LEMMA AsksType ==
    ASSUME Types, NEW c \in Conn, Asks(c)
    PROVE  /\ proc[Renewal] = Idle /\ ref.pc = "renew" /\ ref'.pc = ref.pc /\ ref'.keys = ref.keys
           /\ ref'.todo = ref.todo \ {c} /\ c \in ref.todo
           /\ ref' \in [pc : {"idle", "renew"}, keys : [Conn -> {0} \cup Grant], todo : SUBSET Conn]
           /\ \A x \in ref'.todo : ref'.keys[x] > 0
<1>1. ref \in [pc : {"idle", "renew"}, keys : [Conn -> {0} \cup Grant], todo : SUBSET Conn]
  BY DEF Types, RefOK
<1>2. c \in ref.todo /\ ref' = [ref EXCEPT !.todo = ref.todo \ {c}]
  BY DEF Asks
<1>3. ref.pc = "renew"
  <2>1. RefIdle.todo = {}
    BY DEF RefIdle
  <2> QED BY <1>1, <1>2, <2>1 DEF Types, RefOK
<1>4. /\ ref'.pc = ref.pc /\ ref'.keys = ref.keys /\ ref'.todo = ref.todo \ {c}
      /\ ref' \in [pc : {"idle", "renew"}, keys : [Conn -> {0} \cup Grant], todo : SUBSET Conn]
  BY <1>1, <1>2
<1>5. \A x \in ref'.todo : ref'.keys[x] > 0
  BY <1>4 DEF Types, RefOK
<1> QED BY <1>2, <1>3, <1>4, <1>5 DEF Asks

LEMMA RenewTypes ==
    ASSUME Types, NEW c \in Conn, Renew(c)
    PROVE  /\ Types' /\ \A r \in Proc \ {Renewal} : proc'[r] = proc[r]
           /\ proc'[Renewal] = Busy(c, issued[c] + 1, IF c \in Rotating THEN issued[c] + 1 ELSE 0, <<"sign", "keep">>)
<1>1. Asks(c) /\ Issues(c)
  BY DEF Renew
<1> DEFINE g == issued[c] + 1
           b == Busy(c, g, IF c \in Rotating THEN g ELSE 0, <<"sign", "keep">>)
<1>2. issued'[c] = g /\ g \in Grant /\ issued' \in [Conn -> Grant] /\ spent' \in [Conn -> SUBSET Grant]
  <2>1. issued'[c] = issued[c] + 1 /\ issued' \in [Conn -> Grant] /\ spent' \in [Conn -> SUBSET Grant]
    BY <1>1, IssuesType
  <2> QED BY <2>1
<1>3. /\ b.conn = {c} /\ b.grant = g /\ b.key \in {0, g} /\ b.todo = <<"sign", "keep">> /\ b.at = "read" /\ b.seen = <<>>
      /\ b \in ProcType /\ BusyOK(b)
  BY <1>2 DEF Busy, ProcType, BusyOK, SignEdits
<1>4. proc \in [Proc -> ProcType] /\ proc' = [proc EXCEPT ![Renewal] = b] /\ calls' = calls
  BY <1>2 DEF Renew, Types, ProcOK
<1>5. proc' \in [Proc -> ProcType] /\ proc'[Renewal] = b /\ \A r \in Proc \ {Renewal} : proc'[r] = proc[r]
  BY <1>3, <1>4, Constants
<1>6. ProcOK'
  <2>1. \A p \in Cli : proc'[p] = proc[p]
    BY <1>5, Constants
  <2>2. b.grant > 0
    BY <1>2, <1>3, Constants DEF Grant
  <2>3. \A p \in Proc : proc'[p] = Idle \/ BusyOK(proc'[p])
    BY <1>3, <1>5 DEF Types, ProcOK
  <2> QED BY <1>4, <1>5, <2>1, <2>2, <2>3 DEF Types, ProcOK
<1>7. RefOK'
  BY <1>1, AsksType DEF RefOK
<1>8. ConnTypeOK'
  BY <1>1, <1>2, <1>5, <1>6, <1>7, ProcParts, AsksType DEF Renew, Issues, Types, ConnTypeOK, ProcOK, RefOK, history
<1> QED BY <1>5, <1>6, <1>7, <1>8 DEF Types

LEMMA OtherTypes ==
    ASSUME Types,
           \/ RefreshEnd
           \/ \E c \in Conn : RenewFails(c) \/ AnswerLost(c) \/ Lapse(c)
    PROVE  Types' /\ proc' = proc
<1>1. CASE RefreshEnd
  <2>1. /\ RefIdle.pc = "idle" /\ RefIdle.todo = {} /\ RefIdle.keys \in [Conn -> {0} \cup Grant]
        /\ RefIdle \in [pc : {"idle", "renew"}, keys : [Conn -> {0} \cup Grant], todo : SUBSET Conn]
    BY DEF RefIdle
  <2>2. RefOK' /\ ref' = RefIdle
    BY <1>1, <2>1 DEF RefreshEnd, RefOK
  <2>3. ProcOK'
    BY <1>1 DEF RefreshEnd, Types, ProcOK
  <2> QED BY <1>1, <2>1, <2>2, <2>3 DEF RefreshEnd, Types, ConnTypeOK, providers, history
<1>2. ASSUME NEW c \in Conn, RenewFails(c) PROVE Types' /\ proc' = proc
  <2>1. Asks(c) /\ proc' = proc /\ calls' = calls
    BY <1>2 DEF RenewFails
  <2>2. RefOK'
    BY <2>1, AsksType DEF RefOK
  <2>3. ProcOK'
    BY <2>1 DEF Types, ProcOK
  <2>4. failures' \in 0..MaxFailures
    BY <1>2, Constants DEF RenewFails, Types, ConnTypeOK
  <2> QED BY <1>2, <2>1, <2>2, <2>3, <2>4, AsksType DEF RenewFails, Types, ConnTypeOK, providers, history, RefOK
<1>3. ASSUME NEW c \in Conn, AnswerLost(c) PROVE Types' /\ proc' = proc
  <2>1. Asks(c) /\ Issues(c) /\ proc' = proc /\ calls' = calls
    BY <1>3 DEF AnswerLost
  <2>2. RefOK'
    BY <2>1, AsksType DEF RefOK
  <2>3. ProcOK'
    BY <2>1 DEF Types, ProcOK
  <2>4. failures' \in 0..MaxFailures
    BY <1>3, Constants DEF AnswerLost, Types, ConnTypeOK
  <2>5. issued' \in [Conn -> Grant] /\ spent' \in [Conn -> SUBSET Grant] /\ lapsed' = lapsed
    BY <2>1, IssuesType DEF Issues
  <2> QED BY <1>3, <2>1, <2>2, <2>3, <2>4, <2>5, AsksType DEF AnswerLost, Types, ConnTypeOK, RefOK
<1>4. ASSUME NEW c \in Conn, Lapse(c) PROVE Types' /\ proc' = proc
  <2>1. lapsed' \in [Conn -> SUBSET Grant]
    <3>1. 1..issued[c] \subseteq Grant
      BY Constants DEF Types, ConnTypeOK, Grant
    <3> QED BY <1>4, <3>1 DEF Lapse, Types, ConnTypeOK
  <2>2. ProcOK' /\ RefOK'
    BY <1>4 DEF Lapse, Types, ProcOK, RefOK
  <2> QED BY <1>4, <2>1, <2>2 DEF Lapse, Types, ConnTypeOK, history
<1> QED BY <1>1, <1>2, <1>3, <1>4

\* What every action's first edits are.
LEMMA Commands ==
    ASSUME Types, NEW c \in Conn, SignIn(c) \/ Remove(c) \/ Add(c) \/ AddCustom(c)
    PROVE  \E g \in {0} \cup Grant, todo \in SignEdits \cup AppEdits :
              /\ Start(c, g, todo)
              /\ \/ /\ g \in Grant /\ todo = <<"sign", "keep">> /\ g = issued[c] + 1
                    /\ issued' = [issued EXCEPT ![c] = g]
                 \/ g = 0 /\ todo \in AppEdits /\ Head(todo) # "forget" /\ issued' = issued
<1>1. CASE SignIn(c)
  <2>1. issued[c] \in Grant /\ issued[c] < MaxGrants /\ issued' = [issued EXCEPT ![c] = issued[c] + 1]
    BY <1>1 DEF SignIn, Types, ConnTypeOK
  <2>2. issued[c] + 1 \in Grant /\ issued'[c] = issued[c] + 1
    BY <2>1, Constants DEF Grant, Types, ConnTypeOK
  <2>3. Start(c, issued[c] + 1, <<"sign", "keep">>)
    BY <1>1, <2>2 DEF SignIn
  <2>4. <<"sign", "keep">> \in SignEdits
    BY DEF SignEdits
  <2> QED BY <2>1, <2>2, <2>3, <2>4
<1>2. CASE Remove(c)
  <2>1. <<"drop", "strip", "forget">> \in AppEdits /\ Head(<<"drop", "strip", "forget">>) # "forget"
    BY DEF AppEdits
  <2> QED BY <1>2, <2>1 DEF Remove
<1>3. CASE Add(c)
  <2>1. <<"bare">> \in AppEdits /\ Head(<<"bare">>) # "forget"
    BY DEF AppEdits
  <2> QED BY <1>3, <2>1 DEF Add
<1>4. CASE AddCustom(c)
  <2>1. PICK kind \in {"bare", "paste", "move"} : Start(c, 0, <<"strip", "forget", kind>>)
    BY <1>4 DEF AddCustom
  <2>2. <<"strip", "forget", kind>> \in AppEdits /\ Head(<<"strip", "forget", kind>>) # "forget"
    BY DEF AppEdits
  <2> QED BY <1>4, <2>1, <2>2 DEF AddCustom
<1> QED BY <1>1, <1>2, <1>3, <1>4

LEMMA CommandTypes ==
    ASSUME Types, NEW c \in Conn, SignIn(c) \/ Remove(c) \/ Add(c) \/ AddCustom(c)
    PROVE  Types'
<1>1. PICK g \in {0} \cup Grant, todo \in SignEdits \cup AppEdits :
              /\ Start(c, g, todo)
              /\ \/ /\ g \in Grant /\ todo = <<"sign", "keep">> /\ g = issued[c] + 1
                    /\ issued' = [issued EXCEPT ![c] = g]
                 \/ g = 0 /\ todo \in AppEdits /\ Head(todo) # "forget" /\ issued' = issued
  BY Commands
<1>2. issued' \in [Conn -> Grant]
  BY <1>1 DEF Types, ConnTypeOK
<1>3. \/ g \in Grant /\ todo = <<"sign", "keep">>
      \/ g = 0 /\ todo \in AppEdits
  BY <1>1
<1> QED BY <1>1, <1>2, <1>3, StartTypes

LEMMA ConnTypeStep == Types /\ ConnNext => Types'
<1> SUFFICES ASSUME Types, ConnNext PROVE Types'
  OBVIOUS
<1>1. ASSUME NEW c \in Conn, SignIn(c) \/ Remove(c) \/ Add(c) \/ AddCustom(c) PROVE Types'
  BY <1>1, CommandTypes
<1>2. ASSUME NEW p \in Proc, Step(p) PROVE Types'
  BY <1>2, ReadTypes, TruncateTypes, WriteTypes DEF Step
<1>3. ASSUME NEW p \in Proc, Die(p) PROVE Types'
  BY <1>3, DieTypes
<1>4. ASSUME NEW p \in Cli, ForgetDies(p) PROVE Types'
  BY <1>4, ForgetTypes
<1>5. CASE RefreshBegin
  BY <1>5, PassTypes
<1>6. ASSUME NEW c \in Conn, Renew(c) PROVE Types'
  BY <1>6, RenewTypes
<1>7. ASSUME RefreshEnd \/ \E c \in Conn : RenewFails(c) \/ AnswerLost(c) \/ Lapse(c) PROVE Types'
  BY <1>7, OtherTypes
<1> QED BY <1>1, <1>2, <1>3, <1>4, <1>5, <1>6, <1>7 DEF ConnNext, Refresh
-----------------------------------------------------------------------------
(* Until two writes cross, an edit is as good as atomic: the files say, or said  *)
(* before the write under way, what they said, until a write puts in one edit.   *)

LEMMA ContentTypes == Types => Docs \subseteq DocType /\ Stores \subseteq StoreType
<1> SUFFICES ASSUME Types PROVE Docs \subseteq DocType /\ Stores \subseteq StoreType
  OBVIOUS
<1>1. ASSUME NEW p \in Proc, Writing(p)
      PROVE  proc[p].seen \in IF OfStore(proc[p]) THEN StoreType ELSE DocType
  BY <1>1 DEF Types, ProcOK, BusyOK, Writing, Idle
<1> QED BY <1>1 DEF Docs, Stores, Types, ConnTypeOK

LEMMA SameWriters ==
    ASSUME WholeFiles, doc' = doc, store' = store,
           \A r \in Proc : Writing(r)' => Writing(r) /\ proc'[r] = proc[r]
    PROVE  WholeFiles' /\ Docs' \subseteq Docs /\ Stores' \subseteq Stores
<1>1. \A r \in Proc : Writing(r)' => File(proc'[r]) = File(proc[r]) /\ OfStore(proc'[r]) = OfStore(proc[r])
  OBVIOUS
<1>2. WholeFiles'
  <2>1. \A p \in Proc : Writing(p)' => (File(proc[p]) = TornFile)'
    BY <1>1 DEF WholeFiles, File
  <2>2. \A p, q \in Proc : Writing(p)' /\ Writing(q)' /\ (OfStore(proc[p]) = OfStore(proc[q]))' => p = q
    BY <1>1 DEF WholeFiles
  <2> QED BY <2>1, <2>2 DEF WholeFiles
<1>3. Docs' \subseteq Docs
  BY DEF Docs
<1>4. Stores' \subseteq Stores
  BY DEF Stores
<1> QED BY <1>2, <1>3, <1>4

\* A file that is not torn is what it says.
LEMMA WholeDoc == WholeFiles /\ doc # TornFile => Docs = {doc}
BY DEF WholeFiles, Docs, File

LEMMA WholeStore == WholeFiles /\ store # TornFile => Stores = {store}
BY DEF WholeFiles, Stores, File

LEMMA TruncateFiles ==
    ASSUME Types, WholeFiles, NEW p \in Proc, Truncate(p), ~raced'
    PROVE  WholeFiles' /\ Docs' \subseteq Docs /\ Stores' \subseteq Stores
<1> DEFINE q == proc[p]
<1>1. BusyOK(q) /\ q.at = "truncate"
  BY TruncateTypes DEF Truncate
<1>2. File(q) = q.seen /\ q.seen # TornFile
  BY <1>1, FilesTypes DEF Truncate, BusyOK
<1>3. /\ \A r \in Proc \ {p} : proc'[r] = proc[r]
      /\ proc'[p].todo = q.todo /\ proc'[p].seen = q.seen /\ proc'[p].at = "write"
  BY TruncateTypes
<1>4. OfStore(proc'[p]) = OfStore(q)
  BY <1>3 DEF OfStore
<1>5. \A r \in Proc : Writing(r) => OfStore(proc[r]) # OfStore(q)
  BY <1>2 DEF WholeFiles, File
<1>6. \A r \in Proc : OfStore(proc[r]) \in BOOLEAN
  BY DEF OfStore
<1>7. CASE OfStore(q)
  <2>1. store' = TornFile /\ doc' = doc /\ store = q.seen
    BY <1>2, <1>7 DEF Truncate, OnlyFile, File
  <2>2. \A r \in Proc \ {p} : Writing(r)' => Writing(r) /\ ~OfStore(proc[r]) /\ doc = TornFile
    BY <1>3, <1>5, <1>6, <1>7 DEF Writing, WholeFiles, File
  <2>3. \A r \in Proc : Writing(r)' => (File(proc[r]) = TornFile)'
    BY <1>3, <1>4, <1>7, <2>1, <2>2 DEF File
  <2>4. \A r, t \in Proc : Writing(r)' /\ Writing(t)' /\ (OfStore(proc[r]) = OfStore(proc[t]))' => r = t
    BY <1>3, <1>4, <1>7, <2>2 DEF WholeFiles
  <2>5. WholeFiles'
    BY <2>3, <2>4 DEF WholeFiles
  <2>6. Docs' \subseteq Docs
    BY <1>3, <1>4, <1>7, <2>1, <2>2 DEF Docs
  <2>7. Stores' \subseteq Stores
    <3>1. store \in Stores
      BY <1>2, <2>1 DEF Stores
    <3> QED BY <1>3, <2>1, <2>2, <3>1 DEF Stores
  <2> QED BY <2>5, <2>6, <2>7
<1>8. CASE ~OfStore(q)
  <2>1. doc' = TornFile /\ store' = store /\ doc = q.seen
    BY <1>2, <1>8 DEF Truncate, OnlyFile, File
  <2>2. \A r \in Proc \ {p} : Writing(r)' => Writing(r) /\ OfStore(proc[r]) /\ store = TornFile
    BY <1>3, <1>5, <1>6, <1>8 DEF Writing, WholeFiles, File
  <2>3. \A r \in Proc : Writing(r)' => (File(proc[r]) = TornFile)'
    BY <1>3, <1>4, <1>8, <2>1, <2>2 DEF File
  <2>4. \A r, t \in Proc : Writing(r)' /\ Writing(t)' /\ (OfStore(proc[r]) = OfStore(proc[t]))' => r = t
    BY <1>3, <1>4, <1>8, <2>2 DEF WholeFiles
  <2>5. WholeFiles'
    BY <2>3, <2>4 DEF WholeFiles
  <2>6. Stores' \subseteq Stores
    BY <1>3, <1>4, <1>8, <2>1, <2>2 DEF Stores
  <2>7. Docs' \subseteq Docs
    <3>1. doc \in Docs
      BY <1>2, <2>1 DEF Docs
    <3> QED BY <1>3, <2>1, <2>2, <3>1 DEF Docs
  <2> QED BY <2>5, <2>6, <2>7
<1> QED BY <1>7, <1>8

LEMMA WriteFiles ==
    ASSUME Types, WholeFiles, NEW p \in Proc, Write(p), ~raced', NEW c \in proc[p].conn
    PROVE  /\ WholeFiles'
           /\ IF OfStore(proc[p])
              THEN proc[p].seen \in Stores /\ Stores' \subseteq {NewStore(proc[p], c)} /\ Docs' \subseteq Docs
              ELSE proc[p].seen \in Docs /\ Docs' \subseteq {NewDoc(proc[p], c)} /\ Stores' \subseteq Stores
<1> DEFINE q == proc[p]
<1>1. /\ BusyOK(q) /\ Writing(p) /\ File(q) = TornFile
      /\ \A r \in Proc \ {p} : proc'[r] = proc[r]
  BY WriteTypes DEF Write, Writing
<1>2. proc'[p].at = "read"
  <2>1. proc \in [Proc -> ProcType]
    BY DEF Types, ProcOK
  <2> QED BY <2>1 DEF Write, Onward, Idle, ProcType
<1>3. \A r \in Proc : Writing(r)' => r # p /\ Writing(r) /\ proc'[r] = proc[r] /\ OfStore(proc[r]) # OfStore(q)
  BY <1>1, <1>2 DEF Writing, WholeFiles
<1>4. \A r \in Proc : OfStore(proc[r]) \in BOOLEAN
  BY DEF OfStore
<1>5. \A r, t \in Proc : Writing(r)' /\ Writing(t)' /\ (OfStore(proc[r]) = OfStore(proc[t]))' => r = t
  BY <1>3 DEF WholeFiles
<1>6. CASE OfStore(q)
  <2>1. store' = NewStore(q, c) /\ doc' = doc
    BY <1>6, WriteTypes
  <2>2. \A r \in Proc : Writing(r)' => ~OfStore(proc[r]) /\ ~OfStore(proc'[r]) /\ doc = TornFile
    BY <1>3, <1>4, <1>6 DEF WholeFiles, File
  <2>3. \A r \in Proc : Writing(r)' => (File(proc[r]) = TornFile)'
    BY <2>1, <2>2 DEF File
  <2>4. WholeFiles'
    BY <1>5, <2>3 DEF WholeFiles
  <2>5. q.seen \in Stores
    BY <1>1, <1>6 DEF Stores
  <2>6. Stores' \subseteq {NewStore(q, c)}
    BY <2>1, <2>2 DEF Stores
  <2>7. Docs' \subseteq Docs
    BY <1>3, <2>1, <2>2 DEF Docs
  <2> QED BY <1>6, <2>4, <2>5, <2>6, <2>7
<1>7. CASE ~OfStore(q)
  <2>1. doc' = NewDoc(q, c) /\ store' = store
    BY <1>7, WriteTypes
  <2>2. \A r \in Proc : Writing(r)' => OfStore(proc[r]) /\ OfStore(proc'[r]) /\ store = TornFile
    BY <1>3, <1>4, <1>7 DEF WholeFiles, File
  <2>3. \A r \in Proc : Writing(r)' => (File(proc[r]) = TornFile)'
    BY <2>1, <2>2 DEF File
  <2>4. WholeFiles'
    BY <1>5, <2>3 DEF WholeFiles
  <2>5. q.seen \in Docs
    BY <1>1, <1>7 DEF Docs
  <2>6. Docs' \subseteq {NewDoc(q, c)}
    BY <2>1, <2>2 DEF Docs
  <2>7. Stores' \subseteq Stores
    BY <1>3, <2>1, <2>2 DEF Stores
  <2> QED BY <1>7, <2>4, <2>5, <2>6, <2>7
<1> QED BY <1>6, <1>7
-----------------------------------------------------------------------------
(* A connection that a step does not touch.                                    *)

LEMMA Untouched ==
    ASSUME NEW c \in Conn, ConnOK(c),
           \A p \in Proc : Has(p, c)' <=> Has(p, c),
           \A p \in Proc : Has(p, c)' =>
              /\ proc'[p].grant = proc[p].grant /\ proc'[p].key = proc[p].key /\ proc'[p].todo = proc[p].todo,
           c \in ref'.todo => c \in ref.todo /\ ref'.keys[c] = ref.keys[c],
           c \in wiped' <=> c \in wiped, c \in lost => c \in lost',
           asked'[c] = asked[c], spent'[c] = spent[c], issued'[c] = issued[c],
           \A d \in Docs' : \E e \in Docs : e[c] = d[c],
           \A s \in Stores' : \E e \in Stores : e[c] = s[c]
    PROVE  ConnOK(c)'
<1>1. \A p \in Proc : Has(p, c)' => \A edit : Does(p, edit)' <=> Does(p, edit)
  BY DEF Does
<1>2. Renewing(c)' => Renewing(c)
  BY Constants DEF Renewing, Has
<1>3. HandsOK(c)'
  <2>1. HandsOK(c)
    BY DEF ConnOK
  <2> QED BY <1>2, <2>1, Constants DEF HandsOK
<1>4. ASSUME NEW d \in Docs', NEW s \in Stores'
      PROVE  WordOK(c, d[c], s[c])' /\ PairOK(c, d[c], s[c])'
  <2>1. PICK e \in Docs : e[c] = d[c]
    OBVIOUS
  <2>2. PICK t \in Stores : t[c] = s[c]
    OBVIOUS
  <2>3. WordOK(c, d[c], s[c]) /\ PairOK(c, d[c], s[c])
    BY <2>1, <2>2 DEF ConnOK
  <2>4. WordOK(c, d[c], s[c])'
    BY <1>1, <1>2, <2>3 DEF WordOK
  <2>5. PairOK(c, d[c], s[c])'
    <3>1. s[c].key <= issued'[c]
      BY <2>3 DEF PairOK
    <3>2. c \in ref'.todo => s[c].key = ref'.keys[c]
      BY <2>3 DEF PairOK
    <3>3. \A p \in Proc : Has(p, c)' /\ Does(p, "keep")' => d[c] = Entry("signed", proc'[p].grant)
      BY <1>1, <2>3 DEF PairOK
    <3>4. c \notin lost' /\ ~Has(Renewal, c)' => s[c].key \notin spent'[c]
      BY <2>3, Constants DEF PairOK
    <3>5. c \notin lost' /\ (\A p \in Proc : Has(p, c)' => ~Does(p, "keep")') /\ d[c].kind = "signed" => d[c].grant = s[c].token
      BY <1>1, <2>3 DEF PairOK
    <3> QED BY <3>1, <3>2, <3>3, <3>4, <3>5 DEF PairOK
  <2> QED BY <2>4, <2>5
<1> QED BY <1>3, <1>4 DEF ConnOK

\* A process that is idle has nothing and writes nothing.
LEMMA IdleHas ==
    ASSUME NEW p \in Proc, NEW c \in Conn
    PROVE  /\ proc[p] = Idle => ~Has(p, c) /\ ~Writing(p)
           /\ proc'[p] = Idle => ~Has(p, c)' /\ ~Writing(p)'
BY DEF Has, Writing, Idle

LEMMA CommandStep ==
    ASSUME Types, AllOK, NEW c \in Conn, SignIn(c) \/ Remove(c) \/ Add(c) \/ AddCustom(c)
    PROVE  AllOK'
<1>1. PICK g \in {0} \cup Grant, todo \in SignEdits \cup AppEdits :
              /\ Start(c, g, todo)
              /\ \/ /\ g \in Grant /\ todo = <<"sign", "keep">> /\ g = issued[c] + 1
                    /\ issued' = [issued EXCEPT ![c] = g]
                 \/ g = 0 /\ todo \in AppEdits /\ Head(todo) # "forget" /\ issued' = issued
  BY Commands
<1> DEFINE n == calls'
<1>2. issued \in [Conn -> Grant] /\ issued' \in [Conn -> Grant] /\ spent' = spent
  BY <1>1 DEF Types, ConnTypeOK, Start
<1>3. \/ g \in Grant /\ todo = <<"sign", "keep">>
      \/ g = 0 /\ todo \in AppEdits
  BY <1>1
<1>4. /\ n \in Cli /\ proc[n] = Idle /\ proc'[n] = Busy(c, g, g, todo)
      /\ \A r \in Proc \ {n} : proc'[r] = proc[r]
  BY <1>1, <1>2, <1>3, StartTypes
<1>5. /\ proc'[n].conn = {c} /\ proc'[n].grant = g /\ proc'[n].key = g /\ proc'[n].todo = todo
      /\ proc'[n].at = "read"
  BY <1>4 DEF Busy
<1>6. doc' = doc /\ store' = store /\ ref' = ref /\ wiped' = wiped /\ lost' = lost /\ asked' = asked
  BY <1>1 DEF Start
<1>7. \A r \in Proc : Writing(r)' => Writing(r) /\ proc'[r] = proc[r]
  BY <1>4, <1>5 DEF Writing
<1>8. WholeFiles' /\ Docs' \subseteq Docs /\ Stores' \subseteq Stores
  BY <1>6, <1>7, SameWriters DEF AllOK
<1>9. n \in Proc /\ n # Renewal
  BY <1>4, Constants
<1>10. ASSUME NEW x \in Conn \ crossed' PROVE ConnOK(x)'
  <2>1. x \notin crossed /\ ConnOK(x)
    BY <1>1 DEF AllOK, Start
  <2>2. CASE x # c
    <3>1. \A p \in Proc : Has(p, x)' <=> Has(p, x)
      BY <1>4, <1>5, <1>9, <2>2, IdleHas DEF Has
    <3>2. \A p \in Proc : Has(p, x)' =>
              /\ proc'[p].grant = proc[p].grant /\ proc'[p].key = proc[p].key /\ proc'[p].todo = proc[p].todo
      BY <1>4, <1>5, <2>2 DEF Has
    <3>3. issued'[x] = issued[x]
      BY <1>1, <1>2, <2>2
    <3> QED BY <1>2, <1>6, <1>8, <2>1, <3>1, <3>2, <3>3, Untouched
  <2>3. CASE x = c
    <3>1. ~Renewing(c) /\ ~Commanded(c)
      BY <1>1, <2>3 DEF Start
    <3>2. c \notin ref.todo /\ \A p \in Proc : ~Has(p, c)
      BY <3>1, Constants DEF Renewing, Commanded, Has
    <3>3. \A p \in Proc : Has(p, c)' <=> p = n
      BY <1>4, <1>5, <1>9, <3>2 DEF Has
    <3>4. ~Renewing(c)' /\ ~Has(Renewal, c)'
      BY <1>6, <1>9, <3>2, <3>3, Constants DEF Renewing, Has
    <3>5. \A p \in Proc : p = n => ~Does(p, "forget")' /\ ~Does(p, "keep")'
      <4>1. Head(todo) \notin {"forget", "keep"}
        <5>1. CASE todo = <<"sign", "keep">>
          BY <5>1
        <5>2. CASE todo \in AppEdits /\ Head(todo) # "forget"
          BY <5>2, AppLists DEF NextEdits
        <5> QED BY <1>1, <5>1, <5>2
      <4> QED BY <1>5, <4>1 DEF Does
    <3>6. issued[c] \in Nat /\ issued'[c] \in Nat /\ issued[c] <= issued'[c] /\ g <= issued'[c] /\ g \notin 1..issued[c]
      BY <1>1, <1>2, Constants DEF Grant
    <3>7. HandsOK(c) /\ spent[c] \subseteq 1..issued[c]
      BY <2>1, <2>3 DEF ConnOK, HandsOK
    <3>8. spent[c] \subseteq 1..issued'[c]
      BY <3>6, <3>7
    <3>9. HandsOK(c)'
      BY <1>2, <1>5, <1>6, <3>2, <3>3, <3>4, <3>6, <3>7, <3>8 DEF HandsOK
    <3>10. ASSUME NEW d \in Docs', NEW s \in Stores'
           PROVE  WordOK(c, d[c], s[c])' /\ PairOK(c, d[c], s[c])'
      <4>1. WordOK(c, d[c], s[c]) /\ PairOK(c, d[c], s[c])
        BY <1>8, <2>1, <2>3 DEF ConnOK
      <4>2. WordOK(c, d[c], s[c])'
        BY <1>6, <3>3, <3>4, <3>5, <4>1 DEF WordOK
      <4>3. s[c].key <= issued'[c]
        <5>1. s \in [Conn -> Records]
          BY <1>8, ContentTypes, FilesTypes
        <5>2. s[c].key \in Nat /\ s[c].key <= issued[c]
          <6>1. s[c] \in Records
            BY <5>1
          <6>2. s[c].key \in {0} \cup Grant
            BY <6>1 DEF Records
          <6>3. s[c].key \in Nat
            BY <6>2, GrantsAreNat
          <6>4. s[c].key <= issued[c]
            BY <4>1 DEF PairOK
          <6> QED BY <6>3, <6>4
        <5> QED BY <3>6, <5>2
      <4>4. ~Has(Renewal, c)
        BY <3>2, Constants
      <4>5. PairOK(c, d[c], s[c])'
        BY <1>2, <1>6, <3>2, <3>3, <3>4, <3>5, <4>1, <4>3, <4>4 DEF PairOK
      <4> QED BY <4>2, <4>5
    <3> QED BY <2>3, <3>9, <3>10 DEF ConnOK
  <2> QED BY <2>2, <2>3
<1> QED BY <1>8, <1>10 DEF AllOK

\* A process that keeps what it has in hand.
LEMMA HandsKept ==
    ASSUME Types, WholeFiles, WholeFiles', Docs' \subseteq Docs, Stores' \subseteq Stores,
           NEW c \in Conn, ConnOK(c), c \notin crossed',
           \A p \in Proc : Has(p, c)' <=> Has(p, c),
           \A p \in Proc : Has(p, c)' =>
              /\ proc'[p].grant = proc[p].grant /\ proc'[p].key = proc[p].key /\ proc'[p].todo = proc[p].todo,
           c \in ref'.todo => c \in ref.todo /\ ref'.keys[c] = ref.keys[c],
           c \in wiped' <=> c \in wiped, c \in lost => c \in lost',
           asked'[c] = asked[c], spent'[c] = spent[c], issued'[c] = issued[c]
    PROVE  ConnOK(c)'
<1>1. \A d \in Docs' : \E e \in Docs : e[c] = d[c]
  OBVIOUS
<1>2. \A s \in Stores' : \E e \in Stores : e[c] = s[c]
  OBVIOUS
<1> QED BY <1>1, <1>2, Untouched

LEMMA ReadStep ==
    ASSUME Types, AllOK, NEW p \in Proc, Read(p), ~raced'
    PROVE  AllOK'
<1> DEFINE q == proc[p]
<1>1. /\ BusyOK(q) /\ q \in ProcType /\ proc \in [Proc -> ProcType]
      /\ \A r \in Proc \ {p} : proc'[r] = proc[r]
  BY ReadTypes DEF Types, ProcOK
<1>2. /\ doc' = doc /\ store' = store /\ ref' = ref /\ wiped' = wiped /\ lost' = lost /\ asked' = asked
      /\ spent' = spent /\ issued' = issued /\ crossed' = crossed
      /\ File(q) # TornFile /\ q.at = "read"
  BY DEF Read, providers
<1>3. \/ Onward(p) /\ Head(q.todo) = "strip" /\ \A c \in q.conn : File(q)[c].kind = "none"
      \/ proc' = [proc EXCEPT ![p].at = "truncate", ![p].seen = File(q)]
  BY <1>2 DEF Read
<1>4. \/ proc'[p] = Idle
      \/ /\ proc'[p].at \in {"read", "truncate"} /\ proc'[p].conn = q.conn
         /\ proc'[p].grant = q.grant /\ proc'[p].key = q.key
  <2>1. CASE Onward(p)
    BY <1>1, <2>1, OnwardType DEF Types
  <2>2. CASE proc' = [proc EXCEPT ![p].at = "truncate", ![p].seen = File(q)]
    BY <1>1, <2>2 DEF ProcType
  <2> QED BY <1>3, <2>1, <2>2
<1>5. \A r \in Proc : Writing(r)' => Writing(r) /\ proc'[r] = proc[r]
  BY <1>1, <1>4 DEF Writing, Idle
<1>6. WholeFiles' /\ Docs' \subseteq Docs /\ Stores' \subseteq Stores
  BY <1>2, <1>5, SameWriters DEF AllOK
<1>7. ASSUME NEW x \in Conn \ crossed' PROVE ConnOK(x)'
  <2>1. ConnOK(x) /\ WholeFiles
    BY <1>2 DEF AllOK
  <2>2. CASE x \notin q.conn
    <3>1. \A r \in Proc : Has(r, x)' <=> Has(r, x)
      BY <1>1, <1>4, <2>2 DEF Has, Idle
    <3>2. \A r \in Proc : Has(r, x)' => proc'[r] = proc[r]
      BY <1>1, <2>2, <3>1 DEF Has
    <3> QED BY <1>2, <1>6, <2>1, <3>1, <3>2, HandsKept
  <2>3. CASE x \in q.conn /\ proc' = [proc EXCEPT ![p].at = "truncate", ![p].seen = File(q)]
    <3>1. proc'[p].conn = q.conn /\ proc'[p].grant = q.grant /\ proc'[p].key = q.key /\ proc'[p].todo = q.todo
      BY <1>1, <2>3 DEF ProcType
    <3>2. \A r \in Proc : Has(r, x)' <=> Has(r, x)
      BY <1>1, <3>1 DEF Has
    <3>3. \A r \in Proc : /\ proc'[r].grant = proc[r].grant /\ proc'[r].key = proc[r].key /\ proc'[r].todo = proc[r].todo
      BY <1>1, <3>1
    <3> QED BY <1>2, <1>6, <2>1, <3>2, <3>3, HandsKept
  <2>4. CASE x \in q.conn /\ Onward(p) /\ Head(q.todo) = "strip" /\ \A c \in q.conn : File(q)[c].kind = "none"
    <3>1. q.todo \in AppEdits /\ q.grant = 0 /\ q.key = 0
      BY <1>1, <2>4, SignLists DEF BusyOK
    <3>2. Len(q.todo) # 1 /\ Tail(q.todo) \in AppEdits /\ Tail(q.todo) # <<>> /\ Head(Tail(q.todo)) = "forget"
      BY <2>4, <3>1, AppLists DEF NextEdits
    <3>3. /\ proc'[p].conn = q.conn /\ proc'[p].grant = 0 /\ proc'[p].key = 0 /\ proc'[p].todo = Tail(q.todo)
      BY <1>1, <2>4, <3>1, <3>2, OnwardType DEF Types
    <3>4. \A r \in Proc : Has(r, x)' <=> Has(r, x)
      BY <1>1, <3>3 DEF Has
    <3>5. \A r \in Proc : Has(r, x) => r = p
      BY <2>1, <2>4 DEF ConnOK, HandsOK, Has
    <3>6. p # Renewal
      <4>1. q # Idle
        BY <1>2, <3>1, <3>2, <2>4 DEF Idle
      <4> QED BY <3>1, <4>1 DEF Types, ProcOK
    <3>7. ~Does(p, "keep") /\ ~Does(p, "forget") /\ ~Does(p, "keep")'
      BY <2>4, <3>2, <3>3 DEF Does
    <3>8. HandsOK(x)'
      <4>1. HandsOK(x)
        BY <2>1 DEF ConnOK
      <4>2. \A r \in Proc : Has(r, x)' => proc'[r].grant = proc[r].grant /\ proc'[r].key = proc[r].key
        BY <3>1, <3>3, <3>4, <3>5
      <4>3. Renewing(x)' <=> Renewing(x)
        BY <1>2, <3>4, Constants DEF Renewing, Has
      <4> QED BY <1>2, <3>4, <4>1, <4>2, <4>3, Constants DEF HandsOK
    <3>9. doc # TornFile /\ Docs = {doc} /\ doc[x].kind = "none"
      <4>1. File(q) = doc
        BY <2>4 DEF File, OfStore
      <4> QED BY <1>2, <2>1, <2>4, <4>1, WholeDoc
    <3>10. ASSUME NEW d \in Docs', NEW s \in Stores'
           PROVE  WordOK(x, d[x], s[x])' /\ PairOK(x, d[x], s[x])'
      <4>1. WordOK(x, d[x], s[x]) /\ PairOK(x, d[x], s[x]) /\ d[x].kind = "none"
        BY <1>6, <2>1, <3>9 DEF ConnOK
      <4>2. ~Renewing(x)' \/ Renewing(x)
        BY <1>2, <3>4, Constants DEF Renewing, Has
      <4>3. WordOK(x, d[x], s[x])'
        BY <1>2, <4>1, <4>2 DEF WordOK
      <4>4. PairOK(x, d[x], s[x])'
        BY <1>2, <3>4, <3>5, <3>7, <4>1, Constants DEF PairOK
      <4> QED BY <4>3, <4>4
    <3> QED BY <3>8, <3>10 DEF ConnOK
  <2> QED BY <1>3, <2>2, <2>3, <2>4
<1> QED BY <1>6, <1>7 DEF AllOK

LEMMA TruncateStep ==
    ASSUME Types, AllOK, NEW p \in Proc, Truncate(p), ~raced'
    PROVE  AllOK'
<1>1. WholeFiles' /\ Docs' \subseteq Docs /\ Stores' \subseteq Stores
  BY TruncateFiles DEF AllOK
<1>2. /\ ref' = ref /\ wiped' = wiped /\ lost' = lost /\ asked' = asked
      /\ spent' = spent /\ issued' = issued /\ crossed' = crossed
  BY DEF Truncate, providers
<1>3. \A r \in Proc : /\ proc'[r].conn = proc[r].conn /\ proc'[r].grant = proc[r].grant
                      /\ proc'[r].key = proc[r].key /\ proc'[r].todo = proc[r].todo
  BY TruncateTypes
<1>4. ASSUME NEW x \in Conn \ crossed' PROVE ConnOK(x)'
  <2>1. ConnOK(x) /\ WholeFiles
    BY <1>2 DEF AllOK
  <2>2. \A r \in Proc : Has(r, x)' <=> Has(r, x)
    BY <1>3 DEF Has
  <2> QED BY <1>1, <1>2, <1>3, <2>1, <2>2, HandsKept
<1> QED BY <1>1, <1>4 DEF AllOK

\* What a process has in hand of its connection after a write.
LEMMA WriteHands ==
    ASSUME Types, NEW p \in Proc, Write(p), NEW x \in Conn, ConnOK(x), Has(p, x)
    PROVE  /\ \A r \in Proc : Has(r, x) <=> r = p
           /\ \A r \in Proc : Has(r, x)' => r = p /\ proc'[r].grant = proc[p].grant
           /\ Head(proc[p].todo) # "sign" => \A r \in Proc : ~(Has(r, x)' /\ Does(r, "keep")')
           /\ Has(p, x)' /\ Does(p, "forget")' => Head(proc[p].todo) = "strip"
           /\ Head(proc[p].todo) = "sign" => Has(p, x)' /\ Does(p, "keep")'
           /\ Head(proc[p].todo) = "keep" => \A r \in Proc : ~Has(r, x)'
           /\ x \notin ref'.todo /\ x \notin ref.todo
           /\ spent' = spent /\ issued' = issued /\ lost' = lost
           /\ HandsOK(x)'
<1> DEFINE q == proc[p]
<1>1. BusyOK(q) /\ \A r \in Proc \ {p} : proc'[r] = proc[r]
  BY WriteTypes
<1>2. HandsOK(x)
  BY DEF ConnOK
<1>3. \A r \in Proc : Has(r, x) <=> r = p
  BY <1>2 DEF HandsOK
<1>4. \/ proc'[p] = Idle /\ Len(q.todo) = 1
      \/ /\ proc'[p].grant = q.grant /\ proc'[p].key = q.key /\ proc'[p].conn = q.conn
         /\ proc'[p].todo = Tail(q.todo) /\ Len(q.todo) # 1
  BY <1>1, OnwardType DEF Write, Types
<1>5. \A r \in Proc : Has(r, x)' => r = p /\ proc'[r].grant = q.grant /\ proc'[r].key = q.key
  BY <1>1, <1>3, <1>4 DEF Has, Idle
<1>6. /\ ref' = ref /\ spent' = spent /\ issued' = issued /\ lost' = lost
  BY DEF Write, providers
<1>7. q.todo \in SignEdits \cup AppEdits
  BY <1>1 DEF BusyOK
<1>8. Head(q.todo) = "sign" => Has(p, x)' /\ Does(p, "keep")'
  <2> SUFFICES ASSUME Head(q.todo) = "sign" PROVE Has(p, x)' /\ Does(p, "keep")'
    OBVIOUS
  <2>1. q.todo \in SignEdits
    BY <1>7, AppLists DEF NextEdits
  <2>2. Len(q.todo) # 1 /\ Tail(q.todo) \in SignEdits /\ Head(Tail(q.todo)) = "keep" /\ Tail(q.todo) # <<>>
    BY <2>1, SignLists
  <2> QED BY <1>3, <1>4, <2>2 DEF Has, Does
<1>9. Head(q.todo) = "keep" => \A r \in Proc : ~Has(r, x)'
  <2> SUFFICES ASSUME Head(q.todo) = "keep" PROVE \A r \in Proc : ~Has(r, x)'
    OBVIOUS
  <2>1. q.todo \in SignEdits
    BY <1>7, AppLists DEF NextEdits
  <2>2. Len(q.todo) = 1
    BY <2>1, SignLists
  <2> QED BY <1>4, <1>5, <2>2 DEF Has, Idle
<1>10. /\ Head(q.todo) # "sign" => \A r \in Proc : ~(Has(r, x)' /\ Does(r, "keep")')
       /\ Has(p, x)' /\ Does(p, "forget")' => Head(q.todo) = "strip"
  <2>1. CASE q.todo \in SignEdits
    <3>1. Head(q.todo) \in {"sign", "keep"}
      BY <2>1, SignLists
    <3>2. Head(q.todo) = "sign" => Does(p, "keep")'
      BY <1>8
    <3> QED BY <1>5, <1>9, <3>1, <3>2 DEF Does
  <2>2. CASE q.todo \in AppEdits
    <3>1. Len(q.todo) # 1 => Tail(q.todo) \in AppEdits
      BY <2>2, AppLists DEF NextEdits
    <3>2. Len(q.todo) # 1 => Head(Tail(q.todo)) # "keep"
      BY <3>1, AppLists DEF NextEdits
    <3>3. Len(q.todo) # 1 /\ Head(Tail(q.todo)) = "forget" => Head(q.todo) = "strip"
      BY <2>2, AppLists DEF NextEdits
    <3>4. Has(p, x)' => proc'[p].todo = Tail(q.todo) /\ Len(q.todo) # 1
      BY <1>4 DEF Has, Idle
    <3>5. Has(p, x)' /\ Does(p, "forget")' => Head(q.todo) = "strip"
      <4> SUFFICES ASSUME Has(p, x)', Does(p, "forget")' PROVE Head(q.todo) = "strip"
        OBVIOUS
      <4>1. Head(Tail(q.todo)) = "forget"
        BY <3>4 DEF Does
      <4> QED BY <3>3, <3>4, <4>1
    <3>6. ~(Has(p, x)' /\ Does(p, "keep")')
      BY <3>2, <3>4 DEF Does
    <3> QED BY <1>5, <3>5, <3>6
  <2> QED BY <1>7, <2>1, <2>2
<1>11. x \notin ref.todo
  BY <1>2, <1>3 DEF HandsOK
<1>12. Renewing(x)' => x \notin wiped'
  <2>1. ASSUME Renewing(x)' PROVE p = Renewal /\ wiped' = wiped /\ x \notin wiped
    <3>1. Has(Renewal, x)'
      BY <1>6, <1>11, <2>1 DEF Renewing, Has
    <3>2. p = Renewal
      BY <1>5, <3>1, Constants
    <3>3. wiped' = wiped
      BY <3>2, WriteTypes, Constants DEF Has
    <3> QED BY <1>2, <3>2, <3>3 DEF HandsOK, Renewing, Has
  <2> QED BY <2>1
<1>13. HandsOK(x)'
  BY <1>2, <1>3, <1>5, <1>6, <1>11, <1>12, Constants DEF HandsOK
<1> QED BY <1>3, <1>5, <1>6, <1>8, <1>9, <1>10, <1>11, <1>13

\* ... and what its write leaves of the connection: a sign-in's header,
LEMMA SignStep ==
    ASSUME Types, WholeFiles, NEW p \in Proc, Write(p), ~raced', NEW x \in Conn, ConnOK(x), Has(p, x),
           Head(proc[p].todo) = "sign"
    PROVE  ConnOK(x)'
<1> DEFINE q == proc[p]
<1>1. /\ ~OfStore(q) /\ BusyOK(q)
      /\ q.seen \in Docs /\ Docs' \subseteq {NewDoc(q, x)} /\ Stores' \subseteq Stores
      /\ doc' = NewDoc(q, x) /\ q.seen \in DocType /\ wiped' = wiped
      /\ asked' = (IF p \in Cli THEN [asked EXCEPT ![x] = doc'[x].kind] ELSE asked)
  BY WriteTypes, WriteFiles DEF Has, OfStore
<1>2. NewDoc(q, x)[x] = Entry("signed", q.grant)
  BY <1>1, FilesTypes DEF NewDoc, EditDoc
<1>3. /\ \A r \in Proc : Has(r, x) <=> r = p
      /\ \A r \in Proc : Has(r, x)' => r = p /\ proc'[r].grant = q.grant
      /\ Has(p, x)' /\ Does(p, "keep")'
      /\ x \notin ref'.todo /\ spent' = spent /\ issued' = issued /\ lost' = lost
      /\ HandsOK(x)' /\ HandsOK(x)
  BY WriteHands DEF ConnOK
<1>4. ASSUME NEW d \in Docs', NEW s \in Stores'
      PROVE  WordOK(x, d[x], s[x])' /\ PairOK(x, d[x], s[x])'
  <2>1. d[x] = Entry("signed", q.grant) /\ s \in Stores /\ d[x].kind = "signed"
    BY <1>1, <1>2 DEF Entry
  <2>2. WordOK(x, q.seen[x], s[x]) /\ PairOK(x, q.seen[x], s[x])
    BY <1>1, <2>1 DEF ConnOK
  <2>3. \/ d[x].kind = asked'[x]
        \/ asked'[x] = "bare" \/ (asked'[x] = "pasted" /\ x \notin wiped)
    <3>1. CASE p \in Cli
      BY <1>1, <1>2, <2>1, <3>1 DEF Types, ConnTypeOK
    <3>2. CASE p = Renewal
      <4>1. Renewing(x)
        BY <3>2 DEF Renewing, Has
      <4>2. q.seen[x].kind \in {"bare", "signed", "pasted"} /\ x \notin wiped
        BY <1>3, <2>2, <4>1 DEF WordOK, HandsOK
      <4>3. asked' = asked
        BY <1>1, <3>2, Constants
      <4> QED BY <2>1, <2>2, <4>2, <4>3 DEF WordOK
    <3> QED BY <3>1, <3>2, Constants
  <2>4. \A r \in Proc : ~(Has(r, x)' /\ Does(r, "forget")')
    BY <1>3 DEF Does
  <2>5. WordOK(x, d[x], s[x])'
    BY <1>1, <2>1, <2>2, <2>3, <2>4 DEF WordOK
  <2>6. ~Has(Renewal, x)' => ~Has(Renewal, x)
    BY <1>3, Constants
  <2>7. PairOK(x, d[x], s[x])'
    BY <1>3, <2>1, <2>2, <2>6 DEF PairOK
  <2> QED BY <2>5, <2>7
<1> QED BY <1>3, <1>4 DEF ConnOK

\* ... the entry of another command,
LEMMA EntryStep ==
    ASSUME Types, WholeFiles, NEW p \in Proc, Write(p), ~raced', NEW x \in Conn, ConnOK(x), Has(p, x),
           Head(proc[p].todo) \in {"drop", "strip", "bare", "paste", "move"}
    PROVE  ConnOK(x)'
<1> DEFINE q == proc[p]
<1>1. /\ ~OfStore(q) /\ BusyOK(q) /\ q.at = "write"
      /\ q.seen \in Docs /\ Docs' \subseteq {NewDoc(q, x)} /\ Stores' \subseteq Stores
      /\ doc' = NewDoc(q, x) /\ q.seen \in DocType /\ wiped' = wiped
      /\ asked' = (IF p \in Cli THEN [asked EXCEPT ![x] = doc'[x].kind] ELSE asked)
  BY WriteTypes, WriteFiles DEF Has, OfStore, Write
<1>2. q.todo \in AppEdits /\ q.grant = 0
  BY <1>1, SignLists DEF BusyOK
<1>3. p \in Cli /\ p # Renewal
  <2>1. q # Idle
    BY <1>1 DEF Idle
  <2>2. p # Renewal
    BY <1>2, <2>1 DEF Types, ProcOK
  <2> QED BY <2>2, Constants
<1>4. /\ NewDoc(q, x)[x] = EditDoc(Head(q.todo), q.seen[x], q.grant) /\ q.seen[x] \in Entries
  BY <1>1, FilesTypes DEF NewDoc
<1>5. NewDoc(q, x)[x].kind \notin {"signed"} /\ (Head(q.todo) = "strip" => NewDoc(q, x)[x].kind # "pasted")
  <2>1. CASE Head(q.todo) = "strip"
    BY <1>4, <2>1 DEF EditDoc, Stripped, Entry
  <2>2. CASE Head(q.todo) \in {"drop", "bare", "paste", "move"}
    BY <1>4, <2>2 DEF EditDoc, Entry
  <2> QED BY <2>1, <2>2
<1>6. /\ \A r \in Proc : Has(r, x) <=> r = p
      /\ \A r \in Proc : Has(r, x)' => r = p
      /\ \A r \in Proc : ~(Has(r, x)' /\ Does(r, "keep")')
      /\ Has(p, x)' /\ Does(p, "forget")' => Head(q.todo) = "strip"
      /\ x \notin ref'.todo /\ spent' = spent /\ issued' = issued /\ lost' = lost
      /\ HandsOK(x)'
  BY WriteHands
<1>7. ~Renewing(x)' /\ ~Has(Renewal, x)' /\ ~Has(Renewal, x)
  BY <1>3, <1>6, Constants DEF Renewing, Has
<1>8. asked'[x] = NewDoc(q, x)[x].kind
  BY <1>1, <1>3 DEF Types, ConnTypeOK
<1>9. ASSUME NEW d \in Docs', NEW s \in Stores'
      PROVE  WordOK(x, d[x], s[x])' /\ PairOK(x, d[x], s[x])'
  <2>1. d = NewDoc(q, x) /\ s \in Stores
    BY <1>1
  <2>2. WordOK(x, q.seen[x], s[x]) /\ PairOK(x, q.seen[x], s[x])
    BY <1>1, <2>1 DEF ConnOK
  <2>3. WordOK(x, d[x], s[x])'
    <3>1. \A r \in Proc : Has(r, x)' /\ Does(r, "forget")' => d[x].kind \notin {"signed", "pasted"}
      BY <1>5, <1>6, <2>1
    <3>2. x \in wiped' => s[x].key = 0
      BY <1>1, <2>2 DEF WordOK
    <3> QED BY <1>7, <1>8, <2>1, <3>1, <3>2 DEF WordOK
  <2>4. PairOK(x, d[x], s[x])'
    BY <1>5, <1>6, <1>7, <2>1, <2>2 DEF PairOK
  <2> QED BY <2>3, <2>4
<1> QED BY <1>6, <1>9 DEF ConnOK

\* ... a sign-in's record,
LEMMA KeepStep ==
    ASSUME Types, WholeFiles, NEW p \in Proc, Write(p), ~raced', NEW x \in Conn, ConnOK(x), Has(p, x),
           Head(proc[p].todo) = "keep"
    PROVE  ConnOK(x)'
<1> DEFINE q == proc[p]
<1>1. /\ OfStore(q) /\ BusyOK(q) /\ q.at = "write"
      /\ q.seen \in Stores /\ Stores' \subseteq {NewStore(q, x)} /\ Docs' \subseteq Docs
      /\ q.seen \in StoreType /\ asked' = asked
      /\ wiped' = (IF p \notin Cli THEN wiped ELSE wiped \ {x})
  BY WriteTypes, WriteFiles DEF Has, OfStore, Write
<1>2. /\ q.seen[x] \in Records
      /\ NewStore(q, x)[x] = [key |-> IF q.key > 0 THEN q.key ELSE q.seen[x].key, token |-> q.grant]
  BY <1>1, FilesTypes DEF NewStore, Keep, Kept
<1>3. /\ \A r \in Proc : Has(r, x) <=> r = p
      /\ \A r \in Proc : ~Has(r, x)'
      /\ x \notin ref'.todo /\ spent' = spent /\ issued' = issued /\ lost' = lost
      /\ HandsOK(x)' /\ HandsOK(x)
  BY WriteHands DEF ConnOK
<1>4. ~Renewing(x)' /\ ~Has(Renewal, x)' /\ x \notin wiped'
  <2>1. ~Renewing(x)' /\ ~Has(Renewal, x)'
    BY <1>3, Constants DEF Renewing, Has
  <2>2. p = Renewal => Renewing(x)
    BY DEF Renewing, Has
  <2>3. p = Renewal => x \notin wiped
    BY <1>3, <2>2 DEF HandsOK
  <2> QED BY <1>1, <2>1, <2>3, Constants
<1>5. /\ q.key \in Nat /\ q.key <= issued[x] /\ (x \notin lost => q.key \notin spent[x])
      /\ q.key = 0 => spent[x] = {} 
  <2>1. q \in ProcType /\ q.key \in {0, q.grant} /\ q.grant \in Nat
    <3>1. proc \in [Proc -> ProcType]
      BY DEF Types, ProcOK
    <3>2. q.grant \in {0} \cup Grant
      BY <3>1 DEF ProcType
    <3> QED BY <1>1, <3>1, <3>2, GrantsAreNat DEF BusyOK
  <2>2. issued[x] \in Nat /\ q.grant <= issued[x]
    <3>1. issued[x] \in Grant
      BY DEF Types, ConnTypeOK
    <3> QED BY <1>3, <3>1, GrantsAreNat DEF HandsOK
  <2>3. q # Idle /\ q.grant > 0
    <3>1. q # Idle
      BY <1>1 DEF Idle
    <3>2. q.grant \in Grant
      BY <1>1, AppLists DEF BusyOK, NextEdits
    <3> QED BY <3>1, <3>2, Constants DEF Grant
  <2>4. q.key = 0 => spent[x] = {}
    <3>1. p \in Cli => q.key = q.grant
      BY DEF Types, ProcOK
    <3>2. p = Renewal => q.key = (IF x \in Rotating THEN q.grant ELSE 0)
      BY <1>3 DEF HandsOK
    <3>3. x \notin Rotating => spent[x] = {}
      BY <1>3 DEF HandsOK
    <3> QED BY <2>1, <2>3, <3>1, <3>2, <3>3, Constants
  <2>5. x \notin lost => q.key \notin spent[x]
    BY <1>3 DEF HandsOK
  <2> QED BY <2>1, <2>2, <2>4, <2>5
<1>6. ASSUME NEW d \in Docs', NEW s \in Stores'
      PROVE  WordOK(x, d[x], s[x])' /\ PairOK(x, d[x], s[x])'
  <2>1. s = NewStore(q, x) /\ d \in Docs
    BY <1>1
  <2>2. WordOK(x, d[x], q.seen[x]) /\ PairOK(x, d[x], q.seen[x])
    BY <1>1, <2>1 DEF ConnOK
  <2>3. d[x].kind = asked[x] \/ (d[x].kind = "signed" /\ asked[x] \in {"bare", "pasted"})
    BY <2>2 DEF WordOK
  <2>4. WordOK(x, d[x], s[x])'
    BY <1>1, <1>3, <1>4, <2>3 DEF WordOK
  <2>5. d[x] = Entry("signed", q.grant)
    BY <1>3, <2>2, EditsType, <1>1 DEF PairOK, Does, OfStore, BusyOK, SignEdits, AppEdits
  <2>6. d[x].grant = s[x].token
    BY <1>2, <2>1, <2>5 DEF Entry
  <2>7. s[x].key = (IF q.key > 0 THEN q.key ELSE q.seen[x].key)
    BY <1>2, <2>1
  <2>8. s[x].key <= issued[x]
    BY <1>5, <2>2, <2>7 DEF PairOK
  <2>9. x \notin lost => s[x].key \notin spent[x]
    BY <1>5, <2>7
  <2>10. PairOK(x, d[x], s[x])'
    BY <1>3, <2>6, <2>8, <2>9 DEF PairOK
  <2> QED BY <2>4, <2>10
<1> QED BY <1>3, <1>6 DEF ConnOK

\* ... nothing, where it was forgotten.
LEMMA ForgetStep ==
    ASSUME Types, WholeFiles, NEW p \in Proc, Write(p), ~raced', NEW x \in Conn, ConnOK(x), Has(p, x),
           Head(proc[p].todo) = "forget"
    PROVE  ConnOK(x)'
<1> DEFINE q == proc[p]
<1>1. /\ OfStore(q) /\ BusyOK(q) /\ q.at = "write"
      /\ q.seen \in Stores /\ Stores' \subseteq {NewStore(q, x)} /\ Docs' \subseteq Docs
      /\ q.seen \in StoreType /\ asked' = asked
      /\ wiped' = (IF p \notin Cli THEN wiped ELSE wiped \cup {x})
  BY WriteTypes, WriteFiles DEF Has, OfStore, Write
<1>2. NewStore(q, x)[x] = Kept(0, 0)
  BY <1>1, FilesTypes DEF NewStore
<1>3. /\ \A r \in Proc : Has(r, x) <=> r = p
      /\ \A r \in Proc : Has(r, x)' => r = p
      /\ \A r \in Proc : ~(Has(r, x)' /\ Does(r, "keep")')
      /\ x \notin ref'.todo /\ spent' = spent /\ issued' = issued /\ lost' = lost
      /\ HandsOK(x)' /\ HandsOK(x)
  BY WriteHands DEF ConnOK
<1>4. q.todo \in AppEdits /\ q.grant = 0 /\ q.todo # <<>>
  BY <1>1, SignLists, AppLists DEF BusyOK, NextEdits
<1>5. p \in Cli /\ p # Renewal
  <2>1. q # Idle
    BY <1>1 DEF Idle
  <2>2. p # Renewal
    BY <1>4, <2>1 DEF Types, ProcOK
  <2> QED BY <2>2, Constants
<1>6. ~Renewing(x)' /\ ~Has(Renewal, x)'
  BY <1>3, <1>5, Constants DEF Renewing, Has
<1>7. 0 \notin spent[x] /\ 0 <= issued[x]
  <2>1. issued[x] \in Nat
    BY Constants DEF Types, ConnTypeOK
  <2>2. spent[x] \subseteq 1..issued[x]
    BY <1>3 DEF HandsOK
  <2> QED BY <2>1, <2>2
<1>8. ASSUME NEW d \in Docs', NEW s \in Stores'
      PROVE  WordOK(x, d[x], s[x])' /\ PairOK(x, d[x], s[x])'
  <2>1. s[x] = Kept(0, 0) /\ s[x].key = 0 /\ d \in Docs
    BY <1>1, <1>2 DEF Kept
  <2>2. WordOK(x, d[x], q.seen[x])
    BY <1>1, <2>1 DEF ConnOK
  <2>3. d[x].kind \notin {"signed", "pasted"}
    BY <1>3, <1>4, <2>2 DEF WordOK, Does
  <2>4. WordOK(x, d[x], s[x])'
    BY <1>1, <1>6, <2>1, <2>2, <2>3 DEF WordOK
  <2>5. PairOK(x, d[x], s[x])'
    BY <1>3, <1>7, <2>1, <2>3 DEF PairOK
  <2> QED BY <2>4, <2>5
<1> QED BY <1>3, <1>8 DEF ConnOK

LEMMA WriteStep ==
    ASSUME Types, AllOK, NEW p \in Proc, Write(p), ~raced'
    PROVE  AllOK'
<1> DEFINE q == proc[p]
<1>1. WholeFiles /\ crossed' = crossed /\ BusyOK(q) /\ q \in ProcType
      /\ \A r \in Proc \ {p} : proc'[r] = proc[r]
  BY WriteTypes DEF AllOK, Write, Types, ProcOK
<1>2. PICK c \in Conn : q.conn = {c}
  BY <1>1 DEF BusyOK
<1>3. WholeFiles'
  BY <1>1, <1>2, WriteFiles
<1>4. ASSUME NEW x \in Conn \ crossed' PROVE ConnOK(x)'
  <2>1. ConnOK(x)
    BY <1>1 DEF AllOK
  <2>2. CASE x = c
    <3>1. Has(p, x)
      BY <1>2, <2>2 DEF Has
    <3>2. Head(q.todo) \in {"sign", "keep", "drop", "strip", "forget", "bare", "paste", "move"}
      BY <1>1, EditsType
    <3> QED BY <1>1, <2>1, <3>1, <3>2, SignStep, EntryStep, KeepStep, ForgetStep
  <2>3. CASE x # c
    <3>1. \A r \in Proc : Has(r, x)' <=> Has(r, x)
      <4>1. ~Has(p, x)
        BY <1>2, <2>3 DEF Has
      <4>2. proc'[p] = Idle \/ proc'[p].conn = q.conn
        BY <1>1, OnwardType DEF Write, Types
      <4>3. ~Has(p, x)'
        BY <4>1, <4>2 DEF Has, Idle
      <4> QED BY <1>1, <4>1, <4>3 DEF Has
    <3>2. \A r \in Proc : Has(r, x)' => proc'[r] = proc[r]
      BY <1>1, <1>2, <2>3, <3>1 DEF Has
    <3>3. /\ ref' = ref /\ lost' = lost /\ spent' = spent /\ issued' = issued
      BY DEF Write, providers
    <3>4. CASE OfStore(q)
      <4>1. /\ q.seen \in Stores /\ Stores' \subseteq {NewStore(q, c)} /\ Docs' \subseteq Docs
            /\ asked' = asked /\ q.seen \in StoreType
            /\ x \in wiped' <=> x \in wiped
        BY <1>1, <1>2, <2>3, <3>4, WriteFiles, WriteTypes
      <4>2. NewStore(q, c)[x] = q.seen[x]
        BY <2>3, <4>1, FilesTypes DEF NewStore
      <4>3. \A s \in Stores' : \E e \in Stores : e[x] = s[x]
        BY <4>1, <4>2
      <4>4. \A d \in Docs' : \E e \in Docs : e[x] = d[x]
        BY <4>1
      <4> QED BY <2>1, <3>1, <3>2, <3>3, <4>1, <4>3, <4>4, Untouched
    <3>5. CASE ~OfStore(q)
      <4>1. /\ q.seen \in Docs /\ Docs' \subseteq {NewDoc(q, c)} /\ Stores' \subseteq Stores
            /\ q.seen \in DocType /\ wiped' = wiped
            /\ asked' = (IF p \in Cli THEN [asked EXCEPT ![c] = doc'[c].kind] ELSE asked)
        BY <1>1, <1>2, <2>3, <3>5, WriteFiles, WriteTypes
      <4>2. NewDoc(q, c)[x] = q.seen[x]
        BY <2>3, <4>1, FilesTypes DEF NewDoc
      <4>3. \A d \in Docs' : \E e \in Docs : e[x] = d[x]
        BY <4>1, <4>2
      <4>4. \A s \in Stores' : \E e \in Stores : e[x] = s[x]
        BY <4>1
      <4>5. asked'[x] = asked[x]
        BY <2>3, <4>1 DEF Types, ConnTypeOK
      <4> QED BY <2>1, <3>1, <3>2, <3>3, <4>1, <4>3, <4>4, <4>5, Untouched
    <3> QED BY <3>4, <3>5
  <2> QED BY <2>2, <2>3
<1> QED BY <1>3, <1>4 DEF AllOK

\* A process gives a connection up with no grant in its hand, or the holder of one dies.
LEMMA GivenUp ==
    ASSUME Types, WholeFiles, Docs' \subseteq Docs, Stores' \subseteq Stores,
           NEW p \in Proc, NEW x \in Conn, ConnOK(x), Has(p, x),
           \A r \in Proc \ {p} : proc'[r] = proc[r],
           \A r \in Proc : Has(r, x)' =>
              r = p /\ p # Renewal /\ proc'[r].grant = 0 /\ proc'[r].key = 0 /\ ~Does(r, "forget")' /\ ~Does(r, "keep")',
           ref' = ref \/ ref' = RefIdle, wiped' = wiped, asked' = asked, spent' = spent, issued' = issued,
           x \in lost' \/ (lost' = lost /\ proc[p].grant = 0 /\ p # Renewal)
    PROVE  ConnOK(x)'
<1>1. HandsOK(x) /\ \A r \in Proc : Has(r, x) <=> r = p
  BY DEF ConnOK, HandsOK
<1>2. x \notin ref.todo /\ x \notin ref'.todo
  BY <1>1 DEF HandsOK, RefIdle
<1>3. ~Has(Renewal, x)' /\ ~Renewing(x)'
  BY <1>2, Constants DEF Renewing, Has
<1>4. issued[x] \in Nat /\ 0 <= issued[x] /\ 0 \notin spent[x]
  <2>1. issued[x] \in Nat
    BY Constants DEF Types, ConnTypeOK
  <2>2. spent[x] \subseteq 1..issued[x]
    BY <1>1 DEF HandsOK
  <2> QED BY <2>1, <2>2
<1>5. HandsOK(x)'
  BY <1>1, <1>2, <1>3, <1>4 DEF HandsOK
<1>6. ASSUME NEW d \in Docs', NEW s \in Stores'
      PROVE  WordOK(x, d[x], s[x])' /\ PairOK(x, d[x], s[x])'
  <2>1. WordOK(x, d[x], s[x]) /\ PairOK(x, d[x], s[x])
    BY DEF ConnOK
  <2>2. WordOK(x, d[x], s[x])'
    BY <1>3, <2>1 DEF WordOK
  <2>3. x \notin lost' => s[x].key \notin spent[x] /\ (d[x].kind = "signed" => d[x].grant = s[x].token)
    <3> SUFFICES ASSUME x \notin lost'
                 PROVE  s[x].key \notin spent[x] /\ (d[x].kind = "signed" => d[x].grant = s[x].token)
      OBVIOUS
    <3>1. proc[p].grant = 0 /\ p # Renewal /\ x \notin lost
      OBVIOUS
    <3>2. ~Does(p, "keep")
      <4>1. proc[p] # Idle
        BY DEF Has, Idle
      <4>2. BusyOK(proc[p])
        BY <4>1 DEF Types, ProcOK
      <4>3. proc[p].todo \in AppEdits
        BY <3>1, <4>2, Constants DEF BusyOK
      <4> QED BY <4>3, AppLists DEF Does, NextEdits
    <3>3. ~Has(Renewal, x) /\ \A r \in Proc : Has(r, x) => ~Does(r, "keep")
      BY <1>1, <3>1, <3>2, Constants
    <3> QED BY <2>1, <3>1, <3>3 DEF PairOK
  <2>4. PairOK(x, d[x], s[x])'
    BY <1>2, <2>1, <2>3 DEF PairOK
  <2> QED BY <2>2, <2>4
<1> QED BY <1>5, <1>6 DEF ConnOK

LEMMA DieStep ==
    ASSUME Types, AllOK, NEW p \in Proc, Die(p), ~raced'
    PROVE  AllOK'
<1>1. proc'[p] = Idle /\ \A r \in Proc \ {p} : proc'[r] = proc[r]
  BY DieTypes
<1>2. /\ doc' = doc /\ store' = store /\ spent' = spent /\ issued' = issued /\ asked' = asked /\ wiped' = wiped
      /\ crossed' = crossed /\ ref' = (IF p = Renewal THEN RefIdle ELSE ref)
      /\ lost' = (IF proc[p].grant > 0 THEN lost \cup proc[p].conn ELSE lost)
  BY DEF Die, providers
<1>3. \A r \in Proc : Writing(r)' => Writing(r) /\ proc'[r] = proc[r]
  BY <1>1 DEF Writing, Idle
<1>4. WholeFiles' /\ Docs' \subseteq Docs /\ Stores' \subseteq Stores
  BY <1>2, <1>3, SameWriters DEF AllOK
<1>5. ASSUME NEW x \in Conn \ crossed' PROVE ConnOK(x)'
  <2>1. ConnOK(x) /\ WholeFiles
    BY <1>2 DEF AllOK
  <2>2. CASE Has(p, x)
    <3>1. \A r \in Proc : ~Has(r, x)'
      BY <1>1, <2>1, <2>2 DEF ConnOK, HandsOK, Has, Idle
    <3>2. x \in lost' \/ (lost' = lost /\ proc[p].grant = 0 /\ p # Renewal)
      <4>1. proc[p] # Idle
        BY <2>2 DEF Has, Idle
      <4>2. proc[p].grant \in Nat
        <5>1. proc \in [Proc -> ProcType]
          BY DEF Types, ProcOK
        <5>2. proc[p].grant \in {0} \cup Grant
          BY <5>1 DEF ProcType
        <5> QED BY <5>2, GrantsAreNat
      <4>3. p = Renewal => proc[p].grant > 0
        BY <4>1 DEF Types, ProcOK
      <4> QED BY <1>2, <2>2, <4>2, <4>3 DEF Has
    <3> QED BY <1>1, <1>2, <1>4, <2>1, <2>2, <3>1, <3>2, GivenUp
  <2>3. CASE ~Has(p, x)
    <3>1. \A r \in Proc : Has(r, x)' <=> Has(r, x)
      BY <1>1, <2>3 DEF Has, Idle
    <3>2. \A r \in Proc : Has(r, x)' => proc'[r] = proc[r]
      BY <1>1, <2>3, <3>1
    <3>3. x \in ref'.todo => x \in ref.todo /\ ref'.keys[x] = ref.keys[x]
      BY <1>2 DEF RefIdle
    <3>4. x \in lost => x \in lost'
      BY <1>2
    <3> QED BY <1>2, <1>4, <2>1, <3>1, <3>2, <3>3, <3>4, HandsKept
  <2> QED BY <2>2, <2>3
<1> QED BY <1>4, <1>5 DEF AllOK

LEMMA ForgetDiesStep ==
    ASSUME Types, AllOK, NEW p \in Cli, ForgetDies(p), ~raced'
    PROVE  AllOK'
<1>1. /\ p \in Proc /\ p # Renewal /\ BusyOK(proc[p]) /\ proc[p].grant = 0
      /\ \A r \in Proc \ {p} : proc'[r] = proc[r]
      /\ \/ proc'[p] = Idle
         \/ /\ proc'[p].conn = proc[p].conn /\ proc'[p].key = 0 /\ proc'[p].grant = 0
            /\ proc'[p].at = "read" /\ ~Does(p, "forget")' /\ ~Does(p, "keep")'
  BY ForgetTypes, Constants
<1>2. /\ doc' = doc /\ store' = store /\ spent' = spent /\ issued' = issued /\ asked' = asked /\ wiped' = wiped
      /\ crossed' = crossed /\ ref' = ref /\ lost' = lost
  BY DEF ForgetDies, providers
<1>3. \A r \in Proc : Writing(r)' => Writing(r) /\ proc'[r] = proc[r]
  BY <1>1 DEF Writing, Idle
<1>4. WholeFiles' /\ Docs' \subseteq Docs /\ Stores' \subseteq Stores
  BY <1>2, <1>3, SameWriters DEF AllOK
<1>5. ASSUME NEW x \in Conn \ crossed' PROVE ConnOK(x)'
  <2>1. ConnOK(x) /\ WholeFiles
    BY <1>2 DEF AllOK
  <2>2. CASE Has(p, x)
    <3>1. \A r \in Proc : Has(r, x) => r = p
      BY <1>1, <2>1, <2>2 DEF ConnOK, HandsOK
    <3>2. \A r \in Proc : Has(r, x)' => r = p
      BY <1>1, <3>1 DEF Has
    <3>3. Has(p, x)' => proc'[p].grant = 0 /\ proc'[p].key = 0 /\ ~Does(p, "forget")' /\ ~Does(p, "keep")'
      BY <1>1 DEF Has, Idle
    <3> QED BY <1>1, <1>2, <1>4, <2>1, <2>2, <3>2, <3>3, GivenUp
  <2>3. CASE ~Has(p, x)
    <3>1. \A r \in Proc : Has(r, x)' <=> Has(r, x)
      BY <1>1, <2>3 DEF Has, Idle
    <3>2. \A r \in Proc : Has(r, x)' => proc'[r] = proc[r]
      BY <1>1, <2>3, <3>1
    <3> QED BY <1>2, <1>4, <2>1, <3>1, <3>2, HandsKept
  <2> QED BY <2>2, <2>3
<1> QED BY <1>4, <1>5 DEF AllOK

LEMMA PassStep ==
    ASSUME Types, AllOK, RefreshBegin
    PROVE  AllOK'
<1>1. Pass(ToRenew) /\ proc' = proc /\ proc[Renewal] = Idle /\ ref.todo = {}
  BY PassTypes DEF RefreshBegin, ToRenew
<1>2. /\ doc' = doc /\ store' = store /\ spent' = spent /\ issued' = issued /\ asked' = asked /\ wiped' = wiped
      /\ lost' = lost /\ crossed' = crossed \cup {c \in ToRenew : Commanded(c)}
      /\ ref'.todo = ToRenew /\ ref'.keys = [c \in Conn |-> IF c \in ToRenew THEN store[c].key ELSE 0]
  BY <1>1 DEF Pass, providers
<1>3. WholeFiles' /\ Docs' \subseteq Docs /\ Stores' \subseteq Stores
  BY <1>1, <1>2, SameWriters DEF AllOK, Writing
<1>4. ASSUME NEW x \in Conn \ crossed' PROVE ConnOK(x)'
  <2>1. ConnOK(x) /\ WholeFiles
    BY <1>2 DEF AllOK
  <2>2. \A r \in Proc : Has(r, x)' <=> Has(r, x)
    BY <1>1 DEF Has
  <2>3. CASE x \notin ToRenew
    BY <1>1, <1>2, <1>3, <2>1, <2>2, <2>3, HandsKept
  <2>4. CASE x \in ToRenew
    <3>1. /\ doc # TornFile /\ store # TornFile /\ Docs = {doc} /\ Stores = {store}
          /\ store[x].key > 0 /\ doc[x].kind \in {"bare", "signed", "pasted"}
      BY <2>1, <2>4, WholeDoc, WholeStore DEF ToRenew, Due, Live
    <3>2. \A r \in Proc : ~Has(r, x) /\ ~Has(r, x)'
      BY <1>1, <1>2, <2>2, <2>4, Constants DEF Commanded, Has, Idle
    <3>3. HandsOK(x) /\ WordOK(x, doc[x], store[x]) /\ PairOK(x, doc[x], store[x])
      BY <2>1, <3>1 DEF ConnOK
    <3>4. x \notin wiped
      BY <3>1, <3>3 DEF WordOK
    <3>5. ref'.keys[x] = store[x].key /\ store[x].key <= issued[x]
      BY <1>2, <2>4, <3>3 DEF PairOK
    <3>6. HandsOK(x)'
      BY <1>2, <3>2, <3>3, <3>4, <3>5, Constants DEF HandsOK
    <3>7. ASSUME NEW d \in Docs', NEW s \in Stores'
          PROVE  WordOK(x, d[x], s[x])' /\ PairOK(x, d[x], s[x])'
      <4>1. d = doc /\ s = store
        BY <1>3, <3>1
      <4>2. WordOK(x, d[x], s[x])'
        BY <1>2, <3>1, <3>2, <3>3, <4>1 DEF WordOK
      <4>3. PairOK(x, d[x], s[x])'
        BY <1>2, <3>2, <3>3, <3>5, <4>1, Constants DEF PairOK
      <4> QED BY <4>2, <4>3
    <3> QED BY <3>6, <3>7 DEF ConnOK
  <2> QED BY <2>3, <2>4
<1> QED BY <1>3, <1>4 DEF AllOK

\* The provider's answer, come or lost on the way: c is off the list, with a new grant.
LEMMA AskedStep ==
    ASSUME Types, AllOK, NEW c \in Conn, Asks(c), Issues(c),
           doc' = doc, store' = store, asked' = asked, wiped' = wiped, crossed' = crossed,
           \/ proc' = proc /\ lost' = lost \cup {c}
           \/ Renew(c)
    PROVE  AllOK'
<1>1. /\ proc[Renewal] = Idle /\ c \in ref.todo /\ ref'.todo = ref.todo \ {c} /\ ref'.keys = ref.keys
  BY AsksType
<1>2. /\ issued'[c] = issued[c] + 1 /\ \A x \in Conn \ {c} : issued'[x] = issued[x] /\ spent'[x] = spent[x]
      /\ spent'[c] = (IF c \in Rotating THEN spent[c] \cup {ref.keys[c]} ELSE spent[c])
      /\ ref.keys[c] \in Grant
  BY IssuesType
<1> DEFINE g == issued[c] + 1
           b == Busy(c, g, IF c \in Rotating THEN g ELSE 0, <<"sign", "keep">>)
<1>3. \/ proc' = proc /\ lost' = lost \cup {c}
      \/ proc'[Renewal] = b /\ (\A r \in Proc \ {Renewal} : proc'[r] = proc[r]) /\ lost' = lost
  BY RenewTypes DEF Renew, history
<1>4. /\ b.conn = {c} /\ b.grant = g /\ b.key = (IF c \in Rotating THEN g ELSE 0)
      /\ b.todo = <<"sign", "keep">> /\ b.at = "read"
  BY DEF Busy
<1>5. \A r \in Proc : Writing(r)' => Writing(r) /\ proc'[r] = proc[r]
  BY <1>3, <1>4 DEF Writing
<1>6. WholeFiles' /\ Docs' \subseteq Docs /\ Stores' \subseteq Stores
  BY <1>5, SameWriters DEF AllOK
<1>7. ASSUME NEW x \in Conn \ crossed' PROVE ConnOK(x)'
  <2>1. ConnOK(x) /\ WholeFiles
    BY DEF AllOK
  <2>2. CASE x # c
    <3>1. \A r \in Proc : Has(r, x)' <=> Has(r, x)
      BY <1>1, <1>3, <1>4, <2>2 DEF Has, Idle
    <3>2. \A r \in Proc : Has(r, x)' =>
              /\ proc'[r].grant = proc[r].grant /\ proc'[r].key = proc[r].key /\ proc'[r].todo = proc[r].todo
      BY <1>3, <1>4, <2>2 DEF Has
    <3>3. x \in ref'.todo => x \in ref.todo /\ ref'.keys[x] = ref.keys[x]
      BY <1>1
    <3> QED BY <1>2, <1>3, <1>6, <2>1, <2>2, <3>1, <3>2, <3>3, HandsKept
  <2>3. CASE x = c
    <3>1. HandsOK(c) /\ Renewing(c) /\ \A r \in Proc : ~Has(r, c)
      BY <1>1, <2>1, <2>3 DEF ConnOK, HandsOK, Renewing
    <3>2. \A r \in Proc : Has(r, c)' => r = Renewal /\ proc'[r] = b /\ lost' = lost
      BY <1>3, <3>1 DEF Has
    <3>3. /\ issued[c] \in Nat /\ issued'[c] \in Nat /\ issued[c] <= issued'[c] /\ g = issued'[c] /\ g # 0
          /\ ref.keys[c] \in Nat /\ ref.keys[c] > 0 /\ ref.keys[c] <= issued[c]
      <4>1. issued[c] \in Grant
        BY DEF Types, ConnTypeOK
      <4>2. issued[c] \in Nat /\ ref.keys[c] \in Nat /\ ref.keys[c] > 0
        BY <1>2, <4>1 DEF Grant
      <4>3. ref.keys[c] <= issued[c]
        BY <1>1, <3>1 DEF HandsOK
      <4> QED BY <1>2, <4>2, <4>3
    <3>4. spent'[c] \subseteq 1..issued[c] /\ (c \notin Rotating => spent'[c] = {})
      BY <1>2, <3>1, <3>3 DEF HandsOK
    <3>5. spent'[c] \subseteq 1..issued'[c] /\ g \notin spent'[c]
      BY <1>2, <3>3, <3>4
    <3>6. 0 \notin spent'[c]
      BY <3>3, <3>5
    <3>7. c \notin ref'.todo /\ c \notin wiped'
      BY <1>1, <3>1 DEF HandsOK
    <3>8. \A r \in Proc : Has(r, c)' => proc'[r].grant <= issued'[c] /\ proc'[r].key \notin spent'[c]
      BY <1>4, <3>2, <3>3, <3>5, <3>6
    <3>9. Has(Renewal, c)' => proc'[Renewal].key = (IF c \in Rotating THEN proc'[Renewal].grant ELSE 0)
      BY <1>4, <3>2, Constants
    <3>10. HandsOK(c)'
      BY <3>2, <3>4, <3>5, <3>7, <3>8, <3>9 DEF HandsOK
    <3>11. \A r \in Proc : Has(r, c)' => ~Does(r, "keep")' /\ ~Does(r, "forget")'
      <4>1. Head(<<"sign", "keep">>) = "sign"
        OBVIOUS
      <4> QED BY <1>4, <3>2, <4>1 DEF Does
    <3>12. ASSUME NEW d \in Docs', NEW s \in Stores'
           PROVE  WordOK(c, d[c], s[c])' /\ PairOK(c, d[c], s[c])'
      <4>1. WordOK(c, d[c], s[c]) /\ PairOK(c, d[c], s[c])
        BY <1>6, <2>1, <2>3 DEF ConnOK
      <4>2. d[c].kind \in {"bare", "signed", "pasted"}
        BY <3>1, <4>1 DEF WordOK
      <4>3. WordOK(c, d[c], s[c])'
        BY <3>11, <4>1, <4>2 DEF WordOK
      <4>4. s[c].key <= issued'[c]
        <5>1. s \in [Conn -> Records]
          BY <1>6, ContentTypes, FilesTypes
        <5>2. s[c].key \in {0} \cup Grant
          BY <5>1 DEF Records
        <5>3. s[c].key \in Nat
          BY <5>2, GrantsAreNat
        <5>4. s[c].key <= issued[c]
          BY <4>1 DEF PairOK
        <5> QED BY <3>3, <5>3, <5>4
      <4>5. c \notin lost' => Has(Renewal, c)'
        BY <1>3, <1>4 DEF Has
      <4>6. c \notin lost' => c \notin lost /\ (d[c].kind = "signed" => d[c].grant = s[c].token)
        BY <1>3, <3>1, <4>1 DEF PairOK
      <4>7. PairOK(c, d[c], s[c])'
        BY <3>7, <3>11, <4>4, <4>5, <4>6 DEF PairOK
      <4> QED BY <4>3, <4>7
    <3> QED BY <2>3, <3>10, <3>12 DEF ConnOK
  <2> QED BY <2>2, <2>3
<1> QED BY <1>6, <1>7 DEF AllOK

LEMMA OtherStep ==
    ASSUME Types, AllOK,
           \/ RefreshEnd
           \/ \E c \in Conn : RenewFails(c) \/ Lapse(c)
    PROVE  AllOK'
<1>1. /\ doc' = doc /\ store' = store /\ proc' = proc /\ asked' = asked /\ wiped' = wiped
      /\ crossed' = crossed /\ lost' = lost /\ spent' = spent /\ issued' = issued
  BY DEF RefreshEnd, RenewFails, Lapse, history, providers
<1>2. \A x \in ref'.todo : x \in ref.todo /\ ref'.keys[x] = ref.keys[x]
  <2>1. CASE RefreshEnd
    BY <2>1 DEF RefreshEnd, RefIdle
  <2>2. ASSUME NEW c \in Conn, RenewFails(c)
        PROVE  \A x \in ref'.todo : x \in ref.todo /\ ref'.keys[x] = ref.keys[x]
    BY <2>2, AsksType DEF RenewFails
  <2>3. ASSUME NEW c \in Conn, Lapse(c)
        PROVE  \A x \in ref'.todo : x \in ref.todo /\ ref'.keys[x] = ref.keys[x]
    BY <2>3 DEF Lapse
  <2> QED BY <2>1, <2>2, <2>3
<1>3. WholeFiles' /\ Docs' \subseteq Docs /\ Stores' \subseteq Stores
  BY <1>1, SameWriters DEF AllOK, Writing
<1>4. ASSUME NEW x \in Conn \ crossed' PROVE ConnOK(x)'
  <2>1. ConnOK(x) /\ WholeFiles
    BY <1>1 DEF AllOK
  <2>2. \A r \in Proc : Has(r, x)' <=> Has(r, x)
    BY <1>1 DEF Has
  <2> QED BY <1>1, <1>2, <1>3, <2>1, <2>2, HandsKept
<1> QED BY <1>3, <1>4 DEF AllOK
-----------------------------------------------------------------------------
(* The invariant.                                                              *)

LEMMA ConnInitOK == ConnInit => ConnectionsInv
<1> SUFFICES ASSUME ConnInit PROVE ConnectionsInv
  OBVIOUS
<1>1. \A p \in Proc : proc[p] = Idle
  BY DEF ConnInit
<1>2. \A c \in Conn : /\ doc[c] = Entry("signed", 1) /\ store[c] = Kept(1, 1)
                      /\ issued[c] = 1 /\ spent[c] = {} /\ asked[c] = "signed"
  BY DEF ConnInit
<1>3. Entry("signed", 1) \in Entries /\ Kept(1, 1) \in Records
  BY Constants DEF Entry, Entries, EntryKind, Kept, Records
<1>4. doc \in DocType /\ store \in StoreType /\ doc # TornFile /\ store # TornFile
  BY <1>3, FilesTypes DEF ConnInit
<1>5. /\ RefIdle.pc = "idle" /\ RefIdle.todo = {} /\ RefIdle.keys \in [Conn -> {0} \cup Grant]
      /\ RefIdle \in [pc : {"idle", "renew"}, keys : [Conn -> {0} \cup Grant], todo : SUBSET Conn]
  BY DEF RefIdle
<1>6. /\ Idle.conn = {} /\ Idle.grant = 0 /\ Idle.key = 0 /\ Idle.at = "read"
  BY DEF Idle
<1>7. RefOK
  BY <1>1, <1>5, Constants DEF RefOK, ConnInit
<1>8. ProcOK
  <2>1. proc \in [Proc -> ProcType]
    BY IdleType DEF ConnInit
  <2> QED BY <1>1, <1>6, <2>1, Constants DEF ProcOK
<1>9. ConnTypeOK
  <2>1. \A p \in Proc :
          /\ proc[p].conn \subseteq Conn /\ (proc[p].conn = {} <=> proc[p] = Idle)
          /\ proc[p].at \in {"read", "truncate", "write"} /\ {proc[p].grant, proc[p].key} \subseteq {0} \cup Grant
    BY <1>1, <1>6
  <2>2. ref.pc \in {"idle", "renew"} /\ ref.todo \subseteq Conn
    BY <1>5 DEF ConnInit
  <2>3. issued \in [Conn -> Grant] /\ spent \in [Conn -> SUBSET Grant] /\ lapsed \in [Conn -> SUBSET Grant]
    BY Constants DEF ConnInit
  <2>4. calls \in 0..MaxCalls /\ failures \in 0..MaxFailures
    BY Constants DEF ConnInit
  <2>5. asked \in [Conn -> EntryKind] /\ wiped \cup crossed \cup lost \subseteq Conn /\ raced \in BOOLEAN
    BY DEF ConnInit, EntryKind
  <2> QED BY <1>4, <2>1, <2>2, <2>3, <2>4, <2>5 DEF ConnTypeOK
<1>10. WholeFiles
  BY <1>1, <1>6 DEF WholeFiles, Writing
<1>11. ASSUME NEW c \in Conn PROVE ConnOK(c)
  <2>1. \A p \in Proc : ~Has(p, c)
    BY <1>1, <1>6 DEF Has
  <2>2. ref.todo = {} /\ ~Renewing(c) /\ lost = {} /\ wiped = {}
    BY <1>5, <2>1, Constants DEF Renewing, Has, ConnInit
  <2>3. HandsOK(c)
    BY <1>2, <2>1, <2>2, Constants DEF HandsOK
  <2>4. Docs = {doc} /\ Stores = {store}
    BY <1>4, <1>10, WholeDoc, WholeStore
  <2>5. WordOK(c, doc[c], store[c])
    BY <1>2, <2>1, <2>2 DEF WordOK, Entry
  <2>6. PairOK(c, doc[c], store[c])
    BY <1>2, <2>1, <2>2 DEF PairOK, Entry, Kept
  <2> QED BY <2>3, <2>4, <2>5, <2>6 DEF ConnOK
<1> QED BY <1>7, <1>8, <1>9, <1>10, <1>11 DEF ConnectionsInv, Types, AllOK

LEMMA ConnStep == ConnectionsInv /\ [ConnNext]_connVars => ConnectionsInv'
<1> SUFFICES ASSUME ConnectionsInv, [ConnNext]_connVars PROVE ConnectionsInv'
  OBVIOUS
<1>1. CASE ConnNext
  <2>1. Types /\ Types' /\ AllOK
    BY <1>1, ConnTypeStep DEF ConnectionsInv, ConnNext
  <2> SUFFICES ASSUME ~raced' PROVE AllOK'
    BY <2>1 DEF ConnectionsInv
  <2>2. ASSUME NEW c \in Conn, SignIn(c) \/ Remove(c) \/ Add(c) \/ AddCustom(c) PROVE AllOK'
    BY <2>1, <2>2, CommandStep
  <2>3. ASSUME NEW p \in Proc, Step(p) PROVE AllOK'
    BY <2>1, <2>3, ReadStep, TruncateStep, WriteStep DEF Step
  <2>4. ASSUME NEW p \in Proc, Die(p) PROVE AllOK'
    BY <2>1, <2>4, DieStep
  <2>5. ASSUME NEW p \in Cli, ForgetDies(p) PROVE AllOK'
    BY <2>1, <2>5, ForgetDiesStep
  <2>6. CASE RefreshBegin
    BY <2>1, <2>6, PassStep
  <2>7. ASSUME NEW c \in Conn, Renew(c) PROVE AllOK'
    <3>1. Asks(c) /\ Issues(c) /\ doc' = doc /\ store' = store /\ asked' = asked /\ wiped' = wiped /\ crossed' = crossed
      BY <2>7 DEF Renew, history
    <3> QED BY <2>1, <2>7, <3>1, AskedStep
  <2>8. ASSUME NEW c \in Conn, AnswerLost(c) PROVE AllOK'
    <3>1. /\ Asks(c) /\ Issues(c) /\ doc' = doc /\ store' = store /\ asked' = asked /\ wiped' = wiped
          /\ crossed' = crossed /\ proc' = proc /\ lost' = lost \cup {c}
      BY <2>8 DEF AnswerLost
    <3> QED BY <2>1, <3>1, AskedStep
  <2>9. ASSUME RefreshEnd \/ \E c \in Conn : RenewFails(c) \/ Lapse(c) PROVE AllOK'
    BY <2>1, <2>9, OtherStep
  <2> QED BY <1>1, <2>2, <2>3, <2>4, <2>5, <2>6, <2>7, <2>8, <2>9 DEF ConnNext, Refresh
<1>2. CASE UNCHANGED connVars
  <2>1. /\ doc' = doc /\ store' = store /\ proc' = proc /\ ref' = ref /\ issued' = issued /\ spent' = spent
        /\ lapsed' = lapsed /\ calls' = calls /\ failures' = failures /\ asked' = asked /\ wiped' = wiped
        /\ crossed' = crossed /\ lost' = lost /\ raced' = raced
    BY <1>2 DEF connVars, providers, history
  <2>2. Types'
    BY <2>1 DEF ConnectionsInv, Types, ConnTypeOK, ProcOK, RefOK
  <2>3. AllOK => AllOK'
    <3> SUFFICES ASSUME AllOK PROVE AllOK'
      OBVIOUS
    <3>1. WholeFiles' /\ Docs' \subseteq Docs /\ Stores' \subseteq Stores
      BY <2>1, SameWriters DEF AllOK, Writing
    <3>2. ASSUME NEW x \in Conn \ crossed' PROVE ConnOK(x)'
      <4>1. ConnOK(x) /\ WholeFiles
        BY <2>1 DEF AllOK
      <4>2. \A r \in Proc : Has(r, x)' <=> Has(r, x)
        BY <2>1 DEF Has
      <4> QED BY <2>1, <3>1, <4>1, <4>2, HandsKept DEF ConnectionsInv
    <3> QED BY <3>1, <3>2 DEF AllOK
  <2> QED BY <2>1, <2>2, <2>3 DEF ConnectionsInv
<1> QED BY <1>1, <1>2

LEMMA ConnectionsCorrect == ConnSpec => []ConnectionsInv
BY ConnInitOK, ConnStep, PTL DEF ConnSpec

\* The last command on a connection has the last word, whatever is renewed meanwhile
\* (mcp-refresh's skips, mcp-token's set and forget, mcp-connect's commands).
THEOREM LastWordIsKept == ConnSpec => []ConnInv
<1>1. ConnectionsInv => ConnInv
  <2> SUFFICES ASSUME ConnectionsInv PROVE ConnInv
    OBVIOUS
  <2>1. ConnTypeOK
    BY DEF ConnectionsInv, Types
  <2>2. ASSUME NEW c \in Conn, Undisturbed(c)
        PROVE  WordOK(c, doc[c], store[c])
    <3>1. ConnOK(c) /\ doc \in Docs /\ store \in Stores
      BY <2>2 DEF Undisturbed, ConnectionsInv, AllOK, Docs, Stores
    <3> QED BY <3>1 DEF ConnOK
  <2>3. LastWordKept
    BY <2>2 DEF LastWordKept, WordOK
  <2> QED BY <2>1, <2>3 DEF ConnInv
<1> QED BY <1>1, ConnectionsCorrect, PTL

\* Header and refresh token are of one sign-in, and the provider still takes the token,
\* for every provider and any number of renewals (mcp-refresh, mcp-token's set).
THEOREM SignInIsKept == ConnSpec => []SignInKept
<1>1. ConnectionsInv => SignInKept
  <2> SUFFICES ASSUME ConnectionsInv, NEW c \in Conn \ (lost \cup proc[Renewal].conn),
                      Undisturbed(c)
               PROVE  /\ store[c].key \notin spent[c]
                      /\ doc[c].kind = "signed" => doc[c].grant = store[c].token
    BY DEF SignInKept
  <2>1. ConnOK(c) /\ doc \in Docs /\ store \in Stores
    BY DEF Undisturbed, ConnectionsInv, AllOK, Docs, Stores
  <2>2. PairOK(c, doc[c], store[c])
    BY <2>1 DEF ConnOK
  <2>3. \A p \in Proc : ~Has(p, c)
    BY Constants DEF Undisturbed, Commanded, Has
  <2> QED BY <2>2, <2>3, Constants DEF PairOK
<1> QED BY <1>1, ConnectionsCorrect, PTL
=============================================================================
