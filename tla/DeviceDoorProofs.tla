---------------------------- MODULE DeviceDoorProofs ----------------------------
(***************************************************************************)
(* Proofs about the roster and the door, for any devices, commands and     *)
(* faults.  Nothing is locked, so the argument is about what a process      *)
(* still knows when it writes.  Unless a row was written by two processes   *)
(* across each other (`raced') or used or left torn (`halved'), a row read  *)
(* is the row on disk until its file is truncated, one process alone holds  *)
(* a truncated row, and a process about to put a row knows it to be absent. *)
(* What a truncated row stands for is the row its writer has in hand.       *)
(***************************************************************************)
EXTENDS DeviceDoor, TLAPS

Writes(p, d) == proc[p].pc = "write" /\ proc[p].dev = d
Sound == Device \ (raced \cup halved)

\* Which operations come to which place, and that a command not yet given is idle.
Places ==
    /\ \A p \in Proc :
        /\ proc[p].pc = "idle" => proc[p] = Idle
        /\ proc[p].pc # "idle" => proc[p].op # "none"
        /\ proc[p].pc \in {"read", "truncate"} =>
              proc[p].op \in {"revoke", "rename", "cascade", "drain"} /\ proc[p].todo # {}
        /\ proc[p].pc \in {"truncate", "write"} =>
              proc[p].dev \in proc[p].todo /\ proc[p].row \in RowType /\ proc[p].row.status # "none"
        /\ proc[p].pc = "write" => proc[p].op \in {"revoke", "rename", "cascade", "drain", "add", "sync"}
        /\ proc[p].op \in {"add", "sync"} /\ proc[p].pc = "write" => proc[p].dev \notin proc[p].lines
        /\ proc[p].op \in {"add", "sync"} /\ proc[p].pc \in {"put", "write"} => proc[p].lines \subseteq halved
        /\ proc[p].pc = "cascade" => proc[p].op = "cascade"
        /\ proc[p].pc = "put" => proc[p].op \in {"add", "sync"}
        /\ proc[p].pc \in {"gate", "list", "prev", "fill"} => proc[p].op = "sync" /\ proc[p].todo = {}
        /\ proc[p].pc = "empty" => proc[p].op = "drain" /\ proc[p].todo = {}
        /\ proc[p].op = "add" => \E d \in Device : proc[p].todo = {d}
        /\ proc[p].op = "drain" => p = Drainer /\ proc[p].pc \in {"read", "truncate", "write", "empty"}
        /\ proc[p].op = "cascade" => p \in Cli /\ proc[p].pc \in {"cascade", "read", "truncate", "write"}
        /\ p = Drainer => proc[p].op \in {"none", "drain"}
    /\ \A p \in Cli : p > calls => proc[p].pc = "idle"

\* What a process holds is what is on disk, and a truncated row is held by one.
InHand ==
    \A p \in Proc : \A d \in Sound :
        /\ proc[p].pc = "truncate" /\ proc[p].dev = d => proc[p].row = rows[d] /\ rows[d].key
        /\ proc[p].op \in {"add", "sync"} /\ d \in proc[p].todo \ proc[p].lines /\ ~Writes(p, d) =>
              rows[d].status = "none"
        /\ Writes(p, d) => rows[d] = Husk /\ \A q \in Proc \ {p} : ~Holds(q, d)

\* What is revoked is revoked on disk, or in the hand of its one writer.
Rows ==
    /\ \A d \in Device : rows[d].status = "none" => rows[d] = NoRow
    /\ twin \subseteq halved
    /\ \A d \in cut \cap Sound :
        /\ rows[d].status = "revoked" \/ \E p \in Proc : Writes(p, d)
        /\ \A p \in Proc : Writes(p, d) => proc[p].op \notin {"add", "sync"} /\ proc[p].row.status = "revoked"

\* Only a process that looked in between is to write nothing into an empty door.
Door ==
    /\ \A p \in Proc : At(p, "fill") /\ proc[p].lines = {} => peeked
    /\ DoorKept

\* The rows a device has, on disk or in the hand of a writer.
Has(d, r) ==
    \/ d \notin Keyless /\ r = rows[d]
    \/ \E p \in Proc : Writes(p, d) /\ r = proc[p].row

\* The log holds the last sighting until the drain that took it has stamped it.
Log ==
    /\ \A d \in Device :
        /\ log[d] > 0 => log[d] = sighted[d]
        /\ proc[Drainer].op = "drain" /\ d \in proc[Drainer].todo => log[d] > 0
    /\ \A d \in Sound \ missed : \A r \in RowType : Has(d, r) =>
        /\ r.seen < sighted[d] => log[d] > 0
        /\ proc[Drainer].op = "drain" /\ took[d] > 0 /\ d \notin proc[Drainer].todo => r.seen >= took[d]

\* A row being renamed or stamped is as active as it was.
Live ==
    Active \cup {d \in Device : \E p \in Proc :
        Writes(p, d) /\ proc[p].op \in {"rename", "drain"} /\ proc[p].row.status = "active"}

\* A cascade has in hand what it has not cut.
Cut ==
    /\ \A p \in Cli : proc[p].op = "cascade" => ~granted
    /\ \A p \in Cli : proc[p].op = "cascade" /\ proc[p].pc # "cascade" =>
           \A d \in OfAccount \cap Live : d \in proc[p].todo \cup left \cup raced \cup halved
    /\ ~granted => \/ \E p \in Cli : proc[p].op = "cascade"
                   \/ \A d \in OfAccount \cap Live : d \in left \cup raced \cup halved

IInv == TypeOK /\ Places /\ InHand /\ Rows /\ Door /\ Log /\ Cut
-----------------------------------------------------------------------------
(* Initially.                                                                  *)

LEMMA IInvInit == Init => IInv
<1> USE DeviceAssumption, ProcAssumption, CountAssumption DEF DeviceAssumption, ProcAssumption, CountAssumption
<1> SUFFICES ASSUME Init PROVE IInv
  OBVIOUS
<1>0. /\ MaxCalls \in Nat /\ MaxSeen \in Nat /\ MaxFaults \in Nat
      /\ Cli \subseteq Proc /\ Ticker \in Proc /\ Drainer \in Proc
  BY DEF Proc
<1>1. Idle \in Process
  BY DEF Idle, Busy, Process
<1>2. /\ rows = [d \in Device |-> IF d \in Mine THEN Row("active", 0, TRUE) ELSE NoRow]
      /\ \A d \in Device : rows[d] \in RowType /\ rows[d].seen = 0 /\ (rows[d].status = "none" => rows[d] = NoRow)
  BY <1>0 DEF Init, Row, NoRow, RowType
<1>3. \A p \in Proc : proc[p] = Idle
  BY DEF Init
<1>4. \A d \in Device : log[d] = 0 /\ sighted[d] = 0 /\ took[d] = 0
  BY DEF Init
<1>5. TypeOK
  <2>1. rows \in [Device -> RowType] /\ proc \in [Proc -> Process]
    BY <1>1, <1>2 DEF Init
  <2>2. log \in [Device -> 0..MaxSeen] /\ took = log /\ sighted = log
    BY <1>0 DEF Init
  <2>3. calls \in 0..MaxCalls /\ faults \in 0..MaxFaults
    BY <1>0 DEF Init
  <2> QED BY <2>1, <2>2, <2>3 DEF Init, TypeOK
<1>a. \A p \in Proc : proc[p].pc = "idle" /\ proc[p].op = "none" /\ \A d : ~Writes(p, d)
  BY <1>3 DEF Idle, Busy, Writes
<1>6. Places
  BY <1>0, <1>3, <1>a DEF Places
<1>7. InHand
  BY <1>a DEF InHand
<1>8. Rows
  BY <1>2 DEF Rows, Init
<1>9. Door
  BY <1>a DEF Door, DoorKept, At, Init
<1>10. Log
  <2>1. \A d \in Device, r \in RowType : Has(d, r) => r.seen = 0
    BY <1>2, <1>a DEF Has
  <2> QED BY <1>0, <1>4, <1>a, <2>1 DEF Log, Sound
<1>11. Cut
  BY <1>0, <1>a DEF Cut, Init
<1> QED BY <1>5, <1>6, <1>7, <1>8, <1>9, <1>10, <1>11 DEF IInv
-----------------------------------------------------------------------------
(* A step of one process, part by part.                                        *)

\* It touches neither the door nor its own place there.
LEMMA DoorAside ==
    ASSUME Door, NEW p \in Proc, proc[p].pc # "fill", proc'[p].pc # "fill",
           \A q \in Proc \ {p} : proc'[q] = proc[q], UNCHANGED <<door, peeked>>
    PROVE  Door'
<1>1. ASSUME NEW q \in Proc, proc'[q].pc = "fill" PROVE proc'[q] = proc[q]
  BY <1>1
<1>2. ASSUME NEW q \in Proc, proc[q].pc = "fill" PROVE proc'[q] = proc[q]
  BY <1>2
<1>3. (\A q \in Proc : At(q, "fill") /\ proc[q].lines = {} => peeked)'
  BY <1>1 DEF Door, At
<1>4. DoorKept'
  <2>1. CASE door = {} /\ ~peeked
    <3>1. PICK q \in Proc : proc[q].pc = "fill"
      BY <2>1 DEF Door, DoorKept, At
    <3> QED BY <1>2, <3>1 DEF DoorKept, At
  <2> QED BY <2>1 DEF Door, DoorKept
<1> QED BY <1>3, <1>4 DEF Door

\* Each row held after it was held before with the same stamp, or is the drain's.
LEMMA LogAside ==
    ASSUME TypeOK, Log, UNCHANGED <<log, took, sighted>>,
           missed \subseteq missed', raced \subseteq raced', halved \subseteq halved',
           proc'[Drainer].op = "drain" =>
               proc[Drainer].op = "drain" /\ proc'[Drainer].todo \subseteq proc[Drainer].todo,
           \A d \in Sound' \ missed' : \A r \in RowType : Has(d, r)' =>
               \/ log[d] > 0 /\ r.seen >= took[d]
               \/ /\ \E s \in RowType : Has(d, s) /\ s.seen = r.seen
                  /\ proc'[Drainer].op = "drain" /\ d \notin proc'[Drainer].todo => d \notin proc[Drainer].todo
    PROVE  Log'
<1>1. Sound' \ missed' \subseteq Sound \ missed
  BY DEF Sound
<1>2. \A d \in Device :
        /\ log'[d] > 0 => log'[d] = sighted'[d]
        /\ proc'[Drainer].op = "drain" /\ d \in proc'[Drainer].todo => log'[d] > 0
  BY DEF Log
<1>3. ASSUME NEW d \in Sound' \ missed', NEW r \in RowType, Has(d, r)'
      PROVE  /\ r.seen < sighted'[d] => log'[d] > 0
             /\ proc'[Drainer].op = "drain" /\ took'[d] > 0 /\ d \notin proc'[Drainer].todo => r.seen >= took'[d]
  <2>1. CASE log[d] > 0 /\ r.seen >= took[d]
    BY <2>1
  <2>2. CASE /\ \E s \in RowType : Has(d, s) /\ s.seen = r.seen
             /\ proc'[Drainer].op = "drain" /\ d \notin proc'[Drainer].todo => d \notin proc[Drainer].todo
    BY <1>1, <1>3, <2>2 DEF Log
  <2> QED BY <1>3, <2>1, <2>2
<1> QED BY <1>2, <1>3 DEF Log

\* No device of the account comes to life unnoticed, and a cascade drops none alive.
LEMMA CutAside ==
    ASSUME Cut, NEW p \in Proc, \A q \in Proc \ {p} : proc'[q] = proc[q],
           granted' = granted, left \subseteq left', raced \subseteq raced', halved \subseteq halved',
           \A d \in OfAccount \cap Live' : d \in Live \cup left' \cup raced' \cup halved' \/ granted,
           proc'[p].op = "cascade" => proc[p].op = "cascade" /\ (proc'[p].pc # "cascade" => proc[p].pc # "cascade"),
           proc[p].op = "cascade" /\ proc'[p].op # "cascade" => p \in Cli /\ proc[p].pc # "cascade",
           proc[p].op = "cascade" => \A d \in OfAccount \cap Live' \cap proc[p].todo :
               d \in left' \cup raced' \cup halved' \/ (proc'[p].op = "cascade" /\ d \in proc'[p].todo)
    PROVE  Cut'
<1>0. Cli \subseteq Proc
  BY DEF Proc
<1>1. ASSUME NEW q \in Cli, proc'[q].op = "cascade" PROVE proc[q].op = "cascade" /\ ~granted'
  BY <1>0, <1>1 DEF Cut
<1>2. ASSUME NEW q \in Cli, proc'[q].op = "cascade", proc'[q].pc # "cascade", NEW d \in OfAccount \cap Live'
      PROVE  d \in proc'[q].todo \cup left' \cup raced' \cup halved'
  <2>1. proc[q].op = "cascade" /\ proc[q].pc # "cascade" /\ ~granted
    BY <1>0, <1>1, <1>2
  <2>2. d \in proc[q].todo \cup left' \cup raced' \cup halved'
    BY <1>2, <2>1 DEF Cut
  <2> QED BY <1>0, <1>2, <2>1, <2>2
<1>3. ~granted' => \/ \E q \in Cli : proc'[q].op = "cascade"
                   \/ \A d \in OfAccount \cap Live' : d \in left' \cup raced' \cup halved'
  <2>1. CASE proc[p].op = "cascade" /\ proc'[p].op # "cascade"
    <3>1. \A d \in OfAccount \cap Live : d \in proc[p].todo \cup left \cup raced \cup halved
      BY <2>1 DEF Cut
    <3> QED BY <2>1, <3>1
  <2>2. CASE ~(proc[p].op = "cascade" /\ proc'[p].op # "cascade")
    <3>1. \A q \in Cli : proc[q].op = "cascade" => proc'[q].op = "cascade"
      BY <1>0, <2>2
    <3> QED BY <3>1 DEF Cut
  <2> QED BY <2>1, <2>2
<1> QED BY <1>1, <1>2, <1>3 DEF Cut

\* A process that holds no row after, and none it did not hold before.
LEMMA InHandAside ==
    ASSUME InHand, NEW p \in Proc, \A q \in Proc \ {p} : proc'[q] = proc[q], UNCHANGED rows,
           raced \subseteq raced', halved \subseteq halved',
           proc'[p].pc \notin {"truncate", "write"}, proc[p].pc # "write",
           proc'[p].op \in {"add", "sync"} => \A d \in (proc'[p].todo \ proc'[p].lines) \cap Sound' : rows[d].status = "none"
    PROVE  InHand'
<1>0. Sound' \subseteq Sound
  BY DEF Sound
<1>1. ASSUME NEW q \in Proc, NEW d \in Sound'
      PROVE  /\ proc'[q].pc = "truncate" /\ proc'[q].dev = d => proc'[q].row = rows'[d] /\ rows'[d].key
             /\ proc'[q].op \in {"add", "sync"} /\ d \in proc'[q].todo \ proc'[q].lines /\ ~Writes(q, d)' =>
                   rows'[d].status = "none"
  <2>1. CASE q = p
    BY <1>1, <2>1
  <2>2. CASE q # p
    BY <1>0, <1>1, <2>2 DEF InHand, Writes
  <2> QED BY <2>1, <2>2
<1>2. ASSUME NEW q \in Proc, NEW d \in Sound', Writes(q, d)'
      PROVE  rows'[d] = Husk /\ \A x \in Proc \ {q} : ~Holds(x, d)'
  <2>1. q # p /\ Writes(q, d) /\ rows[d] = Husk /\ \A x \in Proc \ {q} : ~Holds(x, d)
    BY <1>0, <1>2 DEF InHand, Writes
  <2>2. ~Holds(p, d)'
    <3>1. Husk.status # "none"
      BY DEF Husk, Row
    <3> QED BY <2>1, <3>1 DEF Holds
  <2>3. ASSUME NEW x \in Proc \ {q}, x # p PROVE ~Holds(x, d)'
    BY <2>1, <2>3 DEF Holds
  <2> QED BY <2>1, <2>2, <2>3
<1> QED BY <1>1, <1>2 DEF InHand

\* The rows stay, and so do those in the hand of the writers.
LEMMA Aside ==
    ASSUME NEW p \in Proc, \A q \in Proc \ {p} : proc'[q] = proc[q], UNCHANGED <<rows, twin>>,
           proc'[p].pc # "write", proc[p].pc # "write", halved \subseteq halved', raced \subseteq raced', cut' = cut
    PROVE  /\ Live' = Live /\ (Rows => Rows')
           /\ \A d, r : Has(d, r)' => Has(d, r)
<1>1. \A q \in Proc : \A d : Writes(q, d)' <=> Writes(q, d)
  BY DEF Writes
<1>2. \A q \in Proc : \A d : Writes(q, d) => proc'[q] = proc[q]
  BY DEF Writes
<1>3. Live' = Live
  BY <1>1, <1>2 DEF Live, Active, Opening, Keyed
<1>4. Rows => Rows'
  <2>1. Sound' \subseteq Sound
    BY DEF Sound
  <2> QED BY <1>1, <1>2, <2>1 DEF Rows
<1>5. \A d, r : Has(d, r)' => Has(d, r)
  BY <1>1, <1>2 DEF Has, Keyless, Files, Keyed
<1> QED BY <1>3, <1>4, <1>5
-----------------------------------------------------------------------------
(* The commands.                                                               *)

\* A command is given: its process was idle, and begins with nothing in hand.
LEMMA StartStep ==
    ASSUME IInv, NEW p \in Cli,
           RevokeAccount(p) \/ \E d \in Device : Add(p, d) \/ Revoke(p, d) \/ Rename(p, d)
    PROVE  IInv'
<1> USE ProcAssumption, CountAssumption DEF ProcAssumption, CountAssumption, IInv
<1>0. /\ MaxCalls \in Nat /\ p \in Proc /\ p \in Nat /\ Drainer \in Proc /\ p # Drainer /\ Cli \subseteq Proc
      /\ p = calls + 1 /\ calls' = p /\ calls \in Nat
  <2>1. p = calls + 1 /\ calls' = p
    BY DEF RevokeAccount, Add, Revoke, Rename, Called
  <2>2. MaxCalls \in Nat /\ Drainer \notin Cli /\ p \in 1..MaxCalls /\ calls \in 0..MaxCalls
    BY DEF Cli, TypeOK
  <2> QED BY <2>1, <2>2 DEF Proc
<1>1. proc[p] = Idle
  BY <1>0 DEF Places, Cli
<1>2. UNCHANGED <<rows, twin, door, seenVars, shut, faults, history>>
  BY DEF RevokeAccount, Add, Revoke, Rename
<1> DEFINE Given(op, pc, todo) ==
        /\ proc' = [proc EXCEPT ![p] = Busy(op, pc, todo)]
        /\ \/ op = "add" /\ pc = "put" /\ \E d \in Device : todo = {d} /\ rows[d].status = "none"
           \/ op \in {"revoke", "rename"} /\ pc = "read" /\ \E d \in Device : todo = {d}
           \/ op = "cascade" /\ pc = "cascade" /\ todo = {}
        /\ IF op = "cascade" THEN granted /\ ~granted' ELSE granted' = granted
<1>3. PICK op, pc, todo : Given(op, pc, todo)
  <2>1. ASSUME RevokeAccount(p) PROVE Given("cascade", "cascade", {})
    BY <2>1 DEF RevokeAccount, Starts
  <2>2. ASSUME NEW d \in Device, Add(p, d) PROVE Given("add", "put", {d})
    BY <2>2 DEF Add, Starts
  <2>3. ASSUME NEW d \in Device, Revoke(p, d) PROVE Given("revoke", "read", {d})
    BY <2>3 DEF Revoke, Starts
  <2>4. ASSUME NEW d \in Device, Rename(p, d) PROVE Given("rename", "read", {d})
    BY <2>4 DEF Rename, Starts
  <2> HIDE DEF Given
  <2> QED BY <2>1, <2>2, <2>3, <2>4
<1> DEFINE r == Busy(op, pc, todo)
<1>4. proc' = [proc EXCEPT ![p] = r] /\ r \in Process
  BY <1>3 DEF Busy, Process
<1>5. proc'[p] = r /\ \A q \in Proc \ {p} : proc'[q] = proc[q]
  BY <1>0, <1>4 DEF TypeOK
<1>6. TypeOK'
  <2>0. p \in 1..MaxCalls
    BY DEF Cli
  <2>1. calls' \in 0..MaxCalls
    BY <1>0, <2>0
  <2>3. granted' \in BOOLEAN
    BY <1>3 DEF TypeOK, RevokeAccount, Add, Revoke, Rename
  <2>2. proc' \in [Proc -> Process]
    BY <1>4 DEF TypeOK
  <2> QED BY <1>2, <2>1, <2>2, <2>3 DEF TypeOK, seenVars, history
<1>a. proc'[p].op = op /\ proc'[p].pc = pc /\ proc'[p].todo = todo /\ proc'[p].lines = {}
      /\ proc[p].pc = "idle" /\ proc[p].op = "none"
  BY <1>1, <1>5 DEF Busy, Idle
<1> HIDE DEF r
<1>7. Places'
  <2>2. \A q \in Cli : q > calls' => proc'[q].pc = "idle"
    BY <1>0, <1>5 DEF Places, Cli
  <2> QED BY <1>0, <1>2, <1>3, <1>5, <1>a, <2>2 DEF Places, history
<1>b. UNCHANGED <<rows, twin, log, took, sighted, missed, raced, halved, cut, left, door, peeked>>
  BY <1>2 DEF seenVars, history
<1>8. InHand'
  BY <1>0, <1>3, <1>5, <1>a, <1>b, InHandAside
<1>c. Live' = Live /\ Rows' /\ \A d, s : Has(d, s)' => Has(d, s)
  BY <1>0, <1>3, <1>5, <1>a, <1>b, Aside
<1>10. Door'
  BY <1>0, <1>3, <1>5, <1>a, <1>b, DoorAside
<1>11. Log'
  <2>1. proc'[Drainer] = proc[Drainer]
    BY <1>0, <1>5
  <2> QED BY <1>b, <1>c, <2>1, LogAside DEF Sound
<1>12. Cut'
  <2>1. CASE granted' = granted
    BY <1>0, <1>3, <1>5, <1>a, <1>b, <1>c, <2>1, CutAside
  <2>2. CASE op = "cascade"
    <3>1. \A q \in Cli : proc'[q].op = "cascade" => q = p
      BY <1>0, <1>3, <1>5, <2>2 DEF Cut
    <3> QED BY <1>3, <1>a, <2>2, <3>1 DEF Cut
  <2> QED BY <1>3, <2>1, <2>2
<1> QED BY <1>6, <1>7, <1>8, <1>c, <1>10, <1>11, <1>12

\* The revoke of an account lists its active devices.
LEMMA CascadeStep ==
    ASSUME IInv, NEW p \in Proc, Cascade(p)
    PROVE  IInv'
<1> USE ProcAssumption DEF ProcAssumption, IInv
<1> DEFINE s == OfAccount \cap Opening
           r == IF s = {} THEN Idle ELSE Busy("cascade", "read", s)
<1>0. /\ p \in Cli /\ p # Drainer /\ Drainer \in Proc /\ Cli \subseteq Proc /\ proc[p].op = "cascade" /\ ~granted
      /\ proc[p].pc = "cascade"
  BY DEF Cascade, At, Places, Cut, Proc
<1>1. /\ UNCHANGED <<rows, twin, door, log, took, sighted, shut, granted, calls, faults, cut, raced, missed, left, peeked>>
      /\ halved' = halved \cup (OfAccount \cap Keyless)
  BY DEF Cascade, seenVars
<1>2. s \subseteq Device /\ halved' \subseteq Device
  BY <1>1 DEF Opening, Keyed, Keyless, Files, TypeOK
<1>3. proc' = [proc EXCEPT ![p] = r] /\ r \in Process
  BY <1>2 DEF Cascade, Idle, Busy, Process
<1>4. proc'[p] = r /\ \A q \in Proc \ {p} : proc'[q] = proc[q]
  BY <1>3 DEF TypeOK
<1>5. /\ r.op \in {"none", "cascade"} /\ r.pc \in {"idle", "read"} /\ r.todo = s
      /\ r.pc = "idle" => r = Idle
      /\ r.pc = "read" => r.op = "cascade" /\ s # {}
      /\ r.op = "cascade" => r.pc = "read"
      /\ r.op # "cascade" => s = {}
  BY DEF Idle, Busy
<1>6. TypeOK'
  BY <1>1, <1>2, <1>3 DEF TypeOK
<1> HIDE DEF r
<1>7. Places'
  BY <1>0, <1>1, <1>4, <1>5 DEF Places
<1>8. InHand'
  BY <1>0, <1>1, <1>4, <1>5, InHandAside
<1>a. Live' = Live /\ Rows' /\ \A d, t : Has(d, t)' => Has(d, t)
  BY <1>0, <1>1, <1>4, <1>5, Aside
<1>10. Door'
  BY <1>0, <1>1, <1>4, <1>5, DoorAside
<1>11. Log'
  <2>1. proc'[Drainer] = proc[Drainer]
    BY <1>0, <1>1, <1>4
  <2> QED BY <1>1, <1>a, <2>1, LogAside DEF Sound
<1>12. Cut'
  <2>0. s \subseteq r.todo
    BY <1>5
  <2>1. ASSUME NEW d \in OfAccount \cap Live', d \notin raced' \cup halved' PROVE d \in s
    <3>0. d \in Live /\ d \in Sound
      BY <1>1, <1>a, <2>1 DEF Sound, Live, Active, Opening, Keyed, TypeOK
    <3>1. d \notin twin
      BY <1>1, <2>1 DEF Rows
    <3>2. ASSUME NEW q \in Proc, Writes(q, d) PROVE FALSE
      <4>1. rows[d] = Husk
        BY <3>0, <3>2 DEF InHand
      <4>2. d \in Keyless
        BY <3>0, <4>1 DEF Keyless, Files, Keyed, Husk, Row, Sound
      <4> QED BY <1>1, <2>1, <4>2
    <3> QED BY <2>1, <3>0, <3>1, <3>2 DEF Live, Active
  <2>2. \A q \in Cli : proc'[q].op = "cascade" =>
            /\ ~granted'
            /\ proc'[q].pc # "cascade" => \A d \in OfAccount \cap Live' : d \in proc'[q].todo \cup left' \cup raced' \cup halved'
    <3>1. ASSUME NEW q \in Cli, q # p, proc'[q].op = "cascade", proc'[q].pc # "cascade", NEW d \in OfAccount \cap Live'
          PROVE  d \in proc'[q].todo \cup left' \cup raced' \cup halved'
      BY <1>0, <1>1, <1>4, <1>a, <3>1 DEF Cut
    <3> QED BY <1>0, <1>1, <1>4, <2>0, <2>1, <3>1
  <2>3. ~granted' => \/ \E q \in Cli : proc'[q].op = "cascade"
                     \/ \A d \in OfAccount \cap Live' : d \in left' \cup raced' \cup halved'
    BY <1>0, <1>4, <1>5, <2>1
  <2> QED BY <2>2, <2>3 DEF Cut
<1> QED BY <1>6, <1>7, <1>8, <1>a, <1>10, <1>11, <1>12
-----------------------------------------------------------------------------
(* Rows are read and written.                                                  *)

\* What follows a device: the next one, or what follows the last.
LEMMA OnwardFacts ==
    ASSUME TypeOK, Places, NEW p \in Proc, NEW d \in Device, Onward(p, d), d \in proc[p].todo,
           proc[p].pc \in {"read", "put", "write"}, halved \subseteq halved', calls' = calls
    PROVE  /\ proc' \in [Proc -> Process]
           /\ \A q \in Proc \ {p} : proc'[q] = proc[q]
           /\ proc'[p].todo = proc[p].todo \ {d}
           /\ proc'[p].pc \notin {"truncate", "write", "cascade", "fill"}
           /\ proc'[p].op \in {"add", "sync"} =>
                 (proc'[p].todo \ proc'[p].lines) \subseteq (proc[p].todo \ proc[p].lines) \ {d}
           /\ proc'[p].op \in {"add", "sync"} /\ proc'[p].todo # {} => proc[p].op = "sync"
           /\ proc'[p].op \in {"cascade", "drain"} => proc'[p].op = proc[p].op
           /\ proc[p].op = "cascade" => p \in Cli /\ (proc'[p].op = "cascade" \/ proc'[p].todo = {})
           /\ Places'
<1> DEFINE todo == proc[p].todo \ {d}
           op == proc[p].op
           r == IF todo # {}
                THEN [Busy(op, IF op = "sync" THEN "put" ELSE "read", todo) EXCEPT !.lines = proc[p].lines]
                ELSE CASE op \in {"add", "revoke"} -> Busy("sync", "gate", {})
                       [] op = "sync"  -> Busy("sync", "list", {})
                       [] op = "drain" -> Busy("drain", "empty", {})
                       [] OTHER        -> Idle
<1>1. proc' = [proc EXCEPT ![p] = r]
  BY DEF Onward
<1>2. /\ proc[p] \in Process /\ todo \subseteq Device /\ op \in {"revoke", "rename", "cascade", "drain", "add", "sync"}
      /\ op = "add" => todo = {}
      /\ op = "drain" => p = Drainer
      /\ op = "cascade" => p \in Cli
      /\ p = Drainer => op = "drain"
      /\ p \in Cli => ~(p > calls)
      /\ op = "sync" => proc[p].lines \subseteq halved
      /\ Drainer \in Proc /\ Cli \subseteq Proc
  <2>1. op \in {"revoke", "rename", "cascade", "drain", "add", "sync"}
    BY DEF Places
  <2>2. op = "add" => todo = {}
    BY DEF Places
  <2>3. p \in Cli => ~(p > calls)
    BY DEF Places
  <2>4. op = "sync" => proc[p].lines \subseteq halved
    BY DEF Places
  <2> QED BY <2>1, <2>2, <2>3, <2>4 DEF Places, TypeOK, Process, Proc
<1>3. r \in Process
  BY <1>2 DEF Process, Busy, Idle
<1>4. proc' \in [Proc -> Process] /\ proc'[p] = r /\ \A q \in Proc \ {p} : proc'[q] = proc[q]
  BY <1>1, <1>3 DEF TypeOK
<1>5. r.todo = todo /\ Idle.op = "none" /\ Idle.pc = "idle"
  BY DEF Busy, Idle
<1>6. \/ todo # {} /\ r.pc = (IF op = "sync" THEN "put" ELSE "read") /\ r.op = op /\ r.lines = proc[p].lines
      \/ todo = {} /\ op \in {"add", "revoke"} /\ r.pc = "gate" /\ r.op = "sync"
      \/ todo = {} /\ op = "sync" /\ r.pc = "list" /\ r.op = "sync"
      \/ todo = {} /\ op = "drain" /\ r.pc = "empty" /\ r.op = "drain"
      \/ todo = {} /\ op \in {"rename", "cascade"} /\ r = Idle
  BY <1>2 DEF Busy
<1> HIDE DEF r, todo, op
<1>7. Places'
  <2>1. \A q \in Cli : q > calls' => proc'[q].pc = "idle"
    BY <1>2, <1>4 DEF Places
  <2>2. ASSUME NEW q \in Proc PROVE
        /\ proc'[q].pc = "idle" => proc'[q] = Idle
        /\ proc'[q].pc # "idle" => proc'[q].op # "none"
        /\ proc'[q].pc \in {"read", "truncate"} =>
              proc'[q].op \in {"revoke", "rename", "cascade", "drain"} /\ proc'[q].todo # {}
        /\ proc'[q].pc \in {"truncate", "write"} =>
              proc'[q].dev \in proc'[q].todo /\ proc'[q].row \in RowType /\ proc'[q].row.status # "none"
        /\ proc'[q].pc = "write" => proc'[q].op \in {"revoke", "rename", "cascade", "drain", "add", "sync"}
        /\ proc'[q].op \in {"add", "sync"} /\ proc'[q].pc = "write" => proc'[q].dev \notin proc'[q].lines
        /\ proc'[q].op \in {"add", "sync"} /\ proc'[q].pc \in {"put", "write"} => proc'[q].lines \subseteq halved'
        /\ proc'[q].pc = "cascade" => proc'[q].op = "cascade"
        /\ proc'[q].pc = "put" => proc'[q].op \in {"add", "sync"}
        /\ proc'[q].pc \in {"gate", "list", "prev", "fill"} => proc'[q].op = "sync" /\ proc'[q].todo = {}
        /\ proc'[q].pc = "empty" => proc'[q].op = "drain" /\ proc'[q].todo = {}
        /\ proc'[q].op = "add" => \E e \in Device : proc'[q].todo = {e}
        /\ proc'[q].op = "drain" => q = Drainer /\ proc'[q].pc \in {"read", "truncate", "write", "empty"}
        /\ proc'[q].op = "cascade" => q \in Cli /\ proc'[q].pc \in {"cascade", "read", "truncate", "write"}
        /\ q = Drainer => proc'[q].op \in {"none", "drain"}
    <3>1. CASE q = p
      BY <1>2, <1>4, <1>5, <1>6, <3>1
    <3>2. CASE q # p
      BY <1>4, <3>2 DEF Places
    <3> QED BY <3>1, <3>2
  <2> QED BY <2>1, <2>2 DEF Places
<1>8. /\ proc'[p].op \in {"add", "sync"} =>
           (proc'[p].todo \ proc'[p].lines) \subseteq (proc[p].todo \ proc[p].lines) \ {d}
      /\ proc'[p].op \in {"add", "sync"} /\ proc'[p].todo # {} => op = "sync"
      /\ proc'[p].op \in {"cascade", "drain"} => proc'[p].op = op
      /\ op = "cascade" => p \in Cli /\ (proc'[p].op = "cascade" \/ proc'[p].todo = {})
      /\ proc'[p].pc \notin {"truncate", "write", "cascade", "fill"}
  BY <1>2, <1>4, <1>5, <1>6 DEF todo
<1> QED BY <1>4, <1>5, <1>7, <1>8 DEF todo, op

\* A row is read, or is no row (any more): a row met torn is `halved'.
LEMMA ReadStep ==
    ASSUME IInv, NEW p \in Proc, NEW d \in Device, Read(p, d)
    PROVE  IInv'
<1> USE ProcAssumption DEF ProcAssumption, IInv
<1>0. /\ proc[p].pc = "read" /\ d \in proc[p].todo
      /\ proc[p].op \in {"revoke", "rename", "cascade", "drain"}
      /\ proc[p].op = "drain" => p = Drainer
      /\ proc[p].op = "cascade" => p \in Cli
      /\ Drainer \in Proc /\ Cli \subseteq Proc
      /\ p \in Cli => ~(p > calls)
  BY DEF Read, At, Places, Proc
<1>1. /\ UNCHANGED <<rows, twin, door, log, took, sighted, shut, granted, calls, faults, cut, raced, left, peeked>>
      /\ missed' = missed \cup ({d} \ Files) /\ halved' = halved \cup ({d} \cap Keyless)
  BY DEF Read, seenVars
<1>2. CASE d \in (IF proc[p].op = "drain" THEN Keyed ELSE Files)
  <2> DEFINE r == [proc[p] EXCEPT !.pc = "truncate", !.dev = d, !.row = rows[d]]
  <2>1. proc' = [proc EXCEPT ![p] = r]
    BY <1>2 DEF Read
  <2>a. rows[d].status # "none"
    <3>1. NoRow.key = FALSE
      BY DEF NoRow, Row
    <3> QED BY <1>2, <3>1 DEF Rows, Keyed, Files
  <2>2. /\ r \in Process /\ r.op = proc[p].op /\ r.pc = "truncate" /\ r.todo = proc[p].todo
        /\ r.dev = d /\ r.row = rows[d] /\ rows[d] \in RowType /\ r.row.status # "none"
    BY <2>a DEF TypeOK, Process
  <2>3. proc'[p] = r /\ \A q \in Proc \ {p} : proc'[q] = proc[q]
    BY <2>1 DEF TypeOK
  <2> HIDE DEF r
  <2>4. TypeOK'
    BY <1>1, <2>1, <2>2 DEF TypeOK
  <2>5. Places'
    BY <1>0, <1>1, <2>2, <2>3 DEF Places
  <2>6. InHand'
    <3>0. Sound' \subseteq Sound
      BY <1>1 DEF Sound
    <3>1. d \in Sound' => rows[d].key
      BY <1>1, <2>a DEF Sound, Keyless, Files, Keyed
    <3>2. ASSUME NEW q \in Proc, NEW e \in Sound'
          PROVE  /\ proc'[q].pc = "truncate" /\ proc'[q].dev = e => proc'[q].row = rows'[e] /\ rows'[e].key
                 /\ proc'[q].op \in {"add", "sync"} /\ e \in proc'[q].todo \ proc'[q].lines /\ ~Writes(q, e)' =>
                       rows'[e].status = "none"
      <4>1. CASE q = p
        BY <1>0, <1>1, <2>2, <2>3, <3>1, <4>1
      <4>2. CASE q # p
        BY <1>1, <2>3, <3>0, <3>2, <4>2 DEF InHand, Writes
      <4> QED BY <4>1, <4>2
    <3>3. ASSUME NEW q \in Proc, NEW e \in Sound', Writes(q, e)'
          PROVE  rows'[e] = Husk /\ \A x \in Proc \ {q} : ~Holds(x, e)'
      <4>1. q # p /\ Writes(q, e) /\ rows[e] = Husk /\ \A x \in Proc \ {q} : ~Holds(x, e)
        BY <2>2, <2>3, <3>0, <3>3 DEF InHand, Writes
      <4>2. ~Holds(p, e)'
        <5>1. Husk.key = FALSE
          BY DEF Husk, Row
        <5> QED BY <1>0, <2>2, <2>3, <3>1, <3>3, <4>1, <5>1 DEF Holds
      <4>3. ASSUME NEW x \in Proc \ {q}, x # p PROVE ~Holds(x, e)'
        BY <2>3, <4>1, <4>3 DEF Holds
      <4> QED BY <1>1, <4>1, <4>2, <4>3
    <3> QED BY <3>2, <3>3 DEF InHand
  <2>b. Live' = Live /\ Rows' /\ \A e, s : Has(e, s)' => Has(e, s)
    BY <1>0, <1>1, <2>2, <2>3, Aside
  <2>8. Door'
    BY <1>0, <1>1, <2>2, <2>3, DoorAside
  <2>9. Log'
    <3>1. proc'[Drainer].op = proc[Drainer].op /\ proc'[Drainer].todo = proc[Drainer].todo
      BY <1>0, <2>2, <2>3
    <3> QED BY <1>1, <2>b, <3>1, LogAside DEF Sound
  <2>10. Cut'
    BY <1>0, <1>1, <2>2, <2>3, <2>b, CutAside
  <2> QED BY <2>4, <2>5, <2>6, <2>b, <2>8, <2>9, <2>10
<1>3. CASE d \notin (IF proc[p].op = "drain" THEN Keyed ELSE Files)
  <2>1. Onward(p, d)
    BY <1>3 DEF Read
  <2>2. /\ proc' \in [Proc -> Process]
        /\ \A q \in Proc \ {p} : proc'[q] = proc[q]
        /\ proc'[p].todo = proc[p].todo \ {d}
        /\ proc'[p].pc \notin {"truncate", "write", "cascade", "fill"}
        /\ proc'[p].op \in {"add", "sync"} /\ proc'[p].todo # {} => proc[p].op = "sync"
        /\ proc'[p].op \in {"cascade", "drain"} => proc'[p].op = proc[p].op
        /\ proc[p].op = "cascade" => p \in Cli /\ (proc'[p].op = "cascade" \/ proc'[p].todo = {})
        /\ Places'
    BY <1>0, <1>1, <2>1, OnwardFacts
  <2>4. TypeOK'
    <3>1. missed' \subseteq Device /\ halved' \subseteq Device
      BY <1>1 DEF TypeOK
    <3> QED BY <1>1, <2>2, <3>1 DEF TypeOK
  <2>6. InHand'
    BY <1>0, <1>1, <2>2, InHandAside
  <2>b. Live' = Live /\ Rows' /\ \A e, s : Has(e, s)' => Has(e, s)
    BY <1>0, <1>1, <2>2, Aside
  <2>8. Door'
    BY <1>0, <1>1, <2>2, DoorAside
  <2>9. Log'
    <3>1. /\ proc'[Drainer].op = "drain" => proc[Drainer].op = "drain"
          /\ proc'[Drainer].op = "drain" => proc[Drainer].todo \subseteq proc'[Drainer].todo \cup {d}
          /\ proc'[Drainer].op = "drain" => proc'[Drainer].todo \subseteq proc[Drainer].todo
          /\ p # Drainer => proc'[Drainer].todo = proc[Drainer].todo
      BY <1>0, <2>2
    <3>2. p = Drainer => d \in missed' \cup halved'
      BY <1>0, <1>1, <1>3 DEF Keyed, Keyless, Places
    <3> QED BY <1>1, <2>b, <3>1, <3>2, LogAside DEF Sound
  <2>10. Cut'
    <3>1. proc[p].op = "cascade" /\ d \in Live' => d \in raced' \cup halved'
      <4>1. ASSUME proc[p].op = "cascade", d \in Live, d \in Sound PROVE d \in halved
        <5>1. d \notin Files /\ rows[d].status = "none" /\ NoRow.key = FALSE /\ Husk.status # "none"
          BY <1>3, <4>1 DEF Files, NoRow, Husk, Row
        <5>2. d \notin Opening /\ \A q \in Proc : ~Writes(q, d)
          BY <4>1, <5>1 DEF Opening, Keyed, InHand, Rows
        <5> QED BY <4>1, <5>2 DEF Live, Active, Rows
      <4> QED BY <1>1, <2>b, <4>1 DEF Sound
    <3> QED BY <1>0, <1>1, <2>2, <2>b, <3>1, CutAside
  <2> QED BY <2>2, <2>4, <2>6, <2>b, <2>8, <2>9, <2>10
<1> QED BY <1>2, <1>3

\* A file is truncated: anybody else who holds its row loses it to `raced', and who
\* truncated it has in hand what the row was, or a new one where there was none.
LEMMA HuskStep ==
    ASSUME IInv, NEW p \in Proc, Truncate(p) \/ \E e \in Device : Put(p, e)
    PROVE  IInv'
<1> USE ProcAssumption DEF ProcAssumption, IInv
<1> DEFINE New == Row("active", 0, TRUE)
           Husks(d, row) ==
             /\ rows' = [rows EXCEPT ![d] = Husk] /\ Races(p, d)
             /\ proc' = [proc EXCEPT ![p] = [proc[p] EXCEPT !.pc = "write", !.dev = d, !.row = row]]
             /\ d \in proc[p].todo /\ d \in Device /\ row \in RowType /\ row.status # "none"
             /\ \/ /\ proc[p].pc = "truncate" /\ d = proc[p].dev /\ row = proc[p].row
                   /\ proc[p].op \in {"revoke", "rename", "cascade", "drain"}
                \/ /\ proc[p].pc = "put" /\ proc[p].op \in {"add", "sync"} /\ d \notin proc[p].lines
                   /\ row = New
<1>1. UNCHANGED <<twin, door, log, took, sighted, shut, granted, calls, faults, cut, halved, missed, left, peeked>>
  BY DEF Truncate, Put, seenVars
<1>2. PICK d, row : Husks(d, row)
  <2>1. ASSUME Truncate(p) PROVE Husks(proc[p].dev, proc[p].row)
    <3>1. proc[p] \in Process /\ proc[p].dev \in proc[p].todo /\ proc[p].row \in RowType /\ proc[p].row.status # "none"
          /\ proc[p].pc = "truncate" /\ proc[p].op \in {"revoke", "rename", "cascade", "drain"}
      BY <2>1 DEF Truncate, At, Places, TypeOK
    <3>2. [proc[p] EXCEPT !.pc = "write", !.dev = proc[p].dev, !.row = proc[p].row] = [proc[p] EXCEPT !.pc = "write"]
      BY <3>1 DEF Process
    <3>3. proc' = [proc EXCEPT ![p] = [proc[p] EXCEPT !.pc = "write"]]
      BY <2>1 DEF Truncate
    <3> QED BY <2>1, <3>1, <3>2, <3>3 DEF Truncate, Process
  <2>2. ASSUME NEW e \in Device, Put(p, e) PROVE Husks(e, New)
    <3>1. New \in RowType /\ New.status # "none"
      BY CountAssumption DEF CountAssumption, Row, RowType
    <3>2. proc' = [proc EXCEPT ![p] = [proc[p] EXCEPT !.pc = "write", !.dev = e, !.row = New]]
      BY <2>2 DEF Put
    <3> QED BY <2>2, <3>1, <3>2 DEF Put, At, Places
  <2> HIDE DEF Husks
  <2> QED BY <2>1, <2>2
<1> DEFINE r == [proc[p] EXCEPT !.pc = "write", !.dev = d, !.row = row]
<1>3. /\ r \in Process /\ r.op = proc[p].op /\ r.pc = "write" /\ r.todo = proc[p].todo /\ r.lines = proc[p].lines
      /\ r.dev = d /\ r.row = row
  BY <1>2 DEF TypeOK, Process
<1>4. proc' = [proc EXCEPT ![p] = r] /\ proc'[p] = r /\ \A q \in Proc \ {p} : proc'[q] = proc[q]
  BY <1>2 DEF TypeOK
<1>5. Husk \in RowType /\ Husk.status = "active" /\ Husk.key = FALSE /\ NoRow.status = "none" /\ NoRow.seen = 0
      /\ NoRow.key = FALSE /\ New.status = "active" /\ New.seen = 0
  BY CountAssumption DEF CountAssumption, Husk, NoRow, Row, RowType
<1>6. /\ rows' \in [Device -> RowType] /\ rows'[d] = Husk
      /\ \A e \in Device \ {d} : rows'[e] = rows[e]
  BY <1>2, <1>5 DEF TypeOK
<1>7. /\ raced \subseteq raced' /\ raced' \subseteq raced \cup {d} /\ Sound' \subseteq Sound
      /\ d \in Sound' => \A q \in Proc \ {p} : ~Holds(q, d) /\ ~Holds(q, d)' /\ ~Writes(q, d)
  <2>1. raced \subseteq raced' /\ raced' \subseteq raced \cup {d} /\ (d \notin raced' => \A q \in Proc \ {p} : ~Holds(q, d))
    BY <1>2 DEF Races
  <2>2. ASSUME NEW q \in Proc \ {p}, ~Holds(q, d) PROVE ~Holds(q, d)' /\ ~Writes(q, d)
    BY <1>4, <2>2 DEF Holds, Writes
  <2> QED BY <1>1, <2>1, <2>2 DEF Sound
<1>8. ASSUME d \in Sound'
      PROVE  /\ d \in Sound /\ d \notin Keyless /\ row.seen = rows[d].seen
             /\ \/ row = rows[d] /\ rows[d].key /\ proc[p].op \notin {"add", "sync"}
                \/ rows[d] = NoRow /\ row = New /\ proc[p].op \in {"add", "sync"}
  <2>1. d \in Sound
    BY <1>7, <1>8
  <2>2. CASE proc[p].pc = "truncate"
    BY <1>2, <1>5, <2>1, <2>2 DEF InHand, Keyless, Keyed
  <2>3. CASE proc[p].pc = "put"
    <3>1. rows[d].status = "none"
      BY <1>2, <2>1, <2>3 DEF InHand, Writes
    <3>2. rows[d] = NoRow
      BY <1>2, <3>1 DEF Rows
    <3> QED BY <1>2, <1>5, <2>1, <2>3, <3>1, <3>2 DEF Keyless, Files
  <2> QED BY <1>2, <2>2, <2>3
<1> HIDE DEF r, New, Husks
<1>a. /\ proc[p].pc \in {"truncate", "put"} /\ d \in proc[p].todo /\ d \in Device /\ row \in RowType /\ row.status # "none"
      /\ proc[p].op \in {"revoke", "rename", "cascade", "drain", "add", "sync"}
      /\ proc[p].op \in {"add", "sync"} => d \notin proc[p].lines /\ proc[p].pc = "put"
      /\ Drainer \in Proc /\ Cli \subseteq Proc
      /\ p \in Cli => ~(p > calls)
  BY <1>2 DEF Husks, Proc, Places
<1>b. \A q \in Proc, e \in Device : Writes(q, e)' <=> IF q = p THEN e = d ELSE Writes(q, e)
  BY <1>3, <1>4 DEF Writes
<1>9. TypeOK'
  <2>1. raced' \subseteq Device
    BY <1>7, <1>a DEF TypeOK
  <2>2. proc' \in [Proc -> Process]
    BY <1>3, <1>4 DEF TypeOK
  <2> QED BY <1>1, <1>6, <2>1, <2>2 DEF TypeOK
<1>10. Places'
  BY <1>1, <1>3, <1>4, <1>a DEF Places
<1>11. InHand'
  <2>1. ASSUME NEW q \in Proc, NEW e \in Sound'
        PROVE  /\ proc'[q].pc = "truncate" /\ proc'[q].dev = e => proc'[q].row = rows'[e] /\ rows'[e].key
               /\ proc'[q].op \in {"add", "sync"} /\ e \in proc'[q].todo \ proc'[q].lines /\ ~Writes(q, e)' =>
                     rows'[e].status = "none"
    <3>1. CASE q = p
      <4>1. CASE e = d
        BY <1>3, <1>4, <1>a, <1>b, <3>1, <4>1
      <4>2. CASE e # d
        <5>1. e \in Sound /\ e \in Device /\ rows'[e] = rows[e] /\ ~Writes(p, e)
          BY <1>6, <1>7, <1>a, <2>1, <4>2 DEF Sound, Writes
        <5> QED BY <1>3, <1>4, <3>1, <5>1 DEF InHand
      <4> QED BY <4>1, <4>2
    <3>2. CASE q # p /\ e = d
      BY <1>4, <1>7, <2>1, <3>2 DEF Holds
    <3>3. CASE q # p /\ e # d
      <4>1. e \in Sound /\ rows'[e] = rows[e]
        BY <1>6, <1>7, <2>1, <3>3 DEF Sound
      <4> QED BY <1>4, <3>3, <4>1 DEF InHand, Writes
    <3> QED BY <3>1, <3>2, <3>3
  <2>2. ASSUME NEW q \in Proc, NEW e \in Sound', Writes(q, e)'
        PROVE  rows'[e] = Husk /\ \A x \in Proc \ {q} : ~Holds(x, e)'
    <3>1. CASE e = d
      <4>1. q = p
        BY <1>7, <1>b, <1>a, <2>2, <3>1
      <4> QED BY <1>6, <1>7, <2>2, <3>1, <4>1
    <3>2. CASE e # d
      <4>0. e \in Sound /\ e \in Device
        BY <1>7, <2>2 DEF Sound
      <4>1. q # p /\ Writes(q, e) /\ rows[e] = Husk /\ \A x \in Proc \ {q} : ~Holds(x, e)
        BY <1>b, <2>2, <3>2, <4>0 DEF InHand
      <4>2. ~Holds(p, e)'
        BY <1>3, <1>4, <3>2, <4>1 DEF Holds
      <4>3. ASSUME NEW x \in Proc \ {q}, x # p PROVE ~Holds(x, e)'
        BY <1>4, <4>1, <4>3 DEF Holds
      <4> QED BY <1>6, <3>2, <4>0, <4>1, <4>2, <4>3
    <3> QED BY <3>1, <3>2
  <2> QED BY <2>1, <2>2 DEF InHand
<1>12. Rows'
  <2>1. \A e \in Device : rows'[e].status = "none" => rows'[e] = NoRow
    BY <1>5, <1>6 DEF Rows
  <2>2. ASSUME NEW e \in cut' \cap Sound'
        PROVE  /\ rows'[e].status = "revoked" \/ \E q \in Proc : Writes(q, e)'
               /\ \A q \in Proc : Writes(q, e)' => proc'[q].op \notin {"add", "sync"} /\ proc'[q].row.status = "revoked"
    <3>0. e \in cut \cap Sound /\ e \in Device
      BY <1>1, <1>7, <2>2 DEF Sound
    <3>1. CASE e = d
      <4>1. rows[e].status = "revoked"
        <5>1. ~Writes(p, e)
          BY <1>a DEF Writes
        <5> QED BY <1>7, <2>2, <3>0, <3>1, <5>1 DEF Rows
      <4>2. row.status = "revoked" /\ proc[p].op \notin {"add", "sync"}
        BY <1>5, <1>8, <2>2, <3>1, <4>1
      <4> QED BY <1>3, <1>4, <1>7, <1>b, <2>2, <3>0, <3>1, <4>2
    <3>2. CASE e # d
      BY <1>4, <1>6, <1>a, <1>b, <3>0, <3>2 DEF Rows, Writes
    <3> QED BY <3>1, <3>2
  <2> QED BY <1>1, <2>1, <2>2 DEF Rows
<1>13. Door'
  BY <1>1, <1>3, <1>4, <1>a, DoorAside
<1>14. Log'
  <2>1. proc'[Drainer].op = proc[Drainer].op /\ proc'[Drainer].todo = proc[Drainer].todo
    BY <1>3, <1>4, <1>a
  <2>2. ASSUME NEW e \in Sound', NEW s \in RowType, Has(e, s)' PROVE \E t \in RowType : Has(e, t) /\ t.seen = s.seen
    <3>0. e \in Sound /\ e \in Device
      BY <1>7, <2>2 DEF Sound
    <3>1. CASE e = d
      <4>1. s = row
        <5>1. (d \in Keyless)'
          BY <1>5, <1>6, <1>a DEF Keyless, Keyed, Files
        <5> QED BY <1>3, <1>4, <1>7, <1>b, <2>2, <3>0, <3>1, <5>1 DEF Has
      <4>2. Has(d, rows[d]) /\ rows[d] \in RowType
        BY <1>8, <2>2, <3>0, <3>1 DEF Has, TypeOK
      <4> QED BY <1>8, <2>2, <3>1, <4>1, <4>2
    <3>2. CASE e # d
      <4>1. rows'[e] = rows[e] /\ (e \in Keyless' <=> e \in Keyless)
        BY <1>6, <3>0, <3>2 DEF Keyless, Keyed, Files
      <4>2. \A q \in Proc : Writes(q, e)' => Writes(q, e) /\ proc'[q] = proc[q]
        BY <1>4, <1>b, <3>0, <3>2
      <4>3. Has(e, s)
        BY <2>2, <4>1, <4>2 DEF Has
      <4> QED BY <4>3
    <3> QED BY <3>1, <3>2
  <2> QED BY <1>1, <1>7, <2>1, <2>2, LogAside
<1>15. Cut'
  <2>1. ASSUME NEW e \in Live', e \in Sound' PROVE e \in Live
    <3>0. e \in Sound /\ e \in Device
      BY <1>7, <2>1 DEF Sound
    <3>1. CASE e = d
      <4>1. CASE e \in Active'
        <5>1. e \notin Opening'
          BY <1>5, <1>6, <3>1 DEF Opening, Keyed
        <5> QED BY <1>1, <4>1, <5>1 DEF Live, Active
      <4>2. CASE e \notin Active'
        <5>1. proc[p].op \in {"rename", "drain"} /\ row.status = "active"
          BY <1>3, <1>4, <1>7, <1>b, <2>1, <3>0, <3>1, <4>2 DEF Live
        <5>2. rows[d].status = "active" /\ rows[d].key
          BY <1>8, <2>1, <3>1, <5>1
        <5> QED BY <3>0, <3>1, <5>2 DEF Live, Active, Opening, Keyed
      <4> QED BY <4>1, <4>2
    <3>2. CASE e # d
      <4>1. e \in Active' => e \in Active
        BY <1>1, <1>6, <3>0, <3>2 DEF Active, Opening, Keyed
      <4>2. \A q \in Proc : Writes(q, e)' => Writes(q, e) /\ proc'[q] = proc[q]
        BY <1>4, <1>b, <3>0, <3>2
      <4> QED BY <2>1, <4>1, <4>2 DEF Live
    <3> QED BY <3>1, <3>2
  <2>2. Live' \subseteq Device
    BY <1>1 DEF Live, Active, Opening, Keyed, TypeOK
  <2>3. \A e \in Live' : e \in Live \cup raced' \cup halved'
    BY <2>1, <2>2 DEF Sound
  <2>4. proc'[p].op = proc[p].op /\ proc'[p].todo = proc[p].todo /\ proc[p].pc # "cascade"
    BY <1>3, <1>4, <1>a
  <2> QED BY <1>1, <1>4, <1>7, <2>3, <2>4, CutAside
<1> QED BY <1>9, <1>10, <1>11, <1>12, <1>13, <1>14, <1>15

\* A truncated row is filled: nobody else holds it, or it is `raced'.
LEMMA WriteStep ==
    ASSUME IInv, NEW p \in Proc, Write(p)
    PROVE  IInv'
<1> USE ProcAssumption DEF ProcAssumption, IInv
<1>a. PICK d, row : d = proc[p].dev /\ row = proc[p].row
  OBVIOUS
<1> DEFINE op == proc[p].op
           new == Changed(op, d, row)
<1>0. /\ proc[p].pc = "write" /\ d \in proc[p].todo /\ d \in Device /\ row \in RowType /\ row.status # "none"
      /\ op \in {"revoke", "rename", "cascade", "drain", "add", "sync"}
      /\ op = "drain" <=> p = Drainer
      /\ op = "cascade" => p \in Cli
      /\ Drainer \in Proc /\ Cli \subseteq Proc
      /\ Writes(p, d) /\ \A e \in Device : Writes(p, e) => e = d
  BY <1>a DEF Write, At, Places, Proc, TypeOK, Process, Writes
<1>1. /\ UNCHANGED <<twin, door, log, took, sighted, shut, granted, calls, faults, halved, missed, peeked>>
      /\ rows' = [rows EXCEPT ![d] = new]
      /\ cut' = (IF op \in {"revoke", "cascade"} THEN cut \cup {d} ELSE cut)
      /\ IF op \in {"add", "sync"} THEN Enrolled(d) ELSE UNCHANGED left
      /\ Races(p, d) /\ Onward(p, d)
  BY <1>a DEF Write, seenVars
<1>2. /\ new \in RowType
      /\ op \in {"revoke", "cascade"} => new.status = "revoked"
      /\ op = "drain" => new.status = row.status /\ new.seen = took[d]
      /\ op # "drain" => new.seen = row.seen
      /\ op \in {"rename", "add", "sync"} => new = row
      /\ new.status # "none"
  BY <1>0 DEF Changed, RowType, TypeOK
<1> HIDE DEF new
<1>3. /\ rows' \in [Device -> RowType] /\ rows'[d] = new
      /\ \A e \in Device \ {d} : rows'[e] = rows[e]
  BY <1>0, <1>1, <1>2 DEF TypeOK
<1>4. /\ proc' \in [Proc -> Process]
      /\ \A q \in Proc \ {p} : proc'[q] = proc[q]
      /\ proc'[p].todo = proc[p].todo \ {d}
      /\ proc'[p].pc \notin {"truncate", "write", "cascade", "fill"}
      /\ proc'[p].op \in {"add", "sync"} =>
            (proc'[p].todo \ proc'[p].lines) \subseteq (proc[p].todo \ proc[p].lines) \ {d}
      /\ proc'[p].op \in {"add", "sync"} /\ proc'[p].todo # {} => op = "sync"
      /\ proc'[p].op \in {"cascade", "drain"} => proc'[p].op = op
      /\ op = "cascade" => p \in Cli /\ (proc'[p].op = "cascade" \/ proc'[p].todo = {})
      /\ Places'
  BY <1>0, <1>1, OnwardFacts
<1>6. /\ raced \subseteq raced' /\ raced' \subseteq raced \cup {d} /\ Sound' \subseteq Sound
      /\ d \in Sound' => \A q \in Proc \ {p} : ~Holds(q, d) /\ ~Holds(q, d)' /\ ~Writes(q, d)
  <2>1. raced \subseteq raced' /\ raced' \subseteq raced \cup {d} /\ (d \notin raced' => \A q \in Proc \ {p} : ~Holds(q, d))
    BY <1>1 DEF Races
  <2>2. ASSUME NEW q \in Proc \ {p}, ~Holds(q, d) PROVE ~Holds(q, d)' /\ ~Writes(q, d)
    BY <1>4, <2>2 DEF Holds, Writes
  <2> QED BY <1>1, <2>1, <2>2 DEF Sound
<1>7. /\ left \subseteq left' /\ left' \subseteq left \cup {d}
      /\ op \in {"add", "sync"} /\ d \in OfAccount /\ ~granted => d \in left'
  BY <1>1 DEF Enrolled
<1>b. \A q \in Proc, e \in Device : Writes(q, e)' <=> q # p /\ Writes(q, e)
  BY <1>4 DEF Writes
<1> HIDE DEF op
<1>8. TypeOK'
  <2>0. cut \subseteq Device /\ raced \subseteq Device /\ left \subseteq Device
    BY DEF TypeOK
  <2>1. cut' \subseteq Device /\ raced' \subseteq Device /\ left' \subseteq Device
    BY <1>0, <1>1, <1>6, <1>7, <2>0
  <2> QED BY <1>1, <1>3, <1>4, <2>1 DEF TypeOK
<1>10. InHand'
  <2>1. ASSUME NEW q \in Proc, NEW e \in Sound'
        PROVE  /\ proc'[q].pc = "truncate" /\ proc'[q].dev = e => proc'[q].row = rows'[e] /\ rows'[e].key
               /\ proc'[q].op \in {"add", "sync"} /\ e \in proc'[q].todo \ proc'[q].lines /\ ~Writes(q, e)' =>
                     rows'[e].status = "none"
    <3>0. e \in Sound /\ e \in Device
      BY <1>6, <2>1 DEF Sound
    <3>1. CASE q = p
      <4>1. ASSUME proc'[p].op \in {"add", "sync"}, e \in proc'[p].todo \ proc'[p].lines
            PROVE  e # d /\ op = "sync" /\ e \in proc[p].todo \ proc[p].lines /\ ~Writes(p, e)
        BY <1>0, <1>4, <3>0, <4>1
      <4> QED BY <1>3, <1>4, <3>0, <3>1, <4>1 DEF InHand, op
    <3>2. CASE q # p /\ e = d
      BY <1>4, <1>6, <2>1, <3>2 DEF Holds
    <3>3. CASE q # p /\ e # d
      BY <1>3, <1>4, <3>0, <3>3 DEF InHand, Writes
    <3> QED BY <3>1, <3>2, <3>3
  <2>2. ASSUME NEW q \in Proc, NEW e \in Sound', Writes(q, e)'
        PROVE  rows'[e] = Husk /\ \A x \in Proc \ {q} : ~Holds(x, e)'
    <3>0. e \in Sound /\ e \in Device
      BY <1>6, <2>2 DEF Sound
    <3>1. q # p /\ Writes(q, e)
      BY <1>b, <2>2, <3>0
    <3>2. e # d
      BY <1>6, <2>2, <3>1
    <3>3. rows[e] = Husk /\ \A x \in Proc \ {q} : ~Holds(x, e)
      BY <3>0, <3>1 DEF InHand
    <3>4. ~Holds(p, e)'
      <4>1. ~Holds(p, e)
        BY <3>1, <3>3
      <4>2. e \notin proc'[p].todo \ proc'[p].lines \/ proc'[p].op \notin {"add", "sync"}
        <5>1. CASE proc'[p].op \in {"add", "sync"} /\ proc'[p].todo # {}
          BY <1>4, <4>1, <5>1 DEF Holds, op
        <5> QED BY <5>1
      <4> QED BY <1>4, <4>2 DEF Holds
    <3>5. ASSUME NEW x \in Proc \ {q}, x # p PROVE ~Holds(x, e)'
      BY <1>4, <3>3, <3>5 DEF Holds
    <3> QED BY <1>3, <3>0, <3>2, <3>3, <3>4, <3>5
  <2> QED BY <2>1, <2>2 DEF InHand
<1>11. Rows'
  <2>1. \A e \in Device : rows'[e].status = "none" => rows'[e] = NoRow
    BY <1>2, <1>3 DEF Rows
  <2>2. ASSUME NEW e \in cut' \cap Sound'
        PROVE  /\ rows'[e].status = "revoked" \/ \E q \in Proc : Writes(q, e)'
               /\ \A q \in Proc : Writes(q, e)' => proc'[q].op \notin {"add", "sync"} /\ proc'[q].row.status = "revoked"
    <3>0. e \in Sound /\ e \in Device
      BY <1>6, <2>2 DEF Sound
    <3>1. CASE e = d
      <4>0. rows'[d].status = "revoked"
        <5>1. CASE op \in {"revoke", "cascade"}
          BY <1>2, <1>3, <5>1
        <5>2. CASE op \notin {"revoke", "cascade"}
          <6>1. d \in cut \cap Sound
            BY <1>1, <2>2, <3>0, <3>1, <5>2
          <6>2. op \notin {"add", "sync"} /\ row.status = "revoked"
            BY <1>0, <1>a, <6>1 DEF Rows, op
          <6> QED BY <1>0, <1>2, <1>3, <5>2, <6>2
        <5> QED BY <5>1, <5>2
      <4> QED BY <1>6, <1>b, <2>2, <3>0, <3>1, <4>0
    <3>2. CASE e # d
      <4>0. e \in cut \cap Sound /\ rows'[e] = rows[e]
        BY <1>1, <1>3, <2>2, <3>0, <3>2
      <4>1. rows[e].status = "revoked" \/ \E q \in Proc : Writes(q, e)
        BY <4>0 DEF Rows
      <4>2. \A q \in Proc : Writes(q, e) => q # p /\ Writes(q, e)' /\ proc'[q] = proc[q]
        BY <1>0, <1>4, <1>b, <3>0, <3>2
      <4> QED BY <1>4, <1>b, <3>0, <4>0, <4>1, <4>2 DEF Rows
    <3> QED BY <3>1, <3>2
  <2> QED BY <1>1, <2>1, <2>2 DEF Rows
<1>12. Door'
  BY <1>0, <1>1, <1>4, DoorAside
<1>13. Log'
  <2>1. /\ proc'[Drainer].op = "drain" => proc[Drainer].op = "drain" /\ proc'[Drainer].todo \subseteq proc[Drainer].todo
        /\ p # Drainer => proc'[Drainer].todo = proc[Drainer].todo
        /\ p = Drainer => proc'[Drainer].todo = proc[Drainer].todo \ {d}
    BY <1>0, <1>4 DEF op
  <2>2. ASSUME NEW e \in Sound' \ missed', NEW s \in RowType, Has(e, s)'
        PROVE  \/ log[e] > 0 /\ s.seen >= took[e]
               \/ /\ \E t \in RowType : Has(e, t) /\ t.seen = s.seen
                  /\ proc'[Drainer].op = "drain" /\ e \notin proc'[Drainer].todo => e \notin proc[Drainer].todo
    <3>0. e \in Sound /\ e \in Device
      BY <1>6, <2>2 DEF Sound
    <3>1. CASE e = d
      <4>1. s = new
        BY <1>3, <1>6, <1>b, <2>2, <3>0, <3>1 DEF Has
      <4>2. CASE op = "drain"
        <5>1. log[d] > 0 /\ took[d] \in Nat /\ s.seen = took[d]
          BY <1>0, <1>2, <4>1, <4>2, CountAssumption DEF CountAssumption, Log, TypeOK, op
        <5> QED BY <3>1, <5>1
      <4>3. CASE op # "drain"
        <5>1. Has(d, row) /\ row.seen = s.seen /\ row \in RowType
          BY <1>0, <1>2, <1>a, <4>1, <4>3 DEF Has
        <5> QED BY <1>0, <2>1, <3>1, <4>3, <5>1
      <4> QED BY <4>2, <4>3
    <3>2. CASE e # d
      <4>1. rows'[e] = rows[e] /\ (e \in Keyless' <=> e \in Keyless)
        BY <1>3, <3>0, <3>2 DEF Keyless, Keyed, Files
      <4>2. \A q \in Proc : Writes(q, e)' => Writes(q, e) /\ proc'[q] = proc[q]
        BY <1>4, <1>b, <3>0
      <4>3. Has(e, s)
        BY <2>2, <4>1, <4>2 DEF Has
      <4> QED BY <2>1, <3>2, <4>3
    <3> QED BY <3>1, <3>2
  <2> QED BY <1>1, <1>6, <2>1, <2>2, LogAside
<1>14. Cut'
  <2>1. ASSUME NEW e \in Live', e \in Sound'
        PROVE  /\ (e \in Live \cup left' \/ granted \/ e \notin OfAccount)
               /\ (op = "cascade" => e # d)
    <3>0. e \in Sound /\ e \in Device /\ e \notin twin
      BY <1>1, <1>6, <2>1 DEF Sound, Rows
    <3>1. CASE e = d
      <4>1. e \in Opening'
        BY <1>1, <1>6, <1>b, <2>1, <3>0, <3>1 DEF Live, Active
      <4>2. new.status = "active" /\ op \in {"rename", "drain", "add", "sync"}
        BY <1>0, <1>2, <1>3, <3>1, <4>1 DEF Opening
      <4>3. CASE op \in {"rename", "drain"}
        <5>1. row.status = "active"
          BY <1>2, <4>2, <4>3
        <5>2. e \in Live
          BY <1>0, <1>a, <3>1, <4>3, <5>1 DEF Live, op
        <5> QED BY <4>3, <5>2
      <4>4. CASE op \in {"add", "sync"}
        BY <1>7, <3>1, <4>4
      <4> QED BY <4>2, <4>3, <4>4
    <3>2. CASE e # d
      <4>1. e \in Active' => e \in Active
        BY <1>1, <1>3, <3>0, <3>2 DEF Active, Opening, Keyed
      <4>2. \A q \in Proc : Writes(q, e)' => Writes(q, e) /\ proc'[q] = proc[q]
        BY <1>4, <1>b, <3>0
      <4>3. e \in Live
        BY <2>1, <4>1, <4>2 DEF Live
      <4> QED BY <3>2, <4>3
    <3> QED BY <3>1, <3>2
  <2>2. Live' \subseteq Device
    BY <1>1 DEF Live, Active, Opening, Keyed, TypeOK
  <2>3. \A e \in OfAccount \cap Live' : e \in Live \cup left' \cup raced' \cup halved' \/ granted
    BY <2>1, <2>2 DEF Sound
  <2>4. op = "cascade" => \A e \in OfAccount \cap Live' \cap proc[p].todo :
            e \in left' \cup raced' \cup halved' \/ (proc'[p].op = "cascade" /\ e \in proc'[p].todo)
    <3>1. ASSUME op = "cascade", NEW e \in OfAccount \cap Live' \cap proc[p].todo, e \notin raced' \cup halved'
          PROVE  proc'[p].op = "cascade" /\ e \in proc'[p].todo
      <4>1. e # d
        BY <2>1, <2>2, <3>1 DEF Sound
      <4> QED BY <1>4, <3>1, <4>1
    <3> QED BY <3>1
  <2>5. granted' = granted /\ halved \subseteq halved' /\ proc[p].pc # "cascade" /\ proc'[p].pc # "cascade"
    BY <1>0, <1>1, <1>4
  <2>6. /\ proc'[p].op = "cascade" => proc[p].op = "cascade"
        /\ proc[p].op = "cascade" => p \in Cli
    BY <1>4 DEF op
  <2>7. proc[p].op = "cascade" => \A e \in OfAccount \cap Live' \cap proc[p].todo :
            e \in left' \cup raced' \cup halved' \/ (proc'[p].op = "cascade" /\ e \in proc'[p].todo)
    BY <2>4 DEF op
  <2>8. raced \subseteq raced' /\ left \subseteq left' /\ \A q \in Proc \ {p} : proc'[q] = proc[q]
    BY <1>4, <1>6, <1>7
  <2> QED BY <2>3, <2>5, <2>6, <2>7, <2>8, CutAside
<1> QED BY <1>4, <1>8, <1>10, <1>11, <1>12, <1>13, <1>14

\* A key whose own row had none is written into a second row: it was met torn.
LEMMA TwinStep ==
    ASSUME IInv, NEW p \in Proc, NEW d \in Device, Twin(p, d)
    PROVE  IInv'
<1> USE ProcAssumption DEF ProcAssumption, IInv
<1>0. /\ proc[p].pc = "put" /\ d \in proc[p].todo /\ d \in proc[p].lines /\ d \in halved
      /\ proc[p].op \in {"add", "sync"} /\ p # Drainer /\ Drainer \in Proc
  BY DEF Twin, At, Places, Proc
<1>1. /\ UNCHANGED <<rows, door, log, took, sighted, shut, granted, calls, faults, cut, raced, halved, missed, peeked>>
      /\ twin' = twin \cup {d} /\ Enrolled(d) /\ Onward(p, d)
  BY DEF Twin, seenVars
<1>2. /\ proc' \in [Proc -> Process]
      /\ \A q \in Proc \ {p} : proc'[q] = proc[q]
      /\ proc'[p].todo = proc[p].todo \ {d}
      /\ proc'[p].pc \notin {"truncate", "write", "cascade", "fill"}
      /\ proc'[p].op \in {"add", "sync"} =>
            (proc'[p].todo \ proc'[p].lines) \subseteq (proc[p].todo \ proc[p].lines) \ {d}
      /\ proc'[p].op \in {"cascade", "drain"} => proc'[p].op = proc[p].op
      /\ Places'
  BY <1>0, <1>1, OnwardFacts
<1>3. left \subseteq left' /\ left' \subseteq left \cup {d}
  BY <1>1 DEF Enrolled
<1>4. TypeOK'
  <2>1. left' \subseteq Device /\ twin' \subseteq Device
    BY <1>1, <1>3 DEF TypeOK
  <2> QED BY <1>1, <1>2, <2>1 DEF TypeOK
<1>5. InHand'
  <2>1. proc'[p].op \in {"add", "sync"} => \A e \in (proc'[p].todo \ proc'[p].lines) \cap Sound' : rows[e].status = "none"
    <3>1. ASSUME proc'[p].op \in {"add", "sync"}, NEW e \in (proc'[p].todo \ proc'[p].lines) \cap Sound'
          PROVE  rows[e].status = "none"
      <4>1. e \in Sound /\ e \in proc[p].todo \ proc[p].lines
        BY <1>1, <1>2, <3>1 DEF Sound
      <4> QED BY <1>0, <4>1 DEF InHand, Writes
    <3> QED BY <3>1
  <2> QED BY <1>0, <1>1, <1>2, <2>1, InHandAside
<1>6. \A q \in Proc : \A e : Writes(q, e)' => Writes(q, e) /\ proc'[q] = proc[q]
  BY <1>2 DEF Writes
<1>7. \A q \in Proc : \A e : Writes(q, e) => Writes(q, e)'
  BY <1>0, <1>2 DEF Writes
<1>8. Rows'
  BY <1>0, <1>1, <1>6, <1>7 DEF Rows, Sound
<1>9. Door'
  BY <1>0, <1>1, <1>2, DoorAside
<1>10. Log'
  <2>1. proc'[Drainer] = proc[Drainer]
    BY <1>0, <1>2
  <2>2. \A e, s : Has(e, s)' => Has(e, s)
    BY <1>1, <1>6 DEF Has, Keyless, Files, Keyed
  <2> QED BY <1>1, <2>1, <2>2, LogAside DEF Sound
<1>11. Cut'
  <2>1. \A e \in Live' : e \in Live \cup {d}
    BY <1>1, <1>6 DEF Live, Active, Opening, Keyed
  <2> QED BY <1>0, <1>1, <1>2, <1>3, <2>1, CutAside
<1> QED BY <1>2, <1>4, <1>5, <1>8, <1>9, <1>10, <1>11
-----------------------------------------------------------------------------
(* The door is derived.                                                        *)

\* A step of a sync, or the start of the scheduler's: only the door can suffer.
LEMMA SyncMove ==
    ASSUME IInv, NEW p \in Proc, NEW r \in Process,
           proc[p].op = "sync" \/ p = Ticker, proc[p].op \in {"none", "sync"}, proc[p].pc # "write",
           proc' = [proc EXCEPT ![p] = r],
           r = Idle \/ (r.op = "sync" /\ r.pc \in {"gate", "put", "list", "prev", "fill"}),
           r.pc = "put" => r.lines \subseteq halved' /\ \A e \in r.todo \ r.lines : rows[e].status = "none",
           r.pc # "put" => r.todo = {}, halved \subseteq halved', halved' \subseteq Device,
           UNCHANGED <<rows, twin, seenVars, shut, granted, calls, faults, cut, raced, missed, left>>,
           door' \subseteq Device, peeked' \in BOOLEAN, Door'
    PROVE  IInv'
<1> USE ProcAssumption DEF ProcAssumption, IInv
<1>1. Idle.op = "none" /\ Idle.pc = "idle" /\ r.op \notin {"add", "cascade", "drain"}
      /\ r.pc \notin {"truncate", "write", "cascade"}
  BY DEF Idle, Busy
<1>2. proc'[p] = r /\ \A q \in Proc \ {p} : proc'[q] = proc[q]
  BY DEF TypeOK
<1>3. /\ p # Drainer /\ Drainer \in Proc /\ Cli \subseteq Proc /\ (p \in Cli => ~(p > calls))
      /\ proc[p].op # "cascade"
  BY <1>1 DEF Places, Proc
<1>a. UNCHANGED <<rows, twin, log, took, sighted, cut, raced, missed, left, granted, calls>>
  BY DEF seenVars
<1>4. TypeOK'
  <2>1. proc' \in [Proc -> Process]
    BY DEF TypeOK
  <2> QED BY <2>1 DEF TypeOK, seenVars
<1>5. Places'
  <2>1. CASE r = Idle
    BY <1>1, <1>2, <1>3, <2>1 DEF Places
  <2>2. CASE r.op = "sync" /\ r.pc \in {"gate", "put", "list", "prev", "fill"}
    <3>1. \A q \in Cli : q > calls' => proc'[q].pc = "idle"
      BY <1>2, <1>3 DEF Places
    <3> QED BY <1>2, <1>3, <2>2, <3>1 DEF Places
  <2> QED BY <2>1, <2>2
<1>6. InHand'
  BY <1>1, <1>2, <1>a, InHandAside
<1>7. Live' = Live /\ Rows' /\ \A d, s : Has(d, s)' => Has(d, s)
  BY <1>1, <1>2, <1>a, Aside
<1>8. Log'
  <2>1. proc'[Drainer] = proc[Drainer]
    BY <1>2, <1>3
  <2> QED BY <1>7, <1>a, <2>1, LogAside DEF Sound
<1>9. Cut'
  BY <1>1, <1>2, <1>3, <1>7, <1>a, CutAside
<1> QED BY <1>4, <1>5, <1>6, <1>7, <1>8, <1>9

\* syncKeys and the pass that calls it.
LEMMA SyncStep ==
    ASSUME IInv, NEW p \in Proc, Sync(p) \/ (p = Ticker /\ Tick)
    PROVE  IInv'
<1> USE DEF IInv
<1>0. Idle \in Process /\ Busy("sync", "gate", {}) \in Process /\ halved \subseteq Device
      /\ Idle.pc = "idle" /\ Idle.todo = {}
  BY DEF Idle, Busy, Process, TypeOK
<1>1. CASE p = Ticker /\ Tick
  <2>1. /\ proc' = [proc EXCEPT ![p] = Busy("sync", "gate", {})] /\ proc[p] = Idle
        /\ UNCHANGED <<rows, twin, door, seenVars, shut, granted, calls, faults, history>>
    BY <1>1 DEF Tick, Starts, At, Places
  <2>2. /\ proc'[p].pc = "gate" /\ \A q \in Proc \ {p} : proc'[q] = proc[q]
        /\ proc[p].pc = "idle" /\ proc[p].op = "none"
    BY <2>1 DEF TypeOK, Busy, Idle
  <2>3. Door'
    BY <2>1, <2>2, DoorAside DEF history
  <2>4. Busy("sync", "gate", {}).op = "sync" /\ Busy("sync", "gate", {}).pc = "gate" /\ Busy("sync", "gate", {}).todo = {}
    BY DEF Busy
  <2>5. door' \subseteq Device /\ peeked' \in BOOLEAN
    BY <2>1 DEF TypeOK, history
  <2> QED BY <1>0, <1>1, <2>1, <2>2, <2>3, <2>4, <2>5, SyncMove DEF history
<1>2. CASE Adopt(p)
  <2> DEFINE new == IF shut THEN {} ELSE Approved \ (Keyed \cup twin)
             r == [proc[p] EXCEPT !.todo = new, !.lines = new \cap Keyless,
                                  !.pc = IF shut THEN "prev" ELSE IF new = {} THEN "list" ELSE "put"]
  <2>1. /\ proc' = [proc EXCEPT ![p] = r] /\ proc[p].pc = "gate" /\ proc[p].op = "sync"
        /\ halved' = halved \cup (new \cap Keyless)
        /\ UNCHANGED <<rows, twin, door, seenVars, shut, granted, calls, faults, cut, raced, missed, left, peeked>>
    BY <1>2 DEF Adopt, At, Places
  <2>2. new \subseteq Device \ Keyed /\ proc[p] \in Process
    BY DeviceAssumption DEF DeviceAssumption, TypeOK
  <2>3. \A e \in new \ (new \cap Keyless) : rows[e].status = "none"
    BY <2>2 DEF Keyless, Files
  <2>a. /\ shut => new = {}
        /\ r \in Process /\ r.op = "sync" /\ r.todo = new /\ r.lines = new \cap Keyless
        /\ r.pc = IF shut THEN "prev" ELSE IF new = {} THEN "list" ELSE "put"
    BY <2>1, <2>2 DEF Process
  <2> HIDE DEF new, r
  <2>4. proc'[p] = r /\ \A q \in Proc \ {p} : proc'[q] = proc[q]
    BY <2>1 DEF TypeOK
  <2>5. Door'
    BY <2>1, <2>a, <2>4, DoorAside
  <2>6. door' \subseteq Device /\ peeked' \in BOOLEAN /\ halved' \subseteq Device /\ halved \subseteq halved'
    BY <1>0, <2>1, <2>2 DEF TypeOK
  <2>7. /\ r.pc \in {"prev", "list", "put"} /\ (r.pc # "put" => r.todo = {})
        /\ r.lines \subseteq halved' /\ \A e \in r.todo \ r.lines : rows[e].status = "none"
    BY <2>1, <2>3, <2>a
  <2> QED BY <2>1, <2>a, <2>5, <2>6, <2>7, SyncMove
<1>3. CASE List(p)
  <2> DEFINE r == [proc[p] EXCEPT !.pc = "prev", !.lines = Active]
  <2>1. /\ proc' = [proc EXCEPT ![p] = r] /\ proc[p].pc = "list" /\ proc[p].op = "sync" /\ proc[p].todo = {}
        /\ UNCHANGED <<rows, twin, door, seenVars, shut, granted, calls, faults, history>>
    BY <1>3 DEF List, At, Places
  <2>2. /\ r \in Process /\ r.op = "sync" /\ r.pc = "prev" /\ r.todo = {}
    BY <2>1 DEF TypeOK, Process, Active, Opening, Keyed
  <2> HIDE DEF r
  <2>3. proc'[p] = r /\ \A q \in Proc \ {p} : proc'[q] = proc[q]
    BY <2>1 DEF TypeOK
  <2>4. Door'
    BY <2>1, <2>2, <2>3, DoorAside DEF history
  <2>5. door' \subseteq Device /\ peeked' \in BOOLEAN
    BY <2>1 DEF TypeOK, history
  <2> QED BY <1>0, <2>1, <2>2, <2>4, <2>5, SyncMove DEF history
<1>4. CASE OpenDoor(p)
  <2>1. /\ proc[p].pc = "prev" /\ proc[p].op = "sync" /\ proc[p].todo = {}
        /\ UNCHANGED <<rows, twin, seenVars, shut, granted, calls, faults, cut, raced, halved, missed, left>>
        /\ peeked' = (peeked \/ \E q \in Proc : proc[q].pc = "fill") /\ peeked' \in BOOLEAN
    BY <1>4 DEF OpenDoor, At, Places, TypeOK
  <2>2. CASE proc[p].lines = {} /\ door # {}
    <3>1. proc' = [proc EXCEPT ![p] = Idle] /\ UNCHANGED door
      BY <1>4, <2>2 DEF OpenDoor
    <3>2. proc'[p] = Idle /\ \A q \in Proc \ {p} : proc'[q] = proc[q]
      BY <3>1 DEF TypeOK
    <3>3. Door'
      BY <1>0, <2>1, <2>2, <3>1, <3>2 DEF Door, DoorKept, At
    <3>4. door' \subseteq Device
      BY <3>1 DEF TypeOK
    <3> QED BY <1>0, <2>1, <3>1, <3>2, <3>3, <3>4, SyncMove
  <2>3. CASE ~(proc[p].lines = {} /\ door # {})
    <3> DEFINE r == [proc[p] EXCEPT !.pc = "fill"]
    <3>1. proc' = [proc EXCEPT ![p] = r] /\ door' = {}
      BY <1>4, <2>3 DEF OpenDoor
    <3>2. r \in Process /\ r.op = "sync" /\ r.pc = "fill" /\ r.lines = proc[p].lines /\ r.todo = {}
      BY <2>1 DEF TypeOK, Process
    <3> HIDE DEF r
    <3>3. proc'[p] = r /\ \A q \in Proc \ {p} : proc'[q] = proc[q]
      BY <3>1 DEF TypeOK
    <3>4. r.lines = {} => peeked'
      BY <2>1, <2>3, <3>2 DEF Door, DoorKept, At
    <3>5. Door'
      <4>1. (\A q \in Proc : At(q, "fill") /\ proc[q].lines = {} => peeked)'
        BY <2>1, <3>3, <3>4 DEF Door, At
      <4>2. DoorKept'
        BY <3>2, <3>3 DEF DoorKept, At
      <4> QED BY <4>1, <4>2 DEF Door
    <3> QED BY <1>0, <2>1, <3>1, <3>2, <3>5, SyncMove
  <2> QED BY <2>2, <2>3
<1>5. CASE FillDoor(p)
  <2>1. /\ proc' = [proc EXCEPT ![p] = Idle] /\ proc[p].pc = "fill" /\ proc[p].op = "sync"
        /\ door' = proc[p].lines /\ door' \subseteq Device /\ peeked' = peeked /\ peeked' \in BOOLEAN
        /\ UNCHANGED <<rows, twin, seenVars, shut, granted, calls, faults, cut, raced, halved, missed, left>>
    BY <1>5 DEF FillDoor, At, Places, history, TypeOK, Process
  <2>2. proc'[p] = Idle /\ \A q \in Proc \ {p} : proc'[q] = proc[q]
    BY <2>1 DEF TypeOK
  <2>3. Door'
    BY <1>0, <2>1, <2>2 DEF Door, DoorKept, At
  <2> QED BY <1>0, <2>1, <2>2, <2>3, SyncMove
<1> QED BY <1>1, <1>2, <1>3, <1>4, <1>5 DEF Sync
-----------------------------------------------------------------------------
(* Sightings, deaths and the org.                                              *)

\* The drain takes the log, and empties it when all it took is stamped.
LEMMA DrainStep ==
    ASSUME IInv, Drain \/ \E p \in Proc : EmptyLog(p)
    PROVE  IInv'
<1> USE ProcAssumption, CountAssumption DEF ProcAssumption, CountAssumption, IInv
<1>0. /\ Drainer \in Proc /\ Cli \subseteq Proc /\ Drainer \notin Cli /\ MaxSeen \in Nat
      /\ \A q \in Proc : proc[q].op = "drain" => q = Drainer
      /\ Idle.op = "none" /\ Idle.pc = "idle" /\ Idle \in Process
  BY DEF Places, Proc, Idle, Busy, Process
<1>1. ASSUME Drain PROVE IInv'
  <2> DEFINE todo == {d \in Device : log[d] > 0}
             r == Busy("drain", "read", todo)
  <2>1. /\ UNCHANGED <<rows, twin, door, log, sighted, shut, granted, calls, faults, history>> /\ took' = log
        /\ proc' = [proc EXCEPT ![Drainer] = r] /\ todo # {} /\ proc[Drainer] = Idle
    BY <1>0, <1>1 DEF Drain, Starts, At, Places
  <2>2. /\ r \in Process /\ r.op = "drain" /\ r.pc = "read" /\ r.todo = todo
    BY DEF Busy, Process
  <2> HIDE DEF r
  <2>3. proc'[Drainer] = r /\ \A q \in Proc \ {Drainer} : proc'[q] = proc[q]
    BY <1>0, <2>1 DEF TypeOK
  <2>4. TypeOK'
    BY <2>1, <2>2 DEF TypeOK, history
  <2>5. Places'
    BY <1>0, <2>1, <2>2, <2>3 DEF Places, history
  <2>a. UNCHANGED <<rows, twin, door, log, sighted, granted, cut, raced, halved, missed, left, peeked>>
    BY <2>1 DEF history
  <2>6. InHand'
    BY <1>0, <2>1, <2>2, <2>3, <2>a, InHandAside
  <2>7. Live' = Live /\ Rows' /\ \A d, s : Has(d, s)' => Has(d, s)
    BY <1>0, <2>1, <2>2, <2>3, <2>a, Aside
  <2>8. Door'
    BY <1>0, <2>1, <2>2, <2>3, <2>a, DoorAside
  <2>9. Log'
    <3>1. \A d \in Device : d \in todo <=> log[d] > 0
      OBVIOUS
    <3>2. Sound' = Sound
      BY <2>a DEF Sound
    <3>3. ASSUME NEW d \in Sound' \ missed', NEW s \in RowType, Has(d, s)'
          PROVE  /\ s.seen < sighted'[d] => log'[d] > 0
                 /\ proc'[Drainer].op = "drain" /\ took'[d] > 0 /\ d \notin proc'[Drainer].todo => s.seen >= took'[d]
      BY <2>1, <2>2, <2>3, <2>7, <2>a, <3>1, <3>2, <3>3 DEF Log, Sound
    <3>4. \A d \in Device :
            /\ log'[d] > 0 => log'[d] = sighted'[d]
            /\ proc'[Drainer].op = "drain" /\ d \in proc'[Drainer].todo => log'[d] > 0
      BY <2>2, <2>3, <2>a, <3>1 DEF Log
    <3> QED BY <3>3, <3>4 DEF Log
  <2>10. Cut'
    BY <1>0, <2>1, <2>2, <2>3, <2>7, <2>a, CutAside
  <2> QED BY <2>4, <2>5, <2>6, <2>7, <2>8, <2>9, <2>10
<1>2. ASSUME NEW p \in Proc, EmptyLog(p) PROVE IInv'
  <2>1. /\ UNCHANGED <<rows, twin, door, sighted, shut, granted, calls, faults, cut, raced, halved, left, peeked>>
        /\ log' = [d \in Device |-> 0] /\ took' = log'
        /\ missed' = missed \cup {d \in Device : log[d] > took[d]}
        /\ proc' = [proc EXCEPT ![Drainer] = Idle] /\ p = Drainer
        /\ proc[Drainer].pc = "empty" /\ proc[Drainer].op = "drain" /\ proc[Drainer].todo = {}
    BY <1>0, <1>2 DEF EmptyLog, At, Places
  <2>2. proc'[Drainer] = Idle /\ \A q \in Proc \ {Drainer} : proc'[q] = proc[q]
    BY <1>0, <2>1 DEF TypeOK
  <2>3. \A d \in Device : log'[d] = 0
    BY <2>1
  <2>4. TypeOK'
    <3>1. log' \in [Device -> 0..MaxSeen] /\ took' \in [Device -> 0..MaxSeen]
      BY <1>0, <2>1
    <3>2. proc' \in [Proc -> Process] /\ missed' \subseteq Device
      BY <1>0, <2>1 DEF TypeOK
    <3> QED BY <2>1, <3>1, <3>2 DEF TypeOK
  <2>5. Places'
    BY <1>0, <2>1, <2>2 DEF Places
  <2>6. InHand'
    BY <1>0, <2>1, <2>2, InHandAside
  <2>7. Live' = Live /\ Rows' /\ \A d, s : Has(d, s)' => Has(d, s)
    BY <1>0, <2>1, <2>2, Aside
  <2>8. Door'
    BY <1>0, <2>1, <2>2, DoorAside
  <2>9. Log'
    <3>1. ASSUME NEW d \in Sound' \ missed', NEW s \in RowType, Has(d, s)' PROVE ~(s.seen < sighted'[d])
      <4>0. /\ s.seen \in Nat /\ sighted[d] \in Nat /\ log[d] \in Nat /\ took[d] \in Nat
            /\ d \in Sound /\ d \notin missed /\ d \in Device /\ Has(d, s) /\ ~(log[d] > took[d])
        BY <1>0, <2>1, <2>7, <3>1 DEF TypeOK, RowType, Sound
      <4>1. /\ s.seen < sighted[d] => log[d] > 0
            /\ took[d] > 0 => s.seen >= took[d]
            /\ log[d] > 0 => log[d] = sighted[d]
        BY <2>1, <4>0 DEF Log
      <4> QED BY <2>1, <4>0, <4>1
    <3> QED BY <1>0, <2>1, <2>2, <2>3, <3>1 DEF Log
  <2>10. Cut'
    BY <1>0, <2>1, <2>2, <2>7, CutAside
  <2> QED BY <2>4, <2>5, <2>6, <2>7, <2>8, <2>9, <2>10
<1> QED BY <1>1, <1>2

\* A device offers its key.
LEMMA SightedStep ==
    ASSUME IInv, NEW d \in Device, Sighted(d)
    PROVE  IInv'
<1> USE DEF IInv
<1>1. /\ UNCHANGED <<rows, twin, door, proc, took, shut, granted, calls, faults, history>>
      /\ sighted' = [sighted EXCEPT ![d] = sighted[d] + 1] /\ log' = [log EXCEPT ![d] = sighted'[d]]
      /\ sighted[d] < MaxSeen
  BY DEF Sighted
<1>2. /\ sighted[d] \in Nat /\ MaxSeen \in Nat /\ sighted'[d] = sighted[d] + 1 /\ log'[d] = sighted[d] + 1
      /\ \A e \in Device \ {d} : sighted'[e] = sighted[e] /\ log'[e] = log[e]
  BY <1>1, CountAssumption DEF CountAssumption, TypeOK
<1>3. TypeOK'
  <2>1. sighted' \in [Device -> 0..MaxSeen] /\ log' \in [Device -> 0..MaxSeen]
    BY <1>1, <1>2 DEF TypeOK
  <2> QED BY <1>1, <2>1 DEF TypeOK, history
<1>a. UNCHANGED <<rows, twin, door, proc, took, granted, calls, cut, raced, halved, missed, left, peeked>>
  BY <1>1 DEF history
<1>4. Places' /\ InHand' /\ Rows'
  BY <1>a DEF Places, InHand, Rows, Sound, Writes, Holds
<1>6. Door'
  BY <1>a DEF Door, DoorKept, At
<1>7. Log'
  <2>1. Sound' = Sound /\ \A e, s : Has(e, s)' <=> Has(e, s)
    BY <1>a DEF Sound, Has, Writes, Keyless, Files, Keyed
  <2> QED BY <1>2, <1>a, <2>1 DEF Log, Sound
<1>8. Cut'
  <2>1. Live' = Live
    BY <1>a DEF Live, Active, Opening, Keyed, Writes
  <2> QED BY <1>a, <2>1 DEF Cut
<1> QED BY <1>3, <1>4, <1>6, <1>7, <1>8

\* A process dies, or the org changes its mind.
LEMMA FaultStep ==
    ASSUME IInv, OrgFlips \/ \E p \in Proc : Died(p)
    PROVE  IInv'
<1> USE ProcAssumption, CountAssumption DEF ProcAssumption, CountAssumption, IInv
<1>0. faults < MaxFaults /\ faults' = faults + 1 /\ faults' \in 0..MaxFaults
  BY DEF OrgFlips, Died, TypeOK
<1>1. ASSUME OrgFlips PROVE IInv'
  <2>1. UNCHANGED <<rows, twin, door, proc, seenVars, granted, calls, history>> /\ shut' \in BOOLEAN
    BY <1>1 DEF OrgFlips
  <2>2. TypeOK'
    BY <1>0, <2>1 DEF TypeOK, seenVars, history
  <2>3. Places' /\ InHand' /\ Rows'
    BY <2>1 DEF Places, InHand, Rows, Sound, Writes, Holds, history
  <2>4. Door' /\ Log'
    BY <2>1 DEF Door, DoorKept, Log, At, history, seenVars, Sound, Has, Writes, Keyless, Files, Keyed
  <2>5. Cut'
    <3>1. Live' = Live
      BY <2>1 DEF Live, Active, Opening, Keyed, Writes
    <3> QED BY <2>1, <3>1 DEF Cut, history
  <2> QED BY <2>2, <2>3, <2>4, <2>5
<1>2. ASSUME NEW p \in Proc, Died(p) PROVE IInv'
  <2>0. /\ Idle.op = "none" /\ Idle.pc = "idle" /\ Idle \in Process
        /\ Drainer \in Proc /\ Cli \subseteq Proc
    BY DEF Idle, Busy, Process, Proc
  <2>1. /\ proc' = [proc EXCEPT ![p] = Idle]
        /\ left' = (IF proc[p].op = "cascade" THEN left \cup OfAccount ELSE left)
        /\ peeked' = (peeked \/ proc[p].pc = "fill")
        /\ halved' = (IF proc[p].pc = "write" THEN halved \cup {proc[p].dev} ELSE halved)
        /\ UNCHANGED <<rows, twin, door, log, took, sighted, shut, granted, calls, cut, raced, missed>>
    BY <1>2 DEF Died, At, seenVars
  <2>2. proc'[p] = Idle /\ \A q \in Proc \ {p} : proc'[q] = proc[q]
    BY <2>1 DEF TypeOK
  <2>a. /\ halved \subseteq halved' /\ halved' \subseteq Device /\ left \subseteq left' /\ Sound' \subseteq Sound
        /\ \A d \in Device : Writes(p, d) => d \notin Sound'
    <3>1. /\ proc[p].pc = "write" => proc[p].dev \in Device
          /\ halved \subseteq Device
      BY DEF Places, TypeOK, Process
    <3> QED BY <2>1, <3>1 DEF Sound, Writes
  <2>b. \A q \in Proc, d \in Device : Writes(q, d)' <=> q # p /\ Writes(q, d)
    BY <2>0, <2>2 DEF Writes
  <2>3. TypeOK'
    <3>1. left' \subseteq Device /\ peeked' \in BOOLEAN
      BY <2>1, DeviceAssumption DEF DeviceAssumption, TypeOK
    <3>2. proc' \in [Proc -> Process]
      BY <2>0, <2>1 DEF TypeOK
    <3> QED BY <1>0, <2>1, <2>a, <3>1, <3>2 DEF TypeOK
  <2>4. Places'
    BY <2>0, <2>1, <2>2, <2>a DEF Places
  <2>5. InHand'
    <3>1. ASSUME NEW q \in Proc, NEW e \in Sound'
          PROVE  /\ proc'[q].pc = "truncate" /\ proc'[q].dev = e => proc'[q].row = rows'[e] /\ rows'[e].key
                 /\ proc'[q].op \in {"add", "sync"} /\ e \in proc'[q].todo \ proc'[q].lines /\ ~Writes(q, e)' =>
                       rows'[e].status = "none"
                 /\ Writes(q, e)' => rows'[e] = Husk /\ \A x \in Proc \ {q} : ~Holds(x, e)'
      <4>0. e \in Sound /\ e \in Device
        BY <2>a, <3>1 DEF Sound
      <4>1. CASE q = p
        BY <2>0, <2>2, <2>b, <4>0, <4>1
      <4>2. CASE q # p
        <5>1. ~Holds(p, e)' /\ \A x \in Proc \ {p} : Holds(x, e)' <=> Holds(x, e)
          BY <2>0, <2>2 DEF Holds
        <5> QED BY <2>1, <2>2, <2>b, <4>0, <4>2, <5>1 DEF InHand
      <4> QED BY <4>1, <4>2
    <3> QED BY <3>1 DEF InHand
  <2>6. Rows'
    <3>1. ASSUME NEW d \in cut' \cap Sound'
          PROVE  /\ rows'[d].status = "revoked" \/ \E q \in Proc : Writes(q, d)'
                 /\ \A q \in Proc : Writes(q, d)' => proc'[q].op \notin {"add", "sync"} /\ proc'[q].row.status = "revoked"
      <4>0. d \in cut \cap Sound /\ d \in Device /\ ~Writes(p, d)
        BY <2>1, <2>a, <3>1 DEF Sound
      <4>1. rows[d].status = "revoked" \/ \E q \in Proc : Writes(q, d)
        BY <4>0 DEF Rows
      <4>2. \A q \in Proc : Writes(q, d) => q # p /\ Writes(q, d)' /\ proc'[q] = proc[q]
        BY <2>2, <2>b, <4>0
      <4> QED BY <2>1, <2>2, <2>b, <4>0, <4>1, <4>2 DEF Rows
    <3> QED BY <2>1, <2>a, <3>1 DEF Rows
  <2>7. Door'
    <3>1. CASE proc[p].pc = "fill"
      BY <2>1, <3>1 DEF Door, DoorKept
    <3>2. CASE proc[p].pc # "fill"
      <4>1. peeked' = peeked
        BY <2>1, <3>2 DEF TypeOK
      <4>2. door' = door
        BY <2>1
      <4> QED BY <2>0, <2>2, <3>2, <4>1, <4>2, DoorAside
    <3> QED BY <3>1, <3>2
  <2>8. Log'
    <3>1. proc'[Drainer].op = "drain" => proc'[Drainer] = proc[Drainer]
      BY <2>0, <2>2
    <3>2. ASSUME NEW d \in Sound', NEW s \in RowType, Has(d, s)' PROVE Has(d, s)
      <4>1. \A q \in Proc : Writes(q, d)' => Writes(q, d) /\ proc'[q] = proc[q]
        BY <2>2, <2>b, <3>2 DEF Sound
      <4>2. (d \in Keyless)' <=> d \in Keyless
        BY <2>1 DEF Keyless, Files, Keyed
      <4> QED BY <2>1, <3>2, <4>1, <4>2 DEF Has
    <3> QED BY <2>1, <2>a, <3>1, <3>2, LogAside
  <2>9. Cut'
    <3>1. ASSUME NEW d \in Live' PROVE d \in Live
      <4>1. \A q \in Proc : Writes(q, d)' => Writes(q, d) /\ proc'[q] = proc[q]
        BY <2>0, <2>2 DEF Writes
      <4> QED BY <2>1, <3>1, <4>1 DEF Live, Active, Opening, Keyed
    <3>2. CASE proc[p].op # "cascade"
      BY <2>0, <2>1, <2>2, <2>a, <3>1, <3>2, CutAside
    <3>3. CASE proc[p].op = "cascade"
      <4>1. OfAccount \subseteq left' /\ granted' = granted
        BY <2>1, <3>3
      <4>2. \A q \in Cli : proc'[q].op = "cascade" => proc[q].op = "cascade"
        BY <2>0, <2>2
      <4> QED BY <4>1, <4>2 DEF Cut
    <3> QED BY <3>2, <3>3
  <2> QED BY <2>3, <2>4, <2>5, <2>6, <2>7, <2>8, <2>9
<1> QED BY <1>1, <1>2

\* Every step.
LEMMA IInvStep == IInv /\ [Next]_vars => IInv'
<1> SUFFICES ASSUME IInv, [Next]_vars PROVE IInv'
  OBVIOUS
<1>1. ASSUME NEW p \in Cli, RevokeAccount(p) \/ \E d \in Device : Add(p, d) \/ Revoke(p, d) \/ Rename(p, d)
      PROVE  IInv'
  BY <1>1, StartStep
<1>2. CASE Tick
  <2>1. Ticker \in Proc
    BY DEF Proc
  <2> QED BY <1>2, <2>1, SyncStep
<1>3. CASE Drain \/ OrgFlips
  BY <1>3, DrainStep, FaultStep
<1>4. ASSUME NEW p \in Proc, Step(p) \/ Died(p) PROVE IInv'
  <2>1. CASE Rewrite(p)
    BY <2>1, HuskStep, WriteStep, ReadStep, TwinStep DEF Rewrite
  <2> QED BY <1>4, <2>1, SyncStep, CascadeStep, DrainStep, FaultStep DEF Step
<1>5. ASSUME NEW d \in Offering, Sighted(d) PROVE IInv'
  <2>1. d \in Device
    BY DeviceAssumption DEF DeviceAssumption
  <2> QED BY <1>5, <2>1, SightedStep
<1>6. CASE UNCHANGED vars
  <2>1. UNCHANGED <<rows, twin, door, proc, log, took, sighted, shut, granted, calls, faults, cut, raced, halved, missed, left, peeked>>
    BY <1>6 DEF vars, seenVars, history
  <2>2. TypeOK' /\ Places' /\ InHand' /\ Rows'
    BY <2>1 DEF IInv, TypeOK, Places, InHand, Rows, Sound, Writes, Holds
  <2>3. Door' /\ Log'
    BY <2>1 DEF IInv, Door, DoorKept, Log, At, Sound, Has, Writes, Keyless, Files, Keyed
  <2>4. Live' = Live
    BY <2>1 DEF Live, Active, Opening, Keyed, Writes
  <2>5. Cut'
    BY <2>1, <2>4 DEF IInv, Cut
  <2> QED BY <2>2, <2>3, <2>5 DEF IInv
<1> QED BY <1>1, <1>2, <1>3, <1>4, <1>5, <1>6 DEF Next

\* Always.
LEMMA IInvAlways == Spec => []IInv
  BY IInvInit, IInvStep, PTL DEF Spec
-----------------------------------------------------------------------------
(* The theorems.                                                               *)

\* Every variable of the roster and the door keeps its type.
THEOREM TypeCorrect == Spec => []TypeOK
<1>1. IInv => TypeOK
  BY DEF IInv
<1> QED BY IInvAlways, <1>1, PTL

\* A revoked device stays revoked, and its key gets no second row, unless two processes
\* wrote its row across each other or one used it torn or died in writing it
\* (roster.mjs truncates a row to write it; device-sync.mjs adopts no key a row holds).
THEOREM RevokedRemains == Spec => []RevokedStays
<1>1. IInv => RevokedStays
  <2>1. ASSUME IInv, NEW d \in cut \ (raced \cup halved)
        PROVE  d \notin twin /\ (rows[d].status = "revoked" \/ \E p \in Proc : At(p, "write") /\ proc[p].dev = d)
    BY <2>1 DEF IInv, TypeOK, Rows, Sound, Writes, At
  <2> QED BY <2>1 DEF RevokedStays
<1> QED BY IInvAlways, <1>1, PTL

\* A door that opens is never emptied but for the moment of a write, or by a process
\* that read it in such a moment, or died in it (device-sync.mjs, syncKeys).
THEOREM DoorIsKept == Spec => []DoorKept
<1>1. IInv => DoorKept
  BY DEF IInv, Door
<1> QED BY IInvAlways, <1>1, PTL

\* A sighting is stamped or still in the log, but for those of the drain's own window
\* and of rows written across each other, used torn or left so (seen-drain.mjs).
THEOREM SightingsAreKept == Spec => []SightingsKept
<1>1. IInv => SightingsKept
  <2>1. ASSUME IInv, NEW d \in Keyed \ (missed \cup raced \cup halved)
        PROVE  rows[d].seen < sighted[d] => log[d] > 0
    <3>1. d \in Sound \ missed /\ Has(d, rows[d]) /\ rows[d] \in RowType
      BY <2>1 DEF IInv, TypeOK, Keyed, Keyless, Sound, Has
    <3> QED BY <2>1, <3>1 DEF IInv, Log
  <2> QED BY <2>1 DEF SightingsKept
<1> QED BY IInvAlways, <1>1, PTL

\* With its grant gone an account keeps no device but those its cascade died over, never
\* saw or met torn, and rows written across each other (grants.mjs, revokeWithCascade).
THEOREM AccountIsCutOff == Spec => []AccountIsCut
<1>1. IInv => AccountIsCut
  BY DEF IInv, Cut, AccountIsCut, Live
<1> QED BY IInvAlways, <1>1, PTL
=============================================================================
