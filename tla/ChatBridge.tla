------------------------------- MODULE ChatBridge -------------------------------
(* The owner's chats (engine/comms): the Telegram bridge (telegram.mjs, reading   *)
(* and sending, or sending only), the Slack bridge (slack-dm.mjs), the kernel that *)
(* turns a message into a reply, and the outbox directory all three share.  Every  *)
(* await is a point where another process may step in or the process may die.      *)
EXTENDS Naturals, Sequences, FiniteSetsExt

CONSTANTS
    NT, NS,        \* messages sent to the Telegram bot, and to the assistant in Slack
    Parts,         \* posts a Slack reply is split into
    Torn,          \* an offset file truncated and not yet written
    MaxFaults,     \* deaths, lost answers, failing writes and changes of the marker
    MaxAgain       \* redeliveries by Slack

\* A message, its job and its reply have one number; the replies lie in the outbox
\* in this order.
Sl == 1..NS
Tg == NS + 1..NS + NT
Msg == Tg \cup Sl

ASSUME CountAssumption == {MaxFaults, MaxAgain} \subseteq Nat /\ {NT, NS, Parts} \subseteq Nat \ {0} /\ Torn \notin Nat

VARIABLES
    foreign,       \* Telegram messages from another chat than the bound one
    refused,       \* replies the service refuses for good
    arrived, confirmed,   \* at Telegram: the last message fetched, the last it no longer keeps
    offset,        \* .kernel/telegram-offset, the last message handled
    again,         \* redeliveries by Slack so far
    heard,         \* Slack messages delivered at least once
    jobs,          \* per message how many jobs were queued
    box,           \* per reply its file in .kernel/outbox: none, empty, full, gone
    kernel,        \* the message the kernel is writing a reply to, or 0
    tg,            \* the Telegram bridge: mode, pc, batch, todo
    sl,            \* the Slack bridge: up, pc, seen, pending, todo, done (sentParts), dm (ownerDm)
    dmFile,        \* the DM is in .kernel/slack-dm-channel
    host,          \* .kernel/telegram-reader says `host`
    posts,         \* per reply and part how often it was posted
    faults,        \* deaths, lost answers, failing writes and changes of the marker so far
    taken,         \* the bridges whose pidfile names a pid that another program has now
    cut,           \* history: messages in hand when the bridge died
    dropped,       \* history: messages whose enqueue failed, the bridge living on
    unsure,        \* history: replies posted with nobody left to note it
    tornOffset     \* history: the bridge died, or its write failed, in setOffset

inVars == <<foreign, refused, arrived, confirmed, offset, again, heard, jobs>>
outVars == <<box, posts, unsure, faults>>
worldVars == <<dmFile, host, taken, cut, dropped, tornOffset>>
vars == <<inVars, outVars, worldVars, kernel, tg, sl>>

PartsOf(m) == 1..(IF m \in Tg THEN 1 ELSE Parts)
Cap2(n) == Min({n + 1, 2})
Fault == faults < MaxFaults /\ faults' = faults + 1
Lost(m) == Fault /\ unsure' = unsure \cup {m}
Posted(m, i) == posts' = [posts EXCEPT ![m][i] = Cap2(@)]
Bridges == {"reader", "sender", "slack"}
Outbox == {m \in Msg : box[m] \in {"empty", "full"}}
TgOff(mode) == [mode |-> mode, pc |-> "idle", batch |-> <<>>, todo |-> {}]
SlUp(up, dm) == [up |-> up, pc |-> "idle", seen |-> {}, pending |-> <<>>, todo |-> {}, done |-> [m \in Sl |-> 0], dm |-> dm]

\* At most one thing is out of the ordinary: a message of another chat, a refused
\* reply, the person's own program reading the bot, or pidfiles left by an earlier
\* container (box-up.sh removes Telegram's, and only when it ends in order).
Init ==
    /\ foreign \in {{}, {NS + 1}} /\ refused \in {{}} \cup {{m} : m \in {m \in Msg : foreign = {} /\ m # NS + NT}}
    /\ arrived = NS /\ confirmed = NS /\ offset = 0 /\ again = 0 /\ heard = {}
    /\ jobs = [m \in Msg |-> 0] /\ box = [m \in Msg |-> "none"] /\ kernel = 0
    /\ tg = TgOff("off") /\ sl = SlUp(FALSE, FALSE) /\ dmFile = FALSE
    /\ host \in {FALSE, foreign = {} /\ refused = {}} /\ posts = [m \in Msg |-> [i \in PartsOf(m) |-> 0]]
    /\ taken \in SUBSET Bridges /\ (taken # {} => foreign = {} /\ refused = {})
    /\ faults = 0 /\ cut = {} /\ dropped = {} /\ unsure = {} /\ tornOffset = FALSE
-----------------------------------------------------------------------------
(* telegram.mjs, reading: pollTurn and handleUpdates.                          *)

\* getUpdates: what is below the offset is confirmed, the rest comes (again), with
\* what was sent to the bot since.  An offset that does not parse is 0.
Poll ==
    /\ tg.mode = "reader" /\ tg.pc = "idle"
    /\ arrived' \in arrived..NS + NT
    /\ confirmed' = (IF offset = Torn THEN confirmed ELSE Max({confirmed, offset}))
    /\ tg' = [tg EXCEPT !.pc = "batch", !.batch = [i \in 1..arrived' - confirmed' |-> confirmed' + i]]
    /\ UNCHANGED <<foreign, refused, offset, again, heard, jobs, outVars, worldVars, kernel, sl>>

\* setOffset, before anything is done with the message: the file is opened ...
OpenOffset ==
    /\ tg.pc = "batch" /\ tg.batch # <<>>
    /\ tg' = [tg EXCEPT !.pc = "opened"] /\ offset' = Torn
    /\ UNCHANGED <<foreign, refused, arrived, confirmed, again, heard, jobs, outVars, worldVars, kernel, sl>>

\* ... and written.
SaveOffset ==
    /\ tg.pc = "opened"
    /\ tg' = [tg EXCEPT !.pc = "saved"] /\ offset' = Head(tg.batch)
    /\ UNCHANGED <<foreign, refused, arrived, confirmed, again, heard, jobs, outVars, worldVars, kernel, sl>>

Queued(m) == jobs' = [jobs EXCEPT ![m] = Cap2(@)]

\* A message of the bound chat becomes a job, one of another chat is dropped.
Enqueue ==
    /\ tg.pc = "saved"
    /\ tg' = [tg EXCEPT !.pc = "batch", !.batch = Tail(@)]
    /\ IF Head(tg.batch) \in foreign THEN UNCHANGED jobs ELSE Queued(Head(tg.batch))
    /\ UNCHANGED <<foreign, refused, arrived, confirmed, offset, again, heard, outVars, worldVars, kernel, sl>>

\* setOffset or the enqueue fails (no space): the exception ends the turn in the main
\* loop, and the rest of the batch is fetched again.  The message whose offset is
\* saved is not.
HandlingFails ==
    /\ tg.pc \in {"opened", "saved"} /\ (tg.pc = "saved" => Head(tg.batch) \notin foreign)
    /\ Fault
    /\ tg' = [tg EXCEPT !.pc = "idle", !.batch = <<>>]
    /\ dropped' = (IF tg.pc = "saved" THEN dropped \cup {Head(tg.batch)} ELSE dropped)
    /\ tornOffset' = (tornOffset \/ tg.pc = "opened")
    /\ UNCHANGED <<inVars, box, posts, unsure, dmFile, host, taken, cut, kernel, sl>>
-----------------------------------------------------------------------------
(* flushOutbox of telegram.mjs.  The files come in the order of their names.   *)

FlushTg ==
    /\ \/ tg.mode = "reader" /\ tg.pc = "batch" /\ tg.batch = <<>>
       \/ tg.mode = "sender" /\ tg.pc = "idle" /\ host
    /\ tg' = [tg EXCEPT !.pc = IF Outbox = {} THEN "idle" ELSE "flush", !.todo = Outbox]
    /\ UNCHANGED <<inVars, outVars, worldVars, kernel, sl>>

PassEnds == tg' = [tg EXCEPT !.pc = "idle", !.todo = {}]
NextFile == tg' = [tg EXCEPT !.pc = IF tg.todo = {Min(tg.todo)} THEN "idle" ELSE "flush", !.todo = @ \ {Min(@)}]

\* The next file is Slack's and stays; or it is not whole, or gone since, and the
\* pass ends by an exception.
FlushTgNext ==
    /\ tg.pc = "flush"
    /\ IF box[Min(tg.todo)] = "full" THEN Min(tg.todo) \in Sl /\ NextFile ELSE PassEnds
    /\ UNCHANGED <<inVars, outVars, worldVars, kernel, sl>>

NextTg(m) == tg.pc = "flush" /\ m = Min(tg.todo) /\ box[m] = "full" /\ m \in Tg

\* sendMessage answers ok; the file is then removed.
SendTg(m) ==
    /\ NextTg(m) /\ m \notin refused /\ Posted(m, 1)
    /\ tg' = [tg EXCEPT !.pc = "sent"]
    /\ UNCHANGED <<inVars, box, unsure, faults, worldVars, kernel, sl>>

\* Mutant of SendTgFails: a refused record ends the pass.
SendTgFailsBreaking(m) ==
    /\ NextTg(m)
    /\ IF m \in refused THEN PassEnds /\ UNCHANGED <<posts, unsure, faults>>
       ELSE \/ PassEnds /\ UNCHANGED <<posts, unsure, faults>>
            \/ PassEnds /\ Posted(m, 1) /\ Lost(m)
    /\ UNCHANGED <<inVars, box, worldVars, kernel, sl>>

\* It is refused and stays, for the next pass; or the network fails, before or
\* after the message got through, and the pass ends by an exception.
SendTgFails(m) ==
    /\ NextTg(m)
    /\ IF m \in refused THEN NextFile /\ UNCHANGED <<posts, unsure, faults>>
       ELSE \/ PassEnds /\ UNCHANGED <<posts, unsure, faults>>
            \/ PassEnds /\ Posted(m, 1) /\ Lost(m)
    /\ UNCHANGED <<inVars, box, worldVars, kernel, sl>>

RemoveTg ==
    /\ tg.pc = "sent"
    /\ box' = [box EXCEPT ![Min(tg.todo)] = "gone"]
    /\ NextFile
    /\ UNCHANGED <<inVars, posts, unsure, faults, worldVars, kernel, sl>>
-----------------------------------------------------------------------------
(* slack-dm.mjs.                                                               *)

\* Mutant of Envelope: a redelivered envelope is taken again.
EnvelopeAgain(m) ==
    /\ sl.up /\ m \in Sl
    /\ IF m \in heard THEN again < MaxAgain /\ again' = again + 1 ELSE UNCHANGED again
    /\ heard' = heard \cup {m}
    /\ sl' = [sl EXCEPT !.pending = Append(@, m)]
    /\ UNCHANGED <<foreign, refused, arrived, confirmed, offset, jobs, outVars, worldVars, kernel, tg>>

\* onEnvelope: Slack delivers a message, or one it thinks was missed again.
Envelope(m) ==
    /\ sl.up /\ m \in Sl
    /\ IF m \in heard THEN again < MaxAgain /\ again' = again + 1 ELSE UNCHANGED again
    /\ heard' = heard \cup {m}
    /\ sl' = (IF m \in sl.seen THEN sl ELSE [sl EXCEPT !.seen = @ \cup {m}, !.pending = Append(@, m)])
    /\ UNCHANGED <<foreign, refused, arrived, confirmed, offset, jobs, outVars, worldVars, kernel, tg>>

\* learnDm, before the first job is queued.
LearnDm ==
    /\ sl.pending # <<>> /\ ~sl.dm
    /\ sl' = [sl EXCEPT !.dm = TRUE] /\ dmFile' = TRUE
    /\ UNCHANGED <<inVars, outVars, host, taken, cut, dropped, tornOffset, kernel, tg>>

\* The enqueues, one after another in the order of arrival.
EnqueueSl ==
    /\ sl.pending # <<>> /\ sl.dm
    /\ Queued(Head(sl.pending)) /\ sl' = [sl EXCEPT !.pending = Tail(@)]
    /\ UNCHANGED <<foreign, refused, arrived, confirmed, offset, again, heard, outVars, worldVars, kernel, tg>>

\* One fails: the next in the chain goes on, and what was seen stays seen.
EnqueueSlFails ==
    /\ sl.pending # <<>> /\ sl.dm /\ Fault
    /\ sl' = [sl EXCEPT !.pending = Tail(@)] /\ dropped' = dropped \cup {Head(sl.pending)}
    /\ UNCHANGED <<inVars, box, posts, unsure, dmFile, host, taken, cut, tornOffset, kernel, tg>>

\* The pass goes over the files; one that is not whole, gone or Telegram's is
\* passed over, a reply to a DM that is not known to be the owner's is dropped.
FlushSl ==
    /\ sl.up /\ sl.pc = "idle" /\ sl.todo = {}
    /\ sl' = [sl EXCEPT !.todo = Outbox \cap Sl]
    /\ UNCHANGED <<inVars, outVars, worldVars, kernel, tg>>

FlushSlNext ==
    /\ sl.pc = "idle" /\ sl.todo # {}
    /\ LET m == Min(sl.todo) IN
       /\ box[m] # "full" \/ ~sl.dm
       /\ sl' = [sl EXCEPT !.todo = @ \ {m}]
       /\ box' = [box EXCEPT ![m] = IF @ = "full" THEN "gone" ELSE @]
    /\ UNCHANGED <<inVars, posts, unsure, faults, worldVars, kernel, tg>>

NextSl(m) == sl.pc = "idle" /\ sl.todo # {} /\ m = Min(sl.todo) /\ box[m] = "full" /\ sl.dm

\* chat.postMessage of the next part; after the last the file is removed.
PostSl(m) ==
    /\ NextSl(m) /\ m \notin refused /\ Posted(m, sl.done[m] + 1)
    /\ sl' = [sl EXCEPT !.done[m] = @ + 1, !.pc = IF sl.done[m] + 1 = Parts THEN "sent" ELSE "idle"]
    /\ UNCHANGED <<inVars, box, unsure, faults, worldVars, kernel, tg>>

\* Mutant of PostSlFails: what was posted is not kept for the next pass.
PostSlFailsForgetting(m) ==
    /\ NextSl(m)
    /\ \E rest \in {{}, sl.todo \ {m}} :
          sl' = [sl EXCEPT !.todo = rest, !.done[m] = 0]
    /\ \/ UNCHANGED <<posts, unsure, faults>>
       \/ m \notin refused /\ Posted(m, sl.done[m] + 1) /\ Lost(m)
    /\ UNCHANGED <<inVars, box, worldVars, kernel, tg>>

\* It fails, before or after it got through: how far it came is kept (sentParts),
\* and the next file is next unless Slack asks for a pause.
PostSlFails(m) ==
    /\ NextSl(m)
    /\ \E rest \in {{}, sl.todo \ {m}} :
          /\ m \in refused => rest = sl.todo \ {m}
          /\ sl' = [sl EXCEPT !.todo = rest]
    /\ \/ UNCHANGED <<posts, unsure, faults>>
       \/ m \notin refused /\ Posted(m, sl.done[m] + 1) /\ Lost(m)
    /\ UNCHANGED <<inVars, box, worldVars, kernel, tg>>

RemoveSl ==
    /\ sl.pc = "sent"
    /\ LET m == Min(sl.todo) IN
       /\ box' = [box EXCEPT ![m] = "gone"]
       /\ sl' = [sl EXCEPT !.pc = "idle", !.todo = @ \ {m}, !.done[m] = 0]
    /\ UNCHANGED <<inVars, posts, unsure, faults, worldVars, kernel, tg>>
-----------------------------------------------------------------------------
(* The kernel, start-comms.sh and deaths.                                      *)

\* The kernel is done with a job: it creates the reply's file in place ...
Reply(m) ==
    /\ kernel = 0 /\ jobs[m] > 0 /\ box[m] = "none"
    /\ kernel' = m /\ box' = [box EXCEPT ![m] = "empty"]
    /\ UNCHANGED <<inVars, posts, unsure, faults, worldVars, tg, sl>>

\* ... and writes it.
ReplyWritten ==
    /\ kernel # 0 /\ kernel' = 0 /\ box' = [box EXCEPT ![kernel] = "full"]
    /\ UNCHANGED <<inVars, posts, unsure, faults, worldVars, tg, sl>>

\* What a bridge had in hand when it was killed.
TgKilled ==
    /\ cut' = (IF tg.pc = "saved" THEN cut \cup {Head(tg.batch)} ELSE cut)
    /\ tornOffset' = (tornOffset \/ tg.pc = "opened")
    /\ unsure' = (IF tg.pc = "sent" THEN unsure \cup {Min(tg.todo)} ELSE unsure)

\* A bridge that ended leaves its pidfile, and another program may get the pid.
LeavesPid(who) == taken' \in {taken, taken \cup {who}}

\* The supervisor's pass: the bridge that is not to run is stopped and its pidfile
\* removed; the one that is to run is started, unless kill -0 finds its pid alive,
\* whosever it is.
Supervise ==
    LET want == IF host THEN "sender" ELSE "reader" IN
    /\ tg.mode # want /\ tg' = TgOff(IF want \in taken THEN "off" ELSE want)
    /\ taken' = taken \ ({"reader", "sender"} \ {want})
    /\ TgKilled
    /\ UNCHANGED <<inVars, box, posts, faults, dmFile, host, dropped, kernel, sl>>

SuperviseSl ==
    /\ ~sl.up /\ "slack" \notin taken /\ sl' = SlUp(TRUE, dmFile)
    /\ UNCHANGED <<inVars, outVars, worldVars, kernel, tg>>

\* The other program ends.
PidFreed ==
    /\ \E who \in taken : taken' = taken \ {who}
    /\ UNCHANGED <<inVars, outVars, dmFile, host, cut, dropped, tornOffset, kernel, tg, sl>>

\* mainSendOnly: our own program answers the bot again, and the sender stops.
SenderStops ==
    /\ tg.mode = "sender" /\ tg.pc = "idle" /\ ~host /\ tg' = TgOff("off") /\ LeavesPid("sender")
    /\ UNCHANGED <<inVars, outVars, dmFile, host, cut, dropped, tornOffset, kernel, sl>>

\* The move-in hands the bot over, or back.
Handover ==
    /\ Fault /\ host' = ~host
    /\ UNCHANGED <<inVars, box, posts, unsure, dmFile, taken, cut, dropped, tornOffset, kernel, tg, sl>>

DieTg ==
    /\ tg.mode # "off" /\ Fault
    /\ tg' = TgOff("off") /\ TgKilled /\ LeavesPid(tg.mode)
    /\ UNCHANGED <<inVars, box, posts, dmFile, host, dropped, kernel, sl>>

DieSl ==
    /\ sl.up /\ Fault
    /\ cut' = cut \cup sl.seen
    /\ unsure' = unsure \cup {m \in Sl : sl.done[m] > 0}
    /\ sl' = SlUp(FALSE, FALSE) /\ LeavesPid("slack")
    /\ UNCHANGED <<inVars, box, posts, dmFile, host, dropped, tornOffset, kernel, tg>>

\* The kernel dies while it writes: the file stays as it is.
DieKernel ==
    /\ kernel # 0 /\ Fault /\ kernel' = 0
    /\ UNCHANGED <<inVars, box, posts, unsure, worldVars, tg, sl>>

TgSteps ==
    \/ Poll \/ OpenOffset \/ SaveOffset \/ Enqueue \/ FlushTg \/ FlushTgNext \/ RemoveTg
    \/ \E m \in Tg : SendTg(m) \/ SendTgFails(m)
SlSteps ==
    \/ FlushSl \/ FlushSlNext \/ RemoveSl
    \/ \E m \in Sl : PostSl(m) \/ PostSlFails(m)

Next ==
    \/ \E m \in Sl : Envelope(m)
    \/ TgSteps \/ SlSteps \/ LearnDm \/ EnqueueSl \/ HandlingFails \/ EnqueueSlFails
    \/ ReplyWritten \/ \E m \in Msg : Reply(m)
    \/ Supervise \/ SuperviseSl \/ SenderStops \/ Handover \/ PidFreed
    \/ DieTg \/ DieSl \/ DieKernel

Spec == Init /\ [][Next]_vars

\* Every process goes on, start-comms.sh runs every two minutes (as long as the
\* scheduler that calls it lives), and a service that is asked again and again does
\* not fail every time.
FairSpec ==
    /\ Spec
    /\ WF_vars(TgSteps) /\ WF_vars(SlSteps) /\ WF_vars(ReplyWritten) /\ WF_vars(Supervise) /\ WF_vars(SuperviseSl)
    /\ \A m \in Tg : SF_vars(SendTg(m))
    /\ \A m \in Sl : SF_vars(PostSl(m))
-----------------------------------------------------------------------------
\* Every variable stays in its range; a bridge that is not up has nothing in hand.
TypeOK ==
    /\ foreign \subseteq Tg /\ refused \subseteq Msg /\ arrived \in NS..NS + NT /\ confirmed \in NS..arrived
    /\ offset \in {0, Torn} \cup Tg /\ again \in 0..MaxAgain /\ heard \subseteq Sl
    /\ jobs \in [Msg -> 0..2] /\ box \in [Msg -> {"none", "empty", "full", "gone"}] /\ kernel \in Msg \cup {0}
    /\ tg \in [mode : {"off", "reader", "sender"}, batch : Seq(Tg), todo : SUBSET Msg,
              pc : {"idle", "batch", "opened", "saved", "flush", "sent"}]
    /\ tg.mode = "off" => tg = TgOff("off")
    /\ sl \in [up : BOOLEAN, pc : {"idle", "sent"}, seen : SUBSET Sl, pending : Seq(Sl), todo : SUBSET Sl,
              done : [Sl -> 0..Parts], dm : BOOLEAN]
    /\ sl.seen \subseteq heard /\ (~sl.up => sl = SlUp(FALSE, FALSE))
    /\ dmFile \in BOOLEAN /\ host \in BOOLEAN /\ faults \in 0..MaxFaults
    /\ posts = [m \in Msg |-> posts[m]] /\ \A m \in Msg : posts[m] \in [PartsOf(m) -> 0..2]
    /\ taken \subseteq Bridges /\ cut \subseteq Msg /\ dropped \subseteq Msg
    /\ unsure \subseteq Msg /\ tornOffset \in BOOLEAN

\* No message becomes two jobs, however often it is delivered: for Telegram the
\* offset is saved first (unless that very write was cut short), for Slack what was
\* seen is kept, failed enqueues included (as long as the bridge lives).
OneJobEach == \A m \in Msg : jobs[m] > 1 => (IF m \in Tg THEN tornOffset ELSE m \in cut)

\* A message of the bound chat the offset has passed became a job, is just becoming
\* one, or was lost in the two ways the order of the writes leaves open: in hand when
\* the bridge died, or its own enqueue failed.  The loop leaves no other out, not the
\* ones behind a failed one either (handleUpdates).
TgNoneSkipped ==
    \A m \in Tg \ foreign :
        (offset # Torn /\ m <= offset) =>
            (jobs[m] > 0 \/ m \in cut \cup dropped \/ (tg.pc = "saved" /\ m = Head(tg.batch)))

\* The same of what Slack delivered: it is a job, waits its turn, or was lost like that
\* (onEnvelope, which tells Slack it has it).
SlNoneSkipped ==
    \A m \in heard :
        jobs[m] > 0 \/ m \in cut \cup dropped \/ \E i \in 1..Len(sl.pending) : sl.pending[i] = m

\* The types, and these: each message becomes one job.
Inv == TypeOK /\ OneJobEach /\ TgNoneSkipped /\ SlNoneSkipped

\* A reply leaves the outbox only when all of it was posted: neither bridge removes
\* a record of the other, and the owner's DM is known before a reply to it can be
\* there (flushOutbox of both, learnDm).  "So a retry never repeats them"
\* (slack-dm.mjs:136): a part is posted twice only when its answer was lost, or the
\* bridge died between the post and the removal; and never before the part in front.
PostedInFull ==
    /\ \A m \in Msg : box[m] = "gone" => \A i \in PartsOf(m) : posts[m][i] > 0
    /\ \A m \in Msg \ unsure : \A i \in PartsOf(m) : posts[m][i] < 2
    /\ \A m \in Sl : \A i \in 1..Parts - 1 : posts[m][i + 1] > 0 => posts[m][i] > 0

\* A record half-written when the kernel died, in front of m.
Jammed(m) == m \in Tg /\ \E q \in Outbox : q < m /\ box[q] = "empty" /\ kernel # q

\* A whole reply the service takes is posted in the end, whatever refused reply lies
\* in front of it (and the last of each service has all the others there), unless
\* (Telegram only) a half-written one does, or another program keeps the pid of a
\* dead bridge, so that start-comms.sh takes the bridge for alive.
RepliesArrive ==
    <>[](taken = {}) =>
        \A m \in {NS, NS + NT} :
            (box[m] = "full" /\ m \notin refused) ~> (box[m] = "gone" \/ Jammed(m))
=============================================================================
