------------------------------ MODULE Connections ------------------------------
(* A box's outside connections (engine/comms).  .mcp.json holds the address and the *)
(* header of each, .kernel/mcp-oauth.json what renews the header.  mcp-token.mjs    *)
(* writes both, mcp-connect.mjs the first, and mcp-refresh.mjs renews on a          *)
(* schedule.  Every command is a process of its own and nothing locks the files:    *)
(* one is read whole, changed, truncated and written.                               *)
EXTENDS Naturals, Sequences

CONSTANTS
    Conn,        \* connections, by name
    Featured,    \* those the app lists itself; the others are added by address
    Rotating,    \* those whose provider gives a new refresh token each time
    TornFile,    \* a file truncated and not yet written
    MaxCalls,    \* commands of the app
    MaxGrants,   \* grants a provider issues for one connection
    MaxFailures  \* deaths, lost answers and requests that fail

Cli == 1..MaxCalls      \* every command is a process of its own
Renewal == 0            \* mcp-refresh's child, mcp-token set
Proc == Cli \cup {Renewal}
Grant == 1..MaxGrants

\* A header carries a grant's token exactly while the entry is signed in.
EntryKind == {"none", "bare", "signed", "pasted", "moved"}
DocType == [Conn -> {e \in [kind : EntryKind, grant : {0} \cup Grant] : e.kind = "signed" <=> e.grant # 0}]
StoreType == [Conn -> [key : {0} \cup Grant, token : {0} \cup Grant]]

ASSUME ConnAssumption == Featured \cup Rotating \subseteq Conn
ASSUME ConnBounds == {MaxCalls, MaxFailures} \subseteq Nat /\ MaxGrants \in Nat \ {0}
ASSUME TornIsNoFile == TornFile \notin DocType \cup StoreType

VARIABLES
    doc,         \* .mcp.json: the entry of each connection, and the grant in its header
    store,       \* mcp-oauth.json: the refresh token (key) and the access token kept
    proc,        \* connection, grant, new refresh token, edits to make, where in the first, what it read
    ref,         \* mcp-refresh: pc, the connections to renew, the refresh tokens it read
    issued, spent,   \* at the provider: grants so far, refresh tokens used up
    lapsed,      \* grants whose access token has (nearly) run out
    calls, failures,
    asked,       \* history: how a command last left an entry
    wiped,       \* history: connections whose refresh token a command removed
    crossed,     \* history: a command on it and its renewal, or another command on it, overlapped
    lost,        \* history: a grant was issued and its holder died, or never had it
    raced        \* history: a file was written across another write, or read torn

providers == <<issued, spent, lapsed>>
history == <<asked, wiped, crossed, lost, raced>>
connVars == <<doc, store, proc, ref, providers, calls, failures, history>>

Entry(kind, g) == [kind |-> kind, grant |-> g]
Kept(key, token) == [key |-> key, token |-> token]
NoDoc == [c \in Conn |-> Entry("none", 0)]
NoStore == [c \in Conn |-> Kept(0, 0)]
Busy(c, g, key, todo) == [conn |-> {c}, grant |-> g, key |-> key, todo |-> todo, at |-> "read", seen |-> <<>>]
Idle == [conn |-> {}, grant |-> 0, key |-> 0, todo |-> <<>>, at |-> "read", seen |-> <<>>]
RefIdle == [pc |-> "idle", keys |-> [c \in Conn |-> 0], todo |-> {}]

ConnInit ==
    /\ doc = [c \in Conn |-> Entry("signed", 1)] /\ store = [c \in Conn |-> Kept(1, 1)]
    /\ proc = [p \in Proc |-> Idle] /\ ref = RefIdle
    /\ issued = [c \in Conn |-> 1] /\ spent = [c \in Conn |-> {}] /\ lapsed = spent
    /\ calls = 0 /\ failures = 0
    /\ asked = [c \in Conn |-> "signed"] /\ wiped = {}
    /\ crossed = {} /\ lost = {} /\ raced = FALSE

Commanded(c) == \E p \in Cli : c \in proc[p].conn
Renewing(c) == c \in ref.todo \cup proc[Renewal].conn
-----------------------------------------------------------------------------
(* The commands of the app, up to their first file.                            *)

Start(c, g, todo) ==
    /\ calls < MaxCalls /\ calls' = calls + 1
    /\ proc' = [proc EXCEPT ![calls'] = Busy(c, g, g, todo)]
    /\ crossed' = (IF Renewing(c) \/ Commanded(c) THEN crossed \cup {c} ELSE crossed)
    /\ UNCHANGED <<doc, store, ref, spent, lapsed, failures, asked, wiped, lost, raced>>

\* A sign-in: the provider issues a grant, the app hands it to mcp-token set.
SignIn(c) ==
    /\ issued[c] < MaxGrants /\ issued' = [issued EXCEPT ![c] = @ + 1]
    /\ Start(c, issued'[c], <<"sign", "keep">>)

\* remove: the entry, then mcp-token forget.
Remove(c) ==
    /\ Start(c, 0, <<"drop", "strip", "forget">>) /\ UNCHANGED issued

\* add, of a service the app lists.
Add(c) ==
    /\ c \in Featured
    /\ Start(c, 0, <<"bare">>) /\ UNCHANGED issued

\* add-custom: whatever sign-in the name had is forgotten first.  The entry has no
\* token, has one, or moves to another address and a header of its own.
AddCustom(c) ==
    /\ c \notin Featured
    /\ \E kind \in {"bare", "paste", "move"} : Start(c, 0, <<"strip", "forget", kind>>)
    /\ UNCHANGED issued
-----------------------------------------------------------------------------
(* What an edit makes of a connection.                                         *)

\* forget takes the Authorization header and leaves the entry.
Stripped(e) ==
    IF e.kind \in {"signed", "pasted"} THEN Entry("bare", 0) ELSE e

EditDoc(edit, e, g) ==
    CASE edit = "sign"  -> Entry("signed", g)
      [] edit = "drop"  -> Entry("none", 0)
      [] edit = "strip" -> Stripped(e)
      [] edit = "bare"  -> Entry("bare", 0)
      [] edit = "paste" -> Entry("pasted", 0)
      [] edit = "move"  -> Entry("moved", 0)

\* Mutant of Keep: the refresh token that is there is preferred to a new one.
KeepOld(s, q) == Kept(IF s.key > 0 THEN s.key ELSE q.key, q.grant)

\* set keeps the refresh token it has when the answer brings no new one.
Keep(s, q) == Kept(IF q.key > 0 THEN q.key ELSE s.key, q.grant)
-----------------------------------------------------------------------------
(* One edit: the file is read, truncated and written.                          *)

OfStore(q) == Head(q.todo) \in {"keep", "forget"}
File(q) == IF OfStore(q) THEN store ELSE doc
OnlyFile(q, content) ==
    IF OfStore(q) THEN store' = content /\ UNCHANGED doc ELSE doc' = content /\ UNCHANGED store

Onward(p) ==
    LET q == proc[p] IN
    proc' = [proc EXCEPT ![p] =
        IF Len(q.todo) = 1 THEN Idle ELSE [q EXCEPT !.todo = Tail(q.todo), !.at = "read", !.seen = <<>>]]

\* A file that does not parse counts as empty.  forget writes no entry it lacks.
Read(p) ==
    LET q == proc[p]
        seen == IF File(q) # TornFile THEN File(q) ELSE IF OfStore(q) THEN NoStore ELSE NoDoc
    IN  /\ q.todo # <<>> /\ q.at = "read"
        /\ raced' = (raced \/ File(q) = TornFile)
        /\ IF Head(q.todo) = "strip" /\ \A c \in q.conn : seen[c].kind = "none"
           THEN Onward(p)
           ELSE proc' = [proc EXCEPT ![p].at = "truncate", ![p].seen = seen]
        /\ UNCHANGED <<doc, store, ref, providers, calls, failures, asked, wiped, crossed, lost>>

Truncate(p) ==
    /\ proc[p].at = "truncate" /\ proc' = [proc EXCEPT ![p].at = "write"]
    /\ OnlyFile(proc[p], TornFile) /\ raced' = (raced \/ File(proc[p]) # proc[p].seen)
    /\ UNCHANGED <<ref, providers, calls, failures, asked, wiped, crossed, lost>>

Write(p) ==
    LET q == proc[p] IN
    /\ q.at = "write" /\ Onward(p) /\ raced' = (raced \/ File(q) # TornFile)
    /\ \E c \in q.conn :
        /\ OnlyFile(q, [q.seen EXCEPT ![c] = CASE ~OfStore(q)             -> EditDoc(Head(q.todo), @, q.grant)
                                               [] Head(q.todo) = "keep"   -> Keep(@, q)
                                               [] Head(q.todo) = "forget" -> Kept(0, 0)])
        /\ asked' = (IF p \in Cli /\ ~OfStore(q) THEN [asked EXCEPT ![c] = doc'[c].kind] ELSE asked)
        /\ wiped' = (IF p \in Cli /\ OfStore(q)
                     THEN IF Head(q.todo) = "forget" THEN wiped \cup {c} ELSE wiped \ {c}
                     ELSE wiped)
    /\ UNCHANGED <<ref, providers, calls, failures, crossed, lost>>
-----------------------------------------------------------------------------
(* mcp-refresh.mjs.                                                            *)

Due(s) == {c \in Conn : s[c].key > 0 /\ s[c].token \in lapsed[c]}
Live(d) == {c \in Conn : d[c].kind \in {"bare", "signed", "pasted"}}

Pass(todo) ==
    /\ ref.pc = "idle"
    /\ ref' = [pc |-> "renew", todo |-> todo,
               keys |-> [c \in Conn |-> IF c \in todo THEN store[c].key ELSE 0]]
    /\ crossed' = crossed \cup {c \in todo : Commanded(c)}
    /\ UNCHANGED <<doc, store, proc, providers, calls, failures, asked, wiped, lost, raced>>

\* Mutant of RefreshBegin: the live connections are not asked for.
RefreshAll == Pass(IF store = TornFile THEN {} ELSE Due(store))

\* What is due, and not "a record the live connection has moved away from"; nothing
\* when a file does not parse.
RefreshBegin == Pass(IF store = TornFile \/ doc = TornFile THEN {} ELSE Due(store) \cap Live(doc))

\* A provider takes a refresh token that is not used up.  With the grant it issues
\* may come a new refresh token, which uses up the old one.
Takes(c) == ref.keys[c] \notin spent[c] /\ issued[c] < MaxGrants

Asks(c) == proc[Renewal] = Idle /\ c \in ref.todo /\ ref' = [ref EXCEPT !.todo = @ \ {c}]

Issues(c) ==
    /\ Takes(c) /\ issued' = [issued EXCEPT ![c] = @ + 1]
    /\ spent' = [spent EXCEPT ![c] = IF c \in Rotating THEN @ \cup {ref.keys[c]} ELSE @]
    /\ UNCHANGED lapsed

\* The answer comes, and mcp-token set writes it down.
Renew(c) ==
    /\ Asks(c) /\ Issues(c)
    /\ proc' = [proc EXCEPT ![Renewal] = Busy(c, issued'[c], IF c \in Rotating THEN issued'[c] ELSE 0, <<"sign", "keep">>)]
    /\ UNCHANGED <<doc, store, calls, failures, history>>

\* The answer is lost on the way.
AnswerLost(c) ==
    /\ Asks(c) /\ Issues(c) /\ failures < MaxFailures /\ failures' = failures + 1
    /\ lost' = lost \cup {c}
    /\ UNCHANGED <<doc, store, proc, calls, asked, wiped, crossed, raced>>

\* Mutant of RenewFails: the refresh token that was refused is thrown away.
RenewFailsForgets(c) ==
    /\ Asks(c) /\ failures' = (IF Takes(c) THEN failures + 1 ELSE failures) /\ failures' <= MaxFailures
    /\ store # TornFile /\ store' = [store EXCEPT ![c] = Kept(0, 0)]
    /\ UNCHANGED <<doc, proc, providers, calls, history>>

\* The provider refuses, or is not reached: the next one.
RenewFails(c) ==
    /\ Asks(c) /\ failures' = (IF Takes(c) THEN failures + 1 ELSE failures) /\ failures' <= MaxFailures
    /\ UNCHANGED <<doc, store, proc, providers, calls, history>>

RefreshEnd ==
    /\ ref.pc = "renew" /\ ref.todo = {} /\ proc[Renewal] = Idle
    /\ ref' = RefIdle
    /\ UNCHANGED <<doc, store, proc, providers, calls, failures, history>>
-----------------------------------------------------------------------------
(* Time and death.                                                             *)

\* The newest access token runs out.
Lapse(c) ==
    /\ issued[c] < MaxGrants /\ issued[c] \notin lapsed[c]
    /\ lapsed' = [lapsed EXCEPT ![c] = 1..issued[c]]
    /\ UNCHANGED <<doc, store, proc, ref, issued, spent, calls, failures, history>>

\* A process dies (for mcp-refresh its child too): a grant in its hand is lost.
Die(p) ==
    /\ failures < MaxFailures /\ failures' = failures + 1
    /\ proc[p] # Idle \/ (p = Renewal /\ ref # RefIdle)
    /\ proc' = [proc EXCEPT ![p] = Idle] /\ ref' = (IF p = Renewal THEN RefIdle ELSE ref)
    /\ lost' = (IF proc[p].grant > 0 THEN lost \cup proc[p].conn ELSE lost)
    /\ raced' = (raced \/ proc[p].at = "write")
    /\ UNCHANGED <<doc, store, providers, calls, asked, wiped, crossed>>

\* The forget of a remove or an add-custom dies, which its parent does not notice: it
\* goes on with what it has to write after it, if anything.
ForgetDies(p) ==
    /\ failures < MaxFailures /\ failures' = failures + 1
    /\ proc[p].todo # <<>> /\ Head(proc[p].todo) \in {"strip", "forget"}
    /\ LET last == proc[p].todo[Len(proc[p].todo)] IN
       proc' = [proc EXCEPT ![p] = IF last = "forget" THEN Idle ELSE [@ EXCEPT !.todo = <<last>>, !.at = "read", !.seen = <<>>]]
    /\ raced' = (raced \/ proc[p].at = "write")
    /\ UNCHANGED <<doc, store, ref, providers, calls, asked, wiped, crossed, lost>>

Step(p) == Read(p) \/ Truncate(p) \/ Write(p)
Refresh == RefreshBegin \/ RefreshEnd \/ \E c \in Conn : Renew(c) \/ RenewFails(c)

\* The model follows a box up to the first two writes of one file that cross.
ConnNext ==
    /\ ~raced
    /\ \/ \E c \in Conn : SignIn(c) \/ Remove(c) \/ Add(c) \/ AddCustom(c)
       \/ \E p \in Proc : Step(p) \/ Die(p)
       \/ \E p \in Cli : ForgetDies(p)
       \/ Refresh \/ \E c \in Conn : AnswerLost(c) \/ Lapse(c)

ConnSpec == ConnInit /\ [][ConnNext]_connVars

\* Every process goes on, and the scheduler starts mcp-refresh twice an hour.
ConnFairSpec == ConnSpec /\ WF_connVars(Refresh) /\ WF_connVars(\E p \in Proc : Step(p))
-----------------------------------------------------------------------------
\* Every variable stays in its range; a file is whole or torn.
ConnTypeOK ==
    /\ doc \in DocType \cup {TornFile} /\ store \in StoreType \cup {TornFile}
    /\ \A p \in Proc :
        /\ proc[p].conn \subseteq Conn /\ (proc[p].conn = {} <=> proc[p] = Idle)
        /\ proc[p].at \in {"read", "truncate", "write"} /\ {proc[p].grant, proc[p].key} \subseteq {0} \cup Grant
    /\ ref.pc \in {"idle", "renew"} /\ ref.todo \subseteq Conn
    /\ issued \in [Conn -> Grant] /\ spent \in [Conn -> SUBSET Grant] /\ lapsed \in [Conn -> SUBSET Grant]
    /\ calls \in 0..MaxCalls /\ failures \in 0..MaxFailures
    /\ asked \in [Conn -> EntryKind]
    /\ wiped \cup crossed \cup lost \subseteq Conn /\ raced \in BOOLEAN

\* Nothing but another process's write across a write, or a command in the middle of
\* c's renewal, stands between c and these.
Undisturbed(c) == ~raced /\ c \notin crossed /\ ~Commanded(c) /\ doc # TornFile /\ store # TornFile

\* "never resurrect it" (mcp-refresh.mjs:39), "must survive" (mcp-token.mjs:64): a
\* connection is as the last command on it left it, or signed in again where that
\* left a sign-in, whatever is renewed or done to others and though a forget died:
\* a removed or moved one stays so, and what was forgotten has no refresh token.
LastWordKept ==
    \A c \in Conn : Undisturbed(c) =>
        /\ \/ doc[c].kind = asked[c]
           \/ doc[c].kind = "signed" /\ asked[c] = "bare"
           \/ doc[c].kind = "signed" /\ asked[c] = "pasted" /\ c \notin wiped
        /\ c \in wiped => store[c].key = 0

\* The types, and the last word.
ConnInv == ConnTypeOK /\ LastWordKept

\* "a member signs in ONCE" (mcp-refresh.mjs:4): the refresh token kept is one the
\* provider still takes, and the header is the one it renewed last ("can never
\* disagree", lines 57-58), unless the holder of a new grant died or never got it.
SignInKept ==
    \A c \in Conn \ (lost \cup proc[Renewal].conn) : Undisturbed(c) =>
        /\ store[c].key \notin spent[c]
        /\ doc[c].kind = "signed" => doc[c].grant = store[c].token

\* A signed-in connection whose token runs out is renewed (or removed) in the end,
\* whatever becomes of the others: "one bad service does not stop the others".
Renewable(c) == doc # TornFile /\ store # TornFile /\ doc[c].kind = "signed" /\ store[c].key > 0
Renewed ==
    \A c \in Conn :
        (Renewable(c) /\ doc[c].grant \in lapsed[c])
            ~> (raced \/ c \in crossed \cup lost \/ (doc # TornFile /\ (doc[c].kind # "signed" \/ doc[c].grant \notin lapsed[c])))
=============================================================================
