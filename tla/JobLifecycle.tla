----------------------------- MODULE JobLifecycle -----------------------------
(***************************************************************************)
(* What the job queue promises whoever looks at it from outside: the app,  *)
(* the chat bridges, the move-in and the person who opens .kernel/.  A job *)
(* is submitted once and settled once, as done or as failed.  The run      *)
(* ledger explains an outcome before the outcome shows, an answer goes out *)
(* only for a job that is done, and an apology only for one the ledger     *)
(* says failed.  Nothing is said about who runs it, how often, or when.    *)
(***************************************************************************)
CONSTANTS Job, Reply

VARIABLES at, rows, replies

jobVars == <<at, rows, replies>>

Init ==
    /\ at = [j \in Job |-> "none"]
    /\ rows = [j \in Job |-> {}]
    /\ replies = [j \in Job |-> {}]

Submit(j) ==
    /\ at[j] = "none"
    /\ at' = [at EXCEPT ![j] = "queue"]
    /\ UNCHANGED <<rows, replies>>

Record(j, status) ==
    /\ at[j] # "none"
    /\ rows' = [rows EXCEPT ![j] = @ \cup {status}]
    /\ UNCHANGED <<at, replies>>

Settle(j, outcome, status) ==
    /\ at[j] = "queue"
    /\ status \in rows[j]
    /\ at' = [at EXCEPT ![j] = outcome]
    /\ UNCHANGED <<rows, replies>>

Answer(j) ==
    /\ j \in Reply
    /\ at[j] = "done"
    /\ replies' = [replies EXCEPT ![j] = @ \cup {"answer"}]
    /\ UNCHANGED <<at, rows>>

Apologise(j) ==
    /\ j \in Reply
    /\ "fail" \in rows[j]
    /\ replies' = [replies EXCEPT ![j] = @ \cup {"error"}]
    /\ UNCHANGED <<at, rows>>

Next ==
    \E j \in Job :
        \/ Submit(j)
        \/ Record(j, "ok") \/ Record(j, "fail")
        \/ Settle(j, "done", "ok") \/ Settle(j, "failed", "fail")
        \/ Answer(j) \/ Apologise(j)

Spec == Init /\ [][Next]_jobVars
=============================================================================
