------------------------------ MODULE MCScheduler -------------------------------
(* The constants of the scheduler's run that a configuration cannot write down: a     *)
(* day of four minutes, with an interval that heeds the night, every second day, a      *)
(* weekly entry of version 1 and one that is off.                                       *)
EXTENDS Scheduler

V2(on, s) == [v |-> 2, enabled |-> on, schedule |-> s]
V1(when, time) == [v |-> 1, enabled |-> TRUE, when |-> when, time |-> time]
Every(n, quiet) == [kind |-> "every", minutes |-> n, quiet |-> quiet]

SmallEntries ==
    {V2(TRUE, Every(2, TRUE)), V2(FALSE, Every(2, TRUE)),
     V2(TRUE, [kind |-> "every-days", n |-> 2, time |-> 3, anchor |-> 1]),
     V1("weekly", 2)}
Night == <<3, 1>>
=============================================================================
