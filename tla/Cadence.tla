-------------------------------- MODULE Cadence ---------------------------------
(* What a schedule of cockpit/cadence.json means (engine/cron/cadence-lib.mjs): pure *)
(* functions of an entry and the time the box's wall clock shows.                    *)
EXTENDS Integers

CONSTANTS
    DayLength,         \* minutes in a day
    Week,              \* days in a week; a date's day of the week is its remainder
    EVERY_FLOOR_MIN    \* the shortest "every" a skill may have

ASSUME DayAssumption ==
    DayLength \in Nat \ {0, 1} /\ Week \in Nat \ {0} /\ EVERY_FLOOR_MIN \in Nat

Minute == 0..(DayLength - 1)
DAY_KEYS == 0..(Week - 1)

\* normalizeEntry: an entry of version 1 said daily, weekly (Monday) or off at a time.
Monday == 1 % Week
normalizeEntry(raw) ==
    IF raw.v = 2 THEN [enabled |-> raw.enabled, schedule |-> raw.schedule]
    ELSE [enabled |-> raw.enabled /\ raw.when # "off",
          schedule |-> [kind |-> "times", times |-> {raw.time},
                        days |-> IF raw.when = "weekly" THEN {Monday} ELSE {}]]

\* scheduleProblem: an invalid schedule never fires.
Valid(s) ==
    \/ s.kind = "times" /\ s.days \subseteq DAY_KEYS /\ s.times # {} /\ s.times \subseteq Minute
    \/ s.kind = "every" /\ s.minutes >= EVERY_FLOOR_MIN
    \/ s.kind = "every-days" /\ s.n >= 1 /\ s.time \in Minute

\* Quiet hours, <<from, to>> or none.
inQuiet(quiet, m) ==
    /\ quiet # <<>>
    /\ IF quiet[1] <= quiet[2] THEN m >= quiet[1] /\ m < quiet[2]
       ELSE m >= quiet[1] \/ m < quiet[2]

Due(s, date, m, quiet) ==
    \/ /\ s.kind = "times" /\ m \in s.times
       /\ s.days = {} \/ date % Week \in s.days
    \/ s.kind = "every" /\ m % s.minutes = 0 /\ ~(s.quiet /\ inQuiet(quiet, m))
    \/ /\ s.kind = "every-days" /\ m = s.time
       /\ date >= s.anchor /\ (date - s.anchor) % s.n = 0

scheduleMatches(s, date, m, quiet) == Valid(s) /\ Due(s, date, m, quiet)
=============================================================================
