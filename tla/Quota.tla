------------------------------- MODULE Quota -------------------------------
(***************************************************************************)
(* The quota of one user, and the global quota of one kind of query: each  *)
(* a counter in Redis for every month.  A session looks at the user's      *)
(* counter once, when it starts, and then charges it as it goes; sessions  *)
(* of the same user run at the same time and know nothing of each other,   *)
(* and the month may turn while they run.  Each command to Redis is a step *)
(* of its own, may fail, and may be the last of the process.               *)
(*                                                                         *)
(* What a session charges at most, Cost, is given by the rounds of module  *)
(* PromptSession and the size of the model's context.                      *)
(***************************************************************************)
EXTENDS Integers, FiniteSets

CONSTANTS
    Tracker,                \* those of the sessions of the user that may run at once
    MonthlyQuotaCredits,    \* what the user may use in a month
    GlobalMax,              \* the queries a month that are charged to no user
    Cost,                   \* what a session charges at most
    QueryCredits,           \* the charge of one query beyond GlobalMax
    MaxMonth,               \* bound: months
    MaxQueries              \* bound: queries in a month

ASSUME QuotaAssumption ==
    /\ IsFiniteSet(Tracker)
    /\ MonthlyQuotaCredits \in Nat \ {0}
    /\ GlobalMax \in Nat
    /\ Cost \in Nat
    /\ QueryCredits \in Nat
    /\ MaxMonth \in Nat
    /\ MaxQueries \in Nat

Month == 0..MaxMonth

\* Where a session is: not running; running; between the two commands of a
\* charge of the user; between those of a charge of the global quota; between
\* a global charge that was refused and that of the user.
Stages == {"out", "in", "expire", "expire global", "pay"}

VARIABLES
    month,      \* the current month
    used,       \* the user's counter of each month
    expires,    \* whether that counter has a time to live
    stage,      \* per session where it is
    spent,      \* per session what it has charged so far
    global,     \* the global counter of each month
    keyMonth,   \* per session the month of the counter it charged last
    free,       \* history: the queries granted to nobody's charge, by month
    immortal    \* history: months with a charge that failed to set the expiry

counters == <<used, expires, global>>
quotaVars == <<month, counters, stage, spent, keyMonth, free, immortal>>

QuotaInit ==
    /\ month = 0
    /\ used = [m \in Month |-> 0]
    /\ expires = [m \in Month |-> FALSE]
    /\ stage = [s \in Tracker |-> "out"]
    /\ spent = [s \in Tracker |-> 0]
    /\ global = [m \in Month |-> 0]
    /\ keyMonth = [s \in Tracker |-> 0]
    /\ free = [m \in Month |-> 0]
    /\ immortal = {}

MoveTo(s, where) == stage' = [stage EXCEPT ![s] = where]

\* Mutant: the look forgets that what is used up leaves nothing.
RemainingLoose == MonthlyQuotaCredits - used[month] + 1

Remaining == MonthlyQuotaCredits - used[month]

\* A session is admitted if a credit remains.
GetQuota(s) ==
    /\ stage[s] = "out"
    /\ Remaining >= 1
    /\ MoveTo(s, "in")
    /\ spent' = [spent EXCEPT ![s] = 0]
    /\ UNCHANGED <<month, counters, keyMonth, free, immortal>>

\* Mutant: the first charge is taken for one of a single credit.
FirstOfOne(total, credits) == total = 1

\* The charge finds nothing but itself in the counter.
First(total, credits) == total = credits

\* The first command of a charge: the counter of the month it is now.  Only
\* the first charge goes on to the second.
IncrBy(s, credits) ==
    /\ spent[s] + credits <= Cost
    /\ used' = [used EXCEPT ![month] = @ + credits]
    /\ spent' = [spent EXCEPT ![s] = @ + credits]
    /\ keyMonth' = [keyMonth EXCEPT ![s] = month]
    /\ MoveTo(s, IF First(used[month] + credits, credits) THEN "expire" ELSE "in")
    /\ UNCHANGED <<month, expires, global, free, immortal>>

\* Tokens, or anything else that is charged to the user.
ChargeCredits(s) ==
    /\ stage[s] = "in"
    /\ \E credits \in 1..Cost : IncrBy(s, credits)

\* The second command: the key is computed again, from the month it is then.
\* A key that does not exist is given no time to live.
ExpireKey(s) ==
    /\ stage[s] = "expire"
    /\ expires' = IF used[month] > 0 THEN [expires EXCEPT ![month] = TRUE] ELSE expires
    /\ MoveTo(s, "in")
    /\ UNCHANGED <<month, used, global, spent, keyMonth, free, immortal>>

\* The second command fails.
ExpireFails(s) ==
    /\ stage[s] = "expire"
    /\ immortal' = immortal \union {keyMonth[s]}
    /\ MoveTo(s, "in")
    /\ UNCHANGED <<month, counters, spent, keyMonth, free>>

Within(n) == n <= GlobalMax

\* A query is counted by the global quota; one within its limit is free.
ChargeGlobalQuota(s) ==
    /\ stage[s] = "in"
    /\ global[month] < MaxQueries
    /\ global' = [global EXCEPT ![month] = @ + 1]
    /\ free' = IF Within(global[month] + 1) THEN [free EXCEPT ![month] = @ + 1] ELSE free
    /\ MoveTo(s, IF global[month] = 0 THEN "expire global"
               ELSE IF Within(global[month] + 1) THEN "in" ELSE "pay")
    /\ UNCHANGED <<month, used, expires, spent, keyMonth, immortal>>

\* The first query of a month sets the expiry of the key it charged; if that
\* fails the query is not made, though it was counted.
ExpireGlobal(s) ==
    /\ stage[s] = "expire global"
    /\ \E where \in {"in", IF Within(1) THEN "in" ELSE "pay"} : MoveTo(s, where)
    /\ UNCHANGED <<month, counters, spent, keyMonth, free, immortal>>

\* A query beyond the limit is charged to the user.
ChargeUser(s) ==
    /\ stage[s] = "pay"
    /\ IncrBy(s, QueryCredits)

\* Mutant: a failed charge is taken back, although nothing was charged.
ChargeFailsRefunds(s) ==
    /\ stage[s] = "pay"
    /\ MoveTo(s, "in")
    /\ used' = [used EXCEPT ![month] = @ - QueryCredits]
    /\ UNCHANGED <<month, expires, global, spent, keyMonth, free, immortal>>

\* The first command of a charge of the user fails, and nothing is charged.
ChargeFails(s) ==
    /\ stage[s] = "pay"
    /\ MoveTo(s, "in")
    /\ UNCHANGED <<month, counters, spent, keyMonth, free, immortal>>

\* The session ends.
Leave(s) ==
    /\ stage[s] = "in"
    /\ MoveTo(s, "out")
    /\ spent' = [spent EXCEPT ![s] = 0]
    /\ UNCHANGED <<month, counters, keyMonth, free, immortal>>

\* The counters a charge is about to set the expiry of.
Pending == {keyMonth[s] : s \in {q \in Tracker : stage[q] = "expire"}}

\* The process dies with all its sessions.
Crash ==
    /\ stage' = [s \in Tracker |-> "out"]
    /\ spent' = [s \in Tracker |-> 0]
    /\ immortal' = immortal \union Pending
    /\ UNCHANGED <<month, counters, keyMonth, free>>

\* The month turns, for charges between their two commands as well.
TurnMonth ==
    /\ month < MaxMonth
    /\ month' = month + 1
    /\ immortal' = immortal \union Pending
    /\ UNCHANGED <<counters, stage, spent, keyMonth, free>>

Serve(s) == GetQuota(s) \/ ChargeCredits(s) \/ ExpireKey(s) \/ ExpireFails(s)
            \/ ChargeGlobalQuota(s) \/ ExpireGlobal(s) \/ ChargeUser(s)
            \/ ChargeFails(s) \/ Leave(s)

QuotaNext == (\E s \in Tracker : Serve(s)) \/ Crash \/ TurnMonth

QuotaSpec == QuotaInit /\ [][QuotaNext]_quotaVars

-----------------------------------------------------------------------------
(* Properties.                                                             *)

QuotaTypeOK ==
    /\ month \in Month
    /\ used \in [Month -> Nat]
    /\ expires \in [Month -> BOOLEAN]
    /\ stage \in [Tracker -> Stages]
    /\ spent \in [Tracker -> 0..Cost]
    /\ global \in [Month -> Nat]
    /\ keyMonth \in [Tracker -> Month]
    /\ free \in [Month -> Nat]
    /\ immortal \subseteq Month

\* How far a month's quota is overshot: by one credit less than the sessions
\* that may run at once cost, however they look and charge, and whichever of
\* them began in the month before.
Overshoot ==
    \A m \in Month :
        used[m] <= MonthlyQuotaCredits - 1 + Cardinality(Tracker) * Cost

\* No more queries are free than the global quota allows, however many sessions
\* ask at once.
FreeWithinLimit == \A m \in Month : free[m] <= GlobalMax

LimitsKept == Overshoot /\ FreeWithinLimit

\* A counter that is in use will expire, or a charge is about to see to that;
\* unless the one charge that could failed, died, or was overtaken by the turn
\* of the month: no later charge makes up for it.
ExpiryExplained ==
    \A m \in Month :
        used[m] > 0 => expires[m] \/ m \in Pending \/ m \in immortal
=============================================================================
