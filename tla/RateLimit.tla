------------------------------ MODULE RateLimit ------------------------------
(***************************************************************************)
(* RateLimitUpgradeable: how much of one token may leave one escrow a day. *)
(* A limit of 0 means no limit, and then nothing is counted.  The counter  *)
(* is kept per calendar day, under a key made of the day and the token.    *)
(***************************************************************************)
EXTENDS Integers

CONSTANTS
    RATE_LIMIT_PERIOD,  \* the seconds of a day
    Amounts,            \* the amounts of a transfer
    Limits              \* the limits the rate limiter role sets

ASSUME PeriodAssumption == RATE_LIMIT_PERIOD \in Nat \ {0}

\* The part of _getDailyTokenKey that depends on the time.
dayOf(timestamp) == timestamp \div RATE_LIMIT_PERIOD

\* Mutant: the limit is compared with the usage before the amount is added.
withinRateLimitLate(rateLimit, usage, amount) == rateLimit = 0 \/ usage <= rateLimit
withinRateLimit(rateLimit, usage, amount) == rateLimit = 0 \/ usage + amount <= rateLimit

_assertAndUpdateRateLimit(rateLimit, usage, amount) ==
    IF rateLimit = 0 THEN usage ELSE usage + amount

\* Mutant: a deposit larger than the usage leaves the counter below zero.
_reduceUnclamped(rateLimit, usage, amount) == IF rateLimit = 0 THEN usage ELSE usage - amount
\* Mutant: every deposit clears the day's usage.
_clearDailyUsage(rateLimit, usage, amount) == 0
_reduceDailyUsage(rateLimit, usage, amount) ==
    IF rateLimit = 0 THEN usage ELSE IF usage > amount THEN usage - amount ELSE 0

=============================================================================
