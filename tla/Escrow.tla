-------------------------------- MODULE Escrow --------------------------------
(***************************************************************************)
(* One escrow and one token: Escrow.send, Escrow.recvCallback and          *)
(* setRateLimit over the days.  Only the ICS20 contract calls the first    *)
(* two, only the rate limiter role the third.  The names differ from those *)
(* of ICS20Transfer, so that one module can prove theorems about both.     *)
(***************************************************************************)
EXTENDS RateLimit

CONSTANTS
    MaxTimestamp,  \* bound: the largest block timestamp
    MaxNet         \* bound: the largest net flow in either direction

ASSUME EscrowAssumption ==
    /\ Amounts \subseteq Nat \ {0}
    /\ Limits \subseteq Nat
    /\ MaxTimestamp \in Nat /\ MaxNet \in Nat

VARIABLES
    timestamp,   \* block.timestamp
    dailyLimit,  \* _rateLimits[token]
    dailyUsage,  \* _dailyUsage, by day
    outflow,     \* history: what left minus what came in since the day began or the limit was set
    lowest       \* history: the smallest value outflow has had since then

escrowVars == <<timestamp, dailyLimit, dailyUsage, outflow, lowest>>

Days == {dayOf(t) : t \in 0..MaxTimestamp}
today == dayOf(timestamp)
Smaller(a, b) == IF a < b THEN a ELSE b

EscrowInit ==
    /\ timestamp = 0
    /\ dailyLimit = 0
    /\ dailyUsage = [d \in Days |-> 0]
    /\ outflow = 0
    /\ lowest = 0

\* Time passes; at midnight the history starts afresh.
EscrowTick ==
    /\ timestamp < MaxTimestamp
    /\ timestamp' = timestamp + 1
    /\ IF dayOf(timestamp + 1) = today
         THEN UNCHANGED <<outflow, lowest>>
         ELSE outflow' = 0 /\ lowest' = 0
    /\ UNCHANGED <<dailyLimit, dailyUsage>>

escrowSetRateLimit(limit) ==
    /\ dailyLimit' = limit
    /\ outflow' = 0 /\ lowest' = 0
    /\ UNCHANGED <<timestamp, dailyUsage>>

escrowSend(amount) ==
    /\ withinRateLimit(dailyLimit, dailyUsage[today], amount)
    /\ dailyUsage' = [dailyUsage EXCEPT ![today] = _assertAndUpdateRateLimit(dailyLimit, @, amount)]
    /\ outflow + amount <= MaxNet
    /\ outflow' = outflow + amount
    /\ UNCHANGED <<timestamp, dailyLimit, lowest>>

escrowRecvCallback(amount) ==
    /\ dailyUsage' = [dailyUsage EXCEPT ![today] = _reduceDailyUsage(dailyLimit, @, amount)]
    /\ outflow - amount >= -MaxNet
    /\ outflow' = outflow - amount
    /\ lowest' = Smaller(lowest, outflow')
    /\ UNCHANGED <<timestamp, dailyLimit>>

EscrowNext ==
    \/ EscrowTick
    \/ \E limit \in Limits : escrowSetRateLimit(limit)
    \/ \E amount \in Amounts : escrowSend(amount) \/ escrowRecvCallback(amount)

EscrowSpec == EscrowInit /\ [][EscrowNext]_escrowVars

-----------------------------------------------------------------------------
\* The limit is one that was set or none, and the usage of a day never falls
\* below zero, where it would wrap.
EscrowTypeOK ==
    /\ timestamp \in 0..MaxTimestamp
    /\ dailyLimit \in Limits \cup {0}
    /\ dailyUsage \in [Days -> Nat]
    /\ outflow \in Int /\ lowest \in Int /\ lowest <= outflow

\* While a limit stands and within one day, over every stretch of time the
\* tokens that leave the escrow exceed those that enter it by no more than the
\* limit: deposits of the same day are the only thing that makes room, and a
\* deposit made before a stretch makes none in it.
NetOutflowWithinLimit == dailyLimit # 0 => outflow - lowest <= dailyLimit

\* What the counter knows: it covers the net outflow of every stretch, and
\* exceeds the limit only where a lower limit was set after it was counted.
UsageCoversOutflow ==
    dailyLimit # 0 => /\ outflow - lowest <= dailyUsage[today]
                      /\ outflow > lowest => dailyUsage[today] <= dailyLimit

=============================================================================
