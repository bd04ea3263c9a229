---------------------------- MODULE RewardStream ----------------------------
(***************************************************************************)
(* The reward-per-token accumulator that SRXStaking runs twice (SRX and the *)
(* bonus token) and StabilisationFund once.  A stream emits `rate' tokens a *)
(* second to the holders of weight, in proportion, until `finish'; `stored' *)
(* is what one unit of weight has accumulated (times PRECISION) up to       *)
(* `last', paid[u] its value when u was last brought up to date, pending[u] *)
(* what u has earned and not been paid, `owed' the contract's running sum   *)
(* of what is earned and unpaid, `pool' the tokens not paid out yet.        *)
(***************************************************************************)
EXTENDS Integers

CONSTANTS
    Users,
    PRECISION           \* fixed-point scale of the accumulator

ASSUME PrecisionAssumption == PRECISION \in Nat \ {0}

\* A stream without schedule, its clock started at t (0: not started).
NewStream(t) ==
    [rate |-> 0, stored |-> 0, last |-> t, pool |-> 0, finish |-> 0, owed |-> 0,
     paid |-> [u \in Users |-> 0], pending |-> [u \in Users |-> 0]]

\* Latest time up to which rewards accrue.
LastTimeRewardApplicable(s, now) == IF s.finish = 0 \/ now < s.finish THEN now ELSE s.finish

\* The seconds that rewards have accrued since the last update.
Elapsed(s, now) ==
    LET applicable == LastTimeRewardApplicable(s, now)
    IN  IF s.last = 0 \/ applicable <= s.last THEN 0 ELSE applicable - s.last

\* The accumulator brought up to now for a total weight; nothing accrues below
\* the minimum weight.
RewardPerToken(s, weight, minimum, now) ==
    IF weight = 0 \/ weight < minimum
    THEN s.stored
    ELSE s.stored + (s.rate * Elapsed(s, now) * PRECISION) \div weight

\* What u, holding part of the weight, has earned and not been paid.
Earned(s, u, part, weight, minimum, now) ==
    (part * (RewardPerToken(s, weight, minimum, now) - s.paid[u])) \div PRECISION + s.pending[u]

\* The accumulator and the sum owed are brought up to date.
UpdateAll(s, weight, minimum, now) ==
    LET perToken == RewardPerToken(s, weight, minimum, now)
    IN  [s EXCEPT !.stored = perToken,
                  !.last   = LastTimeRewardApplicable(s, now),
                  !.owed   = s.owed + (weight * (perToken - s.stored)) \div PRECISION]

\* The same, and what u earned is banked at the weight u holds.
UpdateReward(s, u, part, weight, minimum, now) ==
    [UpdateAll(s, weight, minimum, now) EXCEPT
        !.pending[u] = Earned(s, u, part, weight, minimum, now),
        !.paid[u]    = RewardPerToken(s, weight, minimum, now)]

\* Mutant of RecomputePeriodFinish: what is owed is scheduled again (F1).
ScheduleWholePool(s, now) ==
    [s EXCEPT !.last   = now,
              !.finish = IF s.rate = 0 THEN now ELSE now + s.pool \div s.rate]

\* The schedule is bounded by what the pool holds beyond what is owed.
RecomputePeriodFinish(s, now) ==
    LET unaccrued == IF s.pool > s.owed THEN s.pool - s.owed ELSE 0
    IN  [s EXCEPT !.last   = now,
                  !.finish = IF s.rate = 0 THEN now ELSE now + unaccrued \div s.rate]

\* What u is paid when rewards are settled: the pool caps it.
Settlement(s, u) == IF s.pending[u] > s.pool THEN s.pool ELSE s.pending[u]

\* u is paid; a shortfall stays pending.
SettleRewards(s, u) ==
    LET reward == Settlement(s, u)
    IN  [s EXCEPT !.pending[u] = s.pending[u] - reward,
                  !.owed       = IF s.owed > reward THEN s.owed - reward ELSE 0,
                  !.pool       = s.pool - reward]

\* How much more than the pool holds rounding can have promised at `now': each
\* update that time has passed for adds to `owed' up to (PRECISION - 1) /
\* PRECISION of a token too little, which a later schedule emits again; there
\* is at most one a second from the start of the clock, at 1.
Dust(now) == ((PRECISION - 1) * (now - 1)) \div PRECISION
=============================================================================
