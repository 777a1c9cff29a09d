----------------------- MODULE HeartbeatScheduleProofs -----------------------
(* The heartbeat's arithmetic, at any scale and any word size: a beat that *)
(* is put off leaves the retry reserve, one failed attempt affords a       *)
(* recovery, and a recovery that is allowed fits in the lease.             *)
EXTENDS HeartbeatSchedule, TLAPS

LEMMA Scale ==
    /\ HELD_CADENCE_CAP_MS \in Nat \ {0} /\ MIN_BEAT_DELAY_MS \in Nat \ {0}
    /\ RECOVERY_CAP_MS \in Nat \ {0} /\ SECOND \in Nat \ {0} /\ U64_MAX \in Nat \ {0}
    /\ SECOND <= U64_MAX /\ RECOVERY_CAP_MS <= U64_MAX
BY ScaleAssumption

LEMMA ExactTypes ==
    ASSUME NEW timeout \in U64, NEW max_rtt \in Nat
    PROVE  /\ ExactBudget(timeout, max_rtt) \in Nat
           /\ ExactMargin(max_rtt) \in Nat
           /\ timeout <= ExactBudget(timeout, max_rtt)
           /\ SECOND <= ExactMargin(max_rtt)
BY Scale DEF ExactBudget, ExactMargin, larger, U64

(* Saturation only ever makes less of an amount.                           *)
LEMMA SaturationType ==
    ASSUME NEW x \in Nat
    PROVE  saturating(x) \in Nat /\ saturating(x) <= U64_MAX /\ saturating(x) <= x
BY Scale DEF saturating, smaller

LEMMA BudgetTypes ==
    ASSUME NEW timeout \in U64, NEW max_rtt \in Nat
    PROVE  /\ attempt_budget_ms(timeout, max_rtt) \in Nat
           /\ safety_margin_ms(max_rtt) \in Nat
           /\ attempt_budget_ms(timeout, max_rtt) <= ExactBudget(timeout, max_rtt)
           /\ safety_margin_ms(max_rtt) <= ExactMargin(max_rtt)
<1>1. saturating(max_rtt * 2) \in Nat /\ saturating(max_rtt * 2) <= 2 * max_rtt
      BY SaturationType
<1> QED BY <1>1, Scale
        DEF attempt_budget_ms, safety_margin_ms, ExactBudget, ExactMargin, larger, U64

(* Below saturation the reserve is what it says.                           *)
LEMMA ReserveIsExact ==
    ASSUME NEW timeout \in U64, NEW max_rtt \in Nat, NEW bound \in U64,
           retry_reserve_ms(timeout, max_rtt) < bound
    PROVE  retry_reserve_ms(timeout, max_rtt)
               = 2 * ExactBudget(timeout, max_rtt) + ExactMargin(max_rtt)
<1> DEFINE twice == saturating(max_rtt * 2)
           budget == attempt_budget_ms(timeout, max_rtt)
           margin == safety_margin_ms(max_rtt)
<1>1. U64_MAX \in Nat /\ SECOND \in Nat /\ SECOND <= U64_MAX
      BY Scale
<1>2. twice \in Nat /\ twice <= U64_MAX /\ (twice < U64_MAX => twice = 2 * max_rtt)
      BY <1>1 DEF saturating, smaller
<1>3. budget \in Nat /\ twice <= budget /\ margin \in Nat
      BY <1>1, <1>2 DEF attempt_budget_ms, safety_margin_ms, larger, U64
<1>4. retry_reserve_ms(timeout, max_rtt) = 2 * budget + margin /\ twice < U64_MAX
      BY <1>1, <1>3 DEF retry_reserve_ms, saturating, smaller, U64
<1>5. twice = 2 * max_rtt
      BY <1>2, <1>4
<1>6. budget = ExactBudget(timeout, max_rtt) /\ margin = ExactMargin(max_rtt)
      BY <1>5 DEF attempt_budget_ms, safety_margin_ms, ExactBudget, ExactMargin
<1> QED BY <1>4, <1>6

LEMMA FloorType ==
    ASSUME NEW remaining \in U64, NEW rtt \in Nat
    PROVE  /\ lead_floor_ms(remaining, rtt) \in U64
           /\ lead_floor_ms(remaining, rtt) > 0
                  => lead_floor_ms(remaining, rtt) = remaining - rtt
BY Scale DEF lead_floor_ms, saturating_sub, larger, U64

LEMMA ReserveType ==
    ASSUME NEW timeout \in U64, NEW max_rtt \in Nat
    PROVE  retry_reserve_ms(timeout, max_rtt) \in U64
<1> DEFINE twice == saturating(attempt_budget_ms(timeout, max_rtt) * 2)
           margin == safety_margin_ms(max_rtt)
<1>1. attempt_budget_ms(timeout, max_rtt) \in Nat /\ margin \in Nat
      BY BudgetTypes
<1>2. twice \in Nat
      BY <1>1, SaturationType
<1>3. retry_reserve_ms(timeout, max_rtt) = saturating(twice + margin)
      BY DEF retry_reserve_ms
<1> HIDE DEF twice, margin
<1>4. twice + margin \in Nat
      BY <1>1, <1>2
<1> QED BY <1>3, <1>4, SaturationType, Scale DEF U64

(* A positive delay is the floor less the reserve.                         *)
LEMMA DelayIsExact ==
    ASSUME NEW remaining \in U64, NEW rtt \in Nat, NEW timeout \in U64,
           NEW max_rtt \in Nat
    PROVE  LET delay_ms == remaining_next_delay_ms(remaining, rtt, timeout, max_rtt)
           IN  /\ delay_ms \in Nat
               /\ delay_ms > 0 =>
                      /\ retry_reserve_ms(timeout, max_rtt)
                             < lead_floor_ms(remaining, rtt)
                      /\ delay_ms = lead_floor_ms(remaining, rtt)
                                    - retry_reserve_ms(timeout, max_rtt)
<1> DEFINE lead == lead_floor_ms(remaining, rtt)
           reserve == retry_reserve_ms(timeout, max_rtt)
<1>1. lead \in Int /\ reserve \in Int
      BY FloorType, ReserveType, Scale DEF U64
<1>2. remaining_next_delay_ms(remaining, rtt, timeout, max_rtt)
          = saturating_sub(lead, reserve)
      BY DEF remaining_next_delay_ms
<1> HIDE DEF lead, reserve
<1>3. /\ saturating_sub(lead, reserve) \in Nat
      /\ saturating_sub(lead, reserve) > 0
             => reserve < lead /\ saturating_sub(lead, reserve) = lead - reserve
      BY <1>1 DEF saturating_sub, larger
<1> QED BY <1>2, <1>3 DEF lead, reserve

(* A positive delay leaves room for a failed attempt, a retry and the      *)
(* margin, whatever the word size (heartbeat.rs, remaining_next_delay_ms). *)
THEOREM DelaysLeaveReserve ==
    ASSUME NEW remaining \in U64, NEW rtt \in Nat, NEW timeout \in U64,
           NEW max_rtt \in Nat
    PROVE  LeavesReserve(remaining, rtt, timeout, max_rtt)
<1> DEFINE delay_ms == remaining_next_delay_ms(remaining, rtt, timeout, max_rtt)
           lead == lead_floor_ms(remaining, rtt)
           reserve == retry_reserve_ms(timeout, max_rtt)
<1> SUFFICES ASSUME delay_ms > 0
             PROVE  rtt + delay_ms + 2 * ExactBudget(timeout, max_rtt)
                        + ExactMargin(max_rtt) <= remaining
    BY DEF LeavesReserve
<1>1. reserve < lead /\ delay_ms = lead - reserve
      BY DelayIsExact
<1>2. lead \in U64 /\ reserve \in U64
      BY FloorType, ReserveType
<1>3. reserve = 2 * ExactBudget(timeout, max_rtt) + ExactMargin(max_rtt)
      BY <1>1, <1>2, ReserveIsExact
<1>4. lead = remaining - rtt
      BY <1>1, <1>2, FloorType DEF U64
<1>5. ExactBudget(timeout, max_rtt) \in Nat /\ ExactMargin(max_rtt) \in Nat
      BY ExactTypes
<1> HIDE DEF delay_ms, lead, reserve
<1> QED BY <1>1, <1>2, <1>3, <1>4, <1>5 DEF U64

(* An allowed recovery starts while an attempt and the margin fit          *)
(* (heartbeat.rs, recovery_window_ms).                                     *)
LEMMA WindowIsExact ==
    ASSUME NEW lead \in U64, NEW timeout \in U64, NEW max_rtt \in Nat,
           recovery_window_ms(lead, timeout, max_rtt) >= 0
    PROVE  /\ recovery_window_ms(lead, timeout, max_rtt)
                  = lead - ExactBudget(timeout, max_rtt) - ExactMargin(max_rtt)
           /\ recovery_window_ms(lead, timeout, max_rtt) \in U64
<1> DEFINE twice == saturating(max_rtt * 2)
           budget == attempt_budget_ms(timeout, max_rtt)
           margin == safety_margin_ms(max_rtt)
<1>1. U64_MAX \in Nat /\ SECOND \in Nat \ {0} /\ SECOND <= U64_MAX
      BY Scale
<1>2. twice \in Nat /\ twice <= U64_MAX /\ (twice < U64_MAX => twice = 2 * max_rtt)
      BY <1>1 DEF saturating, smaller
<1>3. budget \in Nat /\ twice <= budget /\ margin \in Nat \ {0}
      BY <1>1, <1>2 DEF attempt_budget_ms, safety_margin_ms, larger, U64
<1>4. recovery_window_ms(lead, timeout, max_rtt) = lead - budget - margin
      BY DEF recovery_window_ms
<1>5. twice < U64_MAX
      BY <1>1, <1>2, <1>3, <1>4 DEF U64
<1>6. budget = ExactBudget(timeout, max_rtt) /\ margin = ExactMargin(max_rtt)
      BY <1>2, <1>5 DEF attempt_budget_ms, safety_margin_ms, ExactBudget, ExactMargin
<1> HIDE DEF twice, budget, margin
<1> QED BY <1>1, <1>3, <1>4, <1>6 DEF U64

(* A recovery that the window allows starts while a complete attempt and   *)
(* the margin fit in the lease (heartbeat.rs, recovery_delay_ms).          *)
THEOREM AllowedRetriesFit ==
    ASSUME NEW lead \in U64, NEW timeout \in U64, NEW max_rtt \in Nat
    PROVE  RetryFits(lead, timeout, max_rtt)
<1> DEFINE room == recovery_window_ms(lead, timeout, max_rtt)
           wait == recovery_delay_ms(lead, room)
<1> SUFFICES ASSUME room >= 0
             PROVE  /\ wait >= 0
                    /\ wait + ExactBudget(timeout, max_rtt) + ExactMargin(max_rtt) <= lead
    BY DEF RetryFits
<1>1. /\ room = lead - ExactBudget(timeout, max_rtt) - ExactMargin(max_rtt)
      /\ room \in U64
      BY WindowIsExact
<1>2. ExactBudget(timeout, max_rtt) \in Nat /\ ExactMargin(max_rtt) \in Nat
      BY ExactTypes
<1>3. wait \in Nat /\ wait <= room
      <2> HIDE DEF room
      <2> QED BY <1>1, Scale DEF recovery_delay_ms, smaller, U64
<1> HIDE DEF room, wait
<1> QED BY <1>1, <1>2, <1>3 DEF U64

(* One failed attempt never uses up the reserve (heartbeat.rs,             *)
(* retry_reserve_ms).                                                      *)
THEOREM FailuresAffordRetry ==
    ASSUME NEW remaining \in U64, NEW rtt \in Nat, NEW timeout \in U64,
           NEW max_rtt \in Nat
    PROVE  AffordsRetry(remaining, rtt, timeout, max_rtt)
<1> DEFINE delay_ms == remaining_next_delay_ms(remaining, rtt, timeout, max_rtt)
           lead == lead_floor_ms(remaining, rtt)
           reserve == retry_reserve_ms(timeout, max_rtt)
           budget == ExactBudget(timeout, max_rtt)
           margin == ExactMargin(max_rtt)
<1> SUFFICES ASSUME delay_ms > 0
             PROVE  recovery_window_ms(lead - delay_ms - budget, timeout, max_rtt) >= 0
    BY DEF AffordsRetry
<1>1. reserve < lead /\ delay_ms = lead - reserve
      BY DelayIsExact
<1>2. lead \in U64 /\ reserve \in U64
      BY FloorType, ReserveType
<1>3. reserve = 2 * budget + margin
      BY <1>1, <1>2, ReserveIsExact
<1>4. budget \in Nat /\ margin \in Nat
      BY ExactTypes
<1>5. /\ attempt_budget_ms(timeout, max_rtt) \in Nat
      /\ attempt_budget_ms(timeout, max_rtt) <= budget
      /\ safety_margin_ms(max_rtt) \in Nat
      /\ safety_margin_ms(max_rtt) <= margin
      BY BudgetTypes
<1> HIDE DEF delay_ms, lead, reserve, budget, margin
<1>6. lead - delay_ms - budget = budget + margin
      BY <1>1, <1>2, <1>3, <1>4 DEF U64
<1> QED BY <1>4, <1>5, <1>6 DEF recovery_window_ms
=============================================================================
