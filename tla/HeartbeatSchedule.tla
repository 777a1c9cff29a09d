-------------------------- MODULE HeartbeatSchedule --------------------------
(***************************************************************************)
(* The heartbeat's arithmetic: when to beat again after a success, how     *)
(* much of the lease a retry may use, when a beat can be skipped.  All     *)
(* amounts are in one unit of time (milliseconds in the code).  Unsigned   *)
(* 64-bit arithmetic saturates: at zero below, at U64_MAX above.  The      *)
(* per-attempt timeout of this client is always finite, so the unbounded   *)
(* budget the code also provides for does not arise.                       *)
(***************************************************************************)
EXTENDS Integers

CONSTANTS
    HELD_CADENCE_CAP_MS,   \* 30 s
    MIN_BEAT_DELAY_MS,     \* 500 ms
    RECOVERY_CAP_MS,       \* the 30 s of recovery_delay_ms
    SECOND,                \* 1 s, the least budget and the least margin
    U64_MAX

ASSUME ScaleAssumption ==
    /\ {HELD_CADENCE_CAP_MS, MIN_BEAT_DELAY_MS, RECOVERY_CAP_MS, SECOND, U64_MAX}
          \subseteq Nat \ {0}
    /\ SECOND <= U64_MAX
    /\ RECOVERY_CAP_MS <= U64_MAX

larger(x, y) == IF x >= y THEN x ELSE y
smaller(x, y) == IF x <= y THEN x ELSE y
clamp(x, lo, hi) == larger(lo, smaller(x, hi))

U64 == 0 .. U64_MAX
saturating(x) == smaller(x, U64_MAX)

(* Mutant: a difference may go below zero.                                *)
plain_sub(x, y) == x - y

saturating_sub(x, y) == larger(x - y, 0)

-----------------------------------------------------------------------------
(* Fallback: the grant ledger.                                             *)

NoGrant == -1             \* last_grant_ms: None

held_cadence_ms(requested) == clamp(requested \div 2, 1, HELD_CADENCE_CAP_MS)

is_lead_clamp_grant(grant, requested, elapsed) ==
    \/ grant <= 0
    \/ /\ 10 * grant < 9 * requested
       /\ 4 * grant <= 5 * elapsed
       /\ 4 * grant >= 3 * elapsed

next_beat_delay_ms(grant, requested) ==
    clamp(grant \div 2, MIN_BEAT_DELAY_MS, larger(requested \div 2, MIN_BEAT_DELAY_MS))

lead_min_ms(grants_sum, elapsed) == grants_sum - elapsed

(* Mutant: any lead at all is enough to skip.                              *)
skip_on_any_lead(lead_min, grant) == grant # NoGrant /\ lead_min >= 0

(* Mutant: ample lead is never noticed.                                    *)
skip_never(lead_min, grant) == FALSE

should_skip(lead_min, grant) == grant # NoGrant /\ 2 * lead_min >= 3 * grant

-----------------------------------------------------------------------------
(* Normative: the server's remaining_ttl_ms.                               *)

(* Mutant: the response's way back is not deducted.                        *)
floor_at_evaluation(remaining, rtt) == remaining

lead_floor_ms(remaining, rtt) == saturating_sub(remaining, rtt)

attempt_budget_ms(timeout, max_rtt) ==
    larger(larger(timeout, SECOND), saturating(max_rtt * 2))

safety_margin_ms(max_rtt) == larger(saturating(max_rtt * 2), SECOND)

(* Mutant: room for one attempt only.                                      *)
single_attempt(timeout, max_rtt) ==
    saturating(attempt_budget_ms(timeout, max_rtt) + safety_margin_ms(max_rtt))

retry_reserve_ms(timeout, max_rtt) ==
    saturating(saturating(attempt_budget_ms(timeout, max_rtt) * 2)
               + safety_margin_ms(max_rtt))

remaining_next_delay_ms(remaining, rtt, timeout, max_rtt) ==
    saturating_sub(lead_floor_ms(remaining, rtt), retry_reserve_ms(timeout, max_rtt))

(* Mutant: the margin is not kept.                                         *)
window_without_margin(lead, timeout, max_rtt) ==
    lead - attempt_budget_ms(timeout, max_rtt)

(* Signed: a negative window means that no complete retry fits.            *)
recovery_window_ms(lead, timeout, max_rtt) ==
    lead - attempt_budget_ms(timeout, max_rtt) - safety_margin_ms(max_rtt)

recovery_delay_ms(lead, window) ==
    smaller(smaller(RECOVERY_CAP_MS, lead \div 4), IF window \in U64 THEN window ELSE 0)

(* previous_window is a set: empty outside a recovery run, else one window. *)
recovery_stalled(window, previous_window, elapsed_advanced) ==
    \E previous \in previous_window : ~elapsed_advanced /\ window >= previous

-----------------------------------------------------------------------------
(* What the schedule promises, in unbounded arithmetic.                    *)

ExactBudget(timeout, max_rtt) == larger(larger(timeout, SECOND), 2 * max_rtt)
ExactMargin(max_rtt) == larger(2 * max_rtt, SECOND)

(* A beat that is put off leaves room for one failed attempt, one retry    *)
(* and the margin, counted from the moment the server evaluated the lease; *)
(* saturation never makes the delay longer.                                *)
LeavesReserve(remaining, rtt, timeout, max_rtt) ==
    LET delay == remaining_next_delay_ms(remaining, rtt, timeout, max_rtt)
    IN  delay > 0 =>
            rtt + delay + 2 * ExactBudget(timeout, max_rtt) + ExactMargin(max_rtt)
                <= remaining

(* Such a beat may fail after a whole budget and its first recovery still  *)
(* has a window.                                                           *)
AffordsRetry(remaining, rtt, timeout, max_rtt) ==
    LET delay == remaining_next_delay_ms(remaining, rtt, timeout, max_rtt)
        left == lead_floor_ms(remaining, rtt) - delay - ExactBudget(timeout, max_rtt)
    IN  delay > 0 => recovery_window_ms(left, timeout, max_rtt) >= 0

(* A recovery that is allowed starts while a complete attempt and the      *)
(* margin still fit in the lease.                                          *)
RetryFits(lead, timeout, max_rtt) ==
    LET window == recovery_window_ms(lead, timeout, max_rtt)
    IN  window >= 0 =>
            /\ recovery_delay_ms(lead, window) >= 0
            /\ recovery_delay_ms(lead, window) + ExactBudget(timeout, max_rtt)
                   + ExactMargin(max_rtt) <= lead
=============================================================================
