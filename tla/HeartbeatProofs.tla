--------------------------- MODULE HeartbeatProofs ---------------------------
(* The heartbeat for every scale, timeout, server and pattern of failures: *)
(* types, one extension per beat, honest lease estimates, room for every   *)
(* request, a ledger that never overestimates, and no busy loop; and, for  *)
(* the servers each of them is about, a lease that never lapses and an     *)
(* expiry that stays close.                                                *)
EXTENDS Heartbeat, ErrorClassesProofs, HeartbeatScheduleProofs, FiniteSetTheorems

-----------------------------------------------------------------------------
(* What the steps compute.                                                 *)

LEMMA Parameters ==
    /\ RequestedTtl \in U64 /\ RequestTimeout \in U64 /\ RequestTimeout \in Nat
    /\ Slip \in Nat /\ MaxTime \in Nat
    /\ \A g \in Grants : g \in Nat
    /\ \A lead \in Leads : lead \in Nat
BY TimeAssumption, ServerAssumption, Scale DEF U64

LEMMA CadenceTypes ==
    ASSUME NEW g \in Nat
    PROVE  held_cadence_ms(RequestedTtl) \in Nat /\ next_beat_delay_ms(g, RequestedTtl) \in Nat
<1>1. g \div 2 \in Nat /\ RequestedTtl \div 2 \in Nat
      BY Parameters, Scale DEF U64
<1> QED BY <1>1, Scale DEF held_cadence_ms, next_beat_delay_ms, clamp, larger, smaller

LEMMA OutcomeType ==
    ASSUME TypeOK
    PROVE  outcome.retry_after \in {NoDelay} \cup Nat
<1>1. reply.resp \in Response
      BY DEF TypeOK, Reply, NoReply, Response
<1> QED BY <1>1, ResultType DEF outcome, Result

(* The lease left is known to be at least lead_now, and a retry that is    *)
(* allowed starts within the window.                                       *)
LEMMA LeadNowType ==
    ASSUME TypeOK, TimeInOrder
    PROVE  /\ lead_now \in U64
           /\ window \in Int
           /\ lead_now > 0 => lead_now = lead_sample.floor - (now - lead_sample.at)
<1>1. /\ lead_sample.floor \in U64 /\ lead_sample.at \in Nat /\ now \in Nat
      /\ lead_sample.at <= now
      BY DEF TypeOK, TimeInOrder
<1>2. /\ lead_now \in U64
      /\ lead_now > 0 => lead_now = lead_sample.floor - (now - lead_sample.at)
      BY <1>1, Scale DEF lead_now, saturating_sub, larger, U64
<1>3. /\ attempt_budget_ms(RequestTimeout, max_rtt_ms) \in Nat
      /\ safety_margin_ms(max_rtt_ms) \in Nat
      BY BudgetTypes, Parameters DEF TypeOK
<1>4. window \in Int
      <2> HIDE DEF lead_now
      <2> QED BY <1>2, <1>3, Scale DEF window, recovery_window_ms, U64
<1> QED BY <1>2, <1>4

LEMMA RecoveryType ==
    ASSUME TypeOK, TimeInOrder, MayRecover, NEW d \in RetryDelays
    PROVE  window \in U64 /\ d \in Nat /\ d <= window
<1>1. window \in U64
  <2>1. window >= 0
        BY DEF MayRecover
  <2> QED BY <2>1, LeadNowType, WindowIsExact, Parameters DEF window, TypeOK
<1>2. CASE outcome.status = 429
      BY <1>1, <1>2, OutcomeType DEF RetryDelays, NoDelay
<1>3. CASE outcome.status # 429
  <2>1. d = recovery_delay_ms(lead_now, window)
        BY <1>3 DEF RetryDelays
  <2>2. lead_now \in Nat
        BY LeadNowType, Scale DEF U64
  <2> HIDE DEF lead_now, window
  <2> QED BY <1>1, <2>1, <2>2, Scale DEF recovery_delay_ms, smaller, U64
<1> QED BY <1>1, <1>2, <1>3

(* The server carries out one extension per key and never shortens a       *)
(* lease.                                                                  *)
LEMMA ExpiryGrows ==
    ASSUME TypeOK, NEW k, Apply(k)
    PROVE  /\ expiry' \in Nat /\ expiry <= expiry' /\ now <= expiry'
           /\ applied' = applied \cup {k}
<1>1. now \in Nat /\ expiry \in Nat /\ now <= expiry
      BY DEF TypeOK, Apply
<1>2. CASE k \in applied
      BY <1>1, <1>2 DEF Apply
<1>3. CASE k \notin applied
  <2>1. expiry' \in NewExpiries /\ applied' = applied \cup {k}
        BY <1>3 DEF Apply
  <2>2. \A e \in NewExpiries : e \in Nat /\ expiry <= e
        BY <1>1, Parameters DEF NewExpiries, larger
  <2> QED BY <1>1, <2>1, <2>2
<1> QED BY <1>2, <1>3

LEMMA LargerType ==
    ASSUME NEW x \in Nat, NEW y \in Nat
    PROVE  larger(x, y) \in Nat /\ x <= larger(x, y) /\ y <= larger(x, y)
BY DEF larger

LEMMA AdvanceType ==
    ASSUME TypeOK, NEW d \in Nat
    PROVE  advance(next_beat, d) \in Nat /\ now <= advance(next_beat, d)
BY DEF TypeOK, advance, larger

-----------------------------------------------------------------------------
(* The invariant, action by action.                                        *)

LEMMA CancelledKeeps ==
    ASSUME BaseInv, Cancelled \/ Cancel \/ UNCHANGED vars
    PROVE  BaseInv'
<1> USE DEF vars, serverVars, clientVars, ledgerVars, recoveryVars, scheduleVars,
            requestVars, countVars
<1>1. TypeOK'
      BY DEF BaseInv, TypeOK, Cancelled, Cancel
<1>2. TimeInOrder'
      BY DEF BaseInv, TimeInOrder, Cancelled, Cancel
<1>3. StreakBounded' /\ KeysInOrder'
      BY DEF BaseInv, StreakBounded, KeysInOrder, Cancelled, Cancel
<1>4. AnswerIsALowerBound' /\ FloorIsALowerBound'
      BY DEF BaseInv, AnswerIsALowerBound, FloorIsALowerBound, Cancelled, Cancel
<1> QED BY <1>1, <1>2, <1>3, <1>4 DEF BaseInv

LEMMA SkipKeeps ==
    ASSUME BaseInv, Skip
    PROVE  BaseInv'
<1> USE DEF vars, serverVars, clientVars, ledgerVars, recoveryVars, scheduleVars,
            requestVars, countVars
<1>1. next_beat' \in Nat /\ now <= next_beat'
      BY AdvanceType DEF BaseInv, TypeOK, Skip
<1>2. TypeOK'
      BY <1>1 DEF BaseInv, TypeOK, Skip
<1>3. TimeInOrder'
      BY <1>1, Parameters DEF BaseInv, TypeOK, TimeInOrder, Skip
<1>4. StreakBounded' /\ KeysInOrder'
      BY DEF BaseInv, StreakBounded, KeysInOrder, Skip
<1>5. AnswerIsALowerBound' /\ FloorIsALowerBound'
      BY DEF BaseInv, AnswerIsALowerBound, FloorIsALowerBound, Skip
<1> QED BY <1>2, <1>3, <1>4, <1>5 DEF BaseInv

LEMMA SendKeeps ==
    ASSUME BaseInv, Send
    PROVE  BaseInv'
<1> USE DEF vars, serverVars, clientVars, ledgerVars, recoveryVars, scheduleVars,
            requestVars, countVars
<1>1. TypeOK'
  <2>1. /\ issued' \in Nat /\ issued <= issued'
        /\ key' \in 0 .. issued' /\ pending_key' \in 0 .. issued'
        BY DEF BaseInv, TypeOK, Send
  <2>2. applied' \subseteq 1 .. issued' /\ late' \subseteq 1 .. issued'
        BY <2>1 DEF BaseInv, TypeOK, Send
  <2> QED BY <2>1, <2>2 DEF BaseInv, TypeOK, Send
<1>2. TimeInOrder'
      BY Parameters DEF BaseInv, TypeOK, TimeInOrder, Send
<1>3. StreakBounded' /\ KeysInOrder'
      BY DEF BaseInv, TypeOK, StreakBounded, KeysInOrder, Send, BeatDue, NoKey
<1>4. AnswerIsALowerBound' /\ FloorIsALowerBound'
      BY DEF BaseInv, AnswerIsALowerBound, FloorIsALowerBound, Send, BeatDue
<1> QED BY <1>1, <1>2, <1>3, <1>4 DEF BaseInv

LEMMA ExtendKeeps ==
    ASSUME BaseInv, Extend
    PROVE  BaseInv'
<1> USE DEF serverVars, clientVars, ledgerVars, recoveryVars, scheduleVars,
            requestVars, countVars, ClientStays
<1>1. /\ expiry' \in Nat /\ expiry <= expiry' /\ now <= expiry'
      /\ applied' = applied \cup {key}
      BY ExpiryGrows DEF BaseInv, Extend
<1>2. /\ reply' \in Reply
      /\ reply'.remaining # NoField => reply'.remaining <= expiry' - now
  <2>1. /\ saturating(expiry' - now) \in U64
        /\ saturating(expiry' - now) <= expiry' - now
        BY <1>1, SaturationType, Scale DEF BaseInv, TypeOK, U64
  <2>2. PICK field \in Fields :
            reply' = Success(expiry', IF field THEN saturating(expiry' - now) ELSE NoField)
        BY DEF Extend
  <2>3. [status |-> 200, body |-> "valid", retry_after |-> NoDelay] \in Response
        BY DEF Response, HttpResponse
  <2> QED BY <1>1, <2>1, <2>2, <2>3 DEF Reply, Success
<1>3. TypeOK'
  <2>1. key \in 1 .. issued
        BY DEF BaseInv, TypeOK, KeysInOrder, Extend, Waiting, NoKey
  <2> QED BY <1>1, <1>2, <2>1 DEF BaseInv, TypeOK, Extend
<1>4. TimeInOrder' /\ StreakBounded' /\ KeysInOrder'
      BY DEF BaseInv, TimeInOrder, StreakBounded, KeysInOrder, Extend
<1>5. AnswerIsALowerBound'
  <2>1. reply'.remaining # NoField => sent_at + reply'.remaining <= expiry'
    <3>1. sent_at \in Nat /\ now \in Nat /\ sent_at <= now
          BY DEF BaseInv, TypeOK, TimeInOrder, Extend, Waiting
    <3>2. reply'.remaining # NoField => reply'.remaining \in Nat
          BY <1>2, Scale DEF Reply, U64
    <3> QED BY <1>1, <1>2, <3>1, <3>2
  <2> QED BY <2>1 DEF AnswerIsALowerBound, Extend
<1>6. FloorIsALowerBound'
  <2>1. lead_sample.at + lead_sample.floor \in Nat /\ expiry \in Nat
        BY Scale DEF BaseInv, TypeOK, U64
  <2> QED BY <1>1, <2>1 DEF BaseInv, FloorIsALowerBound, Extend
<1> QED BY <1>3, <1>4, <1>5, <1>6 DEF BaseInv

(* A failure carries no lease.                                             *)
LEMMA FailureType ==
    ASSUME NEW resp \in Failures \cup {Lost}
    PROVE  Failure(resp) \in Reply /\ Failure(resp).remaining = NoField
BY ServerAssumption DEF Failure, Reply, Response

LEMMA RefuseKeeps ==
    ASSUME BaseInv, Refuse
    PROVE  BaseInv'
<1> USE DEF serverVars, clientVars, ledgerVars, recoveryVars, scheduleVars,
            requestVars, countVars, ClientStays
<1>1. /\ expiry' \in Nat /\ expiry <= expiry'
      /\ applied' \subseteq applied \cup {key}
      BY ExpiryGrows DEF BaseInv, TypeOK, Refuse
<1>2. reply' \in Reply /\ reply'.remaining = NoField
      BY FailureType DEF Refuse
<1>3. TypeOK'
  <2>1. key \in 1 .. issued
        BY DEF BaseInv, TypeOK, KeysInOrder, Refuse, Waiting, NoKey
  <2> QED BY <1>1, <1>2, <2>1 DEF BaseInv, TypeOK, Refuse
<1>4. TimeInOrder' /\ StreakBounded' /\ KeysInOrder'
      BY DEF BaseInv, TimeInOrder, StreakBounded, KeysInOrder, Refuse
<1>5. AnswerIsALowerBound'
      BY <1>2 DEF AnswerIsALowerBound
<1>6. FloorIsALowerBound'
  <2>1. lead_sample.at + lead_sample.floor \in Nat /\ expiry \in Nat
        BY Scale DEF BaseInv, TypeOK, U64
  <2> QED BY <1>1, <2>1 DEF BaseInv, FloorIsALowerBound, Refuse
<1> QED BY <1>3, <1>4, <1>5, <1>6 DEF BaseInv

LEMMA LoseKeeps ==
    ASSUME BaseInv, Lose
    PROVE  BaseInv'
<1> USE DEF serverVars, clientVars, ledgerVars, recoveryVars, scheduleVars,
            requestVars, countVars, ClientStays
<1>1. reply' \in Reply /\ reply'.remaining = NoField
      BY FailureType DEF Lose
<1>2. TypeOK'
  <2>1. key \in 1 .. issued
        BY DEF BaseInv, TypeOK, KeysInOrder, Lose, Waiting, NoKey
  <2> QED BY <1>1, <2>1 DEF BaseInv, TypeOK, Lose
<1>3. TimeInOrder' /\ StreakBounded' /\ KeysInOrder'
      BY DEF BaseInv, TimeInOrder, StreakBounded, KeysInOrder, Lose
<1>4. AnswerIsALowerBound' /\ FloorIsALowerBound'
      BY <1>1 DEF BaseInv, AnswerIsALowerBound, FloorIsALowerBound, Lose
<1> QED BY <1>2, <1>3, <1>4 DEF BaseInv

LEMMA ServeLateKeeps ==
    ASSUME BaseInv, ServeLate
    PROVE  BaseInv'
<1> USE DEF serverVars, clientVars, ledgerVars, recoveryVars, scheduleVars,
            requestVars, countVars, ClientStays
<1>1. PICK k \in late : Apply(k) /\ late' = late \ {k}
      BY DEF ServeLate
<1>2. /\ expiry' \in Nat /\ expiry <= expiry'
      /\ applied' = applied \cup {k}
      BY <1>1, ExpiryGrows DEF BaseInv
<1>3. TypeOK'
      BY <1>1, <1>2 DEF BaseInv, TypeOK, ServeLate
<1>4. TimeInOrder' /\ StreakBounded' /\ KeysInOrder'
      BY DEF BaseInv, TimeInOrder, StreakBounded, KeysInOrder, ServeLate
<1>5. AnswerIsALowerBound'
  <2>1. reply.remaining # NoField /\ reply # NoReply => sent_at + reply.remaining \in Nat
        BY Scale DEF BaseInv, TypeOK, Reply, U64
  <2>2. expiry \in Nat
        BY DEF BaseInv, TypeOK
  <2> QED BY <1>2, <2>1, <2>2 DEF BaseInv, AnswerIsALowerBound, ServeLate
<1>6. FloorIsALowerBound'
  <2>1. lead_sample.at + lead_sample.floor \in Nat /\ expiry \in Nat
        BY Scale DEF BaseInv, TypeOK, U64
  <2> QED BY <1>2, <2>1 DEF BaseInv, FloorIsALowerBound, ServeLate
<1> QED BY <1>3, <1>4, <1>5, <1>6 DEF BaseInv

LEMMA TickKeeps ==
    ASSUME BaseInv, Tick
    PROVE  BaseInv'
<1> USE DEF serverVars, clientVars, ledgerVars, recoveryVars, scheduleVars,
            requestVars, countVars, ClientStays
<1>1. TypeOK'
      BY DEF BaseInv, TypeOK, Tick
<1>2. TimeInOrder'
      BY Parameters DEF BaseInv, TypeOK, TimeInOrder, Tick
<1>3. StreakBounded' /\ KeysInOrder'
      BY DEF BaseInv, StreakBounded, KeysInOrder, Tick
<1>4. AnswerIsALowerBound' /\ FloorIsALowerBound'
      BY DEF BaseInv, AnswerIsALowerBound, FloorIsALowerBound, Tick
<1> QED BY <1>1, <1>2, <1>3, <1>4 DEF BaseInv

LEMMA GiveUpKeeps ==
    ASSUME BaseInv, GiveUp
    PROVE  BaseInv'
<1> USE DEF serverVars, clientVars, ledgerVars, recoveryVars, scheduleVars,
            requestVars, countVars, Close
<1>1. TypeOK'
      BY DEF BaseInv, TypeOK, GiveUp, NoKey
<1>2. TimeInOrder' /\ StreakBounded' /\ KeysInOrder'
      BY DEF BaseInv, TimeInOrder, StreakBounded, KeysInOrder, GiveUp
<1>3. AnswerIsALowerBound' /\ FloorIsALowerBound'
      BY DEF BaseInv, AnswerIsALowerBound, FloorIsALowerBound, GiveUp
<1> QED BY <1>1, <1>2, <1>3 DEF BaseInv

LEMMA RecoverKeeps ==
    ASSUME BaseInv, Recover
    PROVE  BaseInv'
<1> USE DEF serverVars, clientVars, ledgerVars, recoveryVars, scheduleVars,
            requestVars, countVars, Close
<1>1. PICK d \in RetryDelays : next_beat' = now + d
      BY DEF Recover
<1>2. window \in U64 /\ window \in Nat /\ d \in Nat
      BY RecoveryType, Scale DEF BaseInv, Recover, U64
<1>3. TypeOK'
      BY <1>1, <1>2 DEF BaseInv, TypeOK, Recover, NoKey
<1>4. TimeInOrder'
      BY <1>1, <1>2, Parameters DEF BaseInv, TypeOK, TimeInOrder, Recover
<1>5. StreakBounded' /\ KeysInOrder'
      BY DEF BaseInv, TypeOK, StreakBounded, KeysInOrder, Recover, Failed, Answered, NoKey
<1>6. AnswerIsALowerBound' /\ FloorIsALowerBound'
      BY DEF BaseInv, AnswerIsALowerBound, FloorIsALowerBound, Recover, Failed, Answered
<1> QED BY <1>3, <1>4, <1>5, <1>6 DEF BaseInv

LEMMA RetryAtCadenceKeeps ==
    ASSUME BaseInv, RetryAtCadence
    PROVE  BaseInv'
<1> USE DEF serverVars, clientVars, ledgerVars, recoveryVars, scheduleVars,
            requestVars, countVars, Close
<1>1. next_beat' \in Nat /\ now <= next_beat'
      BY AdvanceType DEF BaseInv, TypeOK, RetryAtCadence
<1>2. TypeOK'
      BY <1>1 DEF BaseInv, TypeOK, RetryAtCadence, NoKey
<1>3. TimeInOrder'
      BY <1>1, Parameters DEF BaseInv, TypeOK, TimeInOrder, RetryAtCadence
<1>4. StreakBounded' /\ KeysInOrder'
      BY DEF BaseInv, TypeOK, StreakBounded, KeysInOrder, RetryAtCadence, Failed,
         Answered, NoKey
<1>5. AnswerIsALowerBound' /\ FloorIsALowerBound'
      BY DEF BaseInv, AnswerIsALowerBound, FloorIsALowerBound, RetryAtCadence
<1> QED BY <1>2, <1>3, <1>4, <1>5 DEF BaseInv

(* What a success records has the right type; the ledger only grows.       *)
LEMMA AcknowledgeType ==
    ASSUME BaseInv, Answered, outcome.kind = "Ok", Acknowledge
    PROVE  /\ reply \in Reply
           /\ rtt_ms \in Nat /\ max_rtt_ms' \in Nat /\ rtt_ms <= max_rtt_ms'
           /\ prev_expiry' \in Nat /\ grants_sum_ms' \in Nat /\ counted \in Nat
<1>1. reply \in Reply
      BY DEF BaseInv, TypeOK, Answered
<1>2. rtt_ms \in Nat
      BY DEF BaseInv, TypeOK, TimeInOrder, Answered, rtt_ms
<1>3. max_rtt_ms \in Nat /\ max_rtt_ms' = larger(max_rtt_ms, rtt_ms)
      BY DEF BaseInv, TypeOK, Acknowledge
<1>4. max_rtt_ms' \in Nat /\ rtt_ms <= max_rtt_ms'
      BY <1>2, <1>3 DEF larger
<1>5. reply.expires_at \in Nat
      BY <1>1 DEF Reply
<1>6. grant \in Int
      BY <1>5, Parameters, Scale DEF BaseInv, TypeOK, grant, U64
<1>7. counted \in Nat
      BY <1>6 DEF counted, larger
<1> QED BY <1>1, <1>2, <1>4, <1>5, <1>7 DEF BaseInv, TypeOK, Acknowledge

LEMMA AcknowledgedType ==
    ASSUME TypeOK, Acknowledge,
           prev_expiry' \in Nat, grants_sum_ms' \in Nat, counted \in Nat,
           max_rtt_ms' \in Nat, normative' \in BOOLEAN, delay' \in Nat,
           next_beat' \in Nat, zero_delay_streak' \in 0 .. 2,
           pc' \in {"select", "extend", "stopped"},
           lead_sample' \in [floor : U64, at : Nat]
    PROVE  TypeOK'
<1>1. /\ last_grant_ms' \in Nat /\ last_success' \in Nat /\ successes' \in Nat
      BY DEF TypeOK, Acknowledge
<1>2. /\ pending_key' = 0 /\ key' = 0 /\ sent_at' = 0 /\ reply' = NoReply
      /\ last_recovery' = {} /\ zero_window_retried' = FALSE
      /\ UNCHANGED <<now, cancelled, start, expiry, applied, late, issued, burst,
                     disturbed>>
      BY DEF Acknowledge, Close, NoKey, serverVars
<1>3. /\ \A r \in last_recovery' : r.window \in Nat /\ r.at \in Nat
      /\ \A r, previous \in last_recovery' : r = previous
      /\ zero_window_retried' \in BOOLEAN
      BY <1>2
<1>4. pending_key' \in 0 .. issued' /\ key' \in 0 .. issued' /\ sent_at' \in Nat
      BY <1>2 DEF TypeOK
<1> QED BY <1>1, <1>2, <1>3, <1>4 DEF TypeOK

LEMMA ScheduleByLedgerKeeps ==
    ASSUME BaseInv, ScheduleByLedger
    PROVE  BaseInv'
<1> USE DEF serverVars
<1>1. /\ prev_expiry' \in Nat /\ grants_sum_ms' \in Nat /\ counted \in Nat
      /\ max_rtt_ms' \in Nat
      BY AcknowledgeType DEF ScheduleByLedger
<1>2. delay' \in Nat
      BY <1>1, CadenceTypes DEF ScheduleByLedger
<1>3. next_beat' \in Nat /\ now <= next_beat'
  <2>1. PICK d \in Nat : next_beat' = advance(next_beat, d)
        BY <1>2 DEF ScheduleByLedger
  <2> QED BY <2>1, AdvanceType DEF BaseInv
<1>4. TypeOK'
  <2>1. Acknowledge /\ TypeOK
        BY DEF BaseInv, ScheduleByLedger
  <2>2. /\ normative' = FALSE /\ zero_delay_streak' = 0 /\ pc' = "select"
        /\ lead_sample' = lead_sample
        BY DEF ScheduleByLedger
  <2>3. lead_sample' \in [floor : U64, at : Nat] /\ zero_delay_streak' \in 0 .. 2
        BY <2>1, <2>2 DEF TypeOK
  <2> QED BY <1>1, <1>2, <1>3, <2>1, <2>2, <2>3, AcknowledgedType
<1>5. TimeInOrder'
      BY <1>3, Parameters DEF BaseInv, TypeOK, TimeInOrder, ScheduleByLedger, Acknowledge
<1>6. StreakBounded' /\ KeysInOrder'
      BY DEF BaseInv, TypeOK, StreakBounded, KeysInOrder, ScheduleByLedger, Acknowledge,
         Answered
<1>7. AnswerIsALowerBound' /\ FloorIsALowerBound'
      BY DEF AnswerIsALowerBound, FloorIsALowerBound, ScheduleByLedger
<1> QED BY <1>4, <1>5, <1>6, <1>7 DEF BaseInv

LEMMA ScheduleByFieldKeeps ==
    ASSUME BaseInv, ScheduleByField
    PROVE  BaseInv'
<1> DEFINE next_delay == remaining_next_delay_ms(reply.remaining, rtt_ms,
                                                 RequestTimeout, max_rtt_ms')
           floor == lead_floor_ms(reply.remaining, rtt_ms)
<1> USE DEF serverVars
<1>1. /\ prev_expiry' \in Nat /\ grants_sum_ms' \in Nat /\ counted \in Nat
      /\ max_rtt_ms' \in Nat /\ rtt_ms \in Nat
      BY AcknowledgeType DEF ScheduleByField
<1>2. reply.remaining \in U64
      BY AcknowledgeType DEF ScheduleByField, Reply
<1>3. next_delay \in Nat
      BY <1>1, <1>2, DelayIsExact, Parameters
<1>4. floor \in U64 /\ (floor > 0 => floor = reply.remaining - rtt_ms)
      BY <1>1, <1>2, FloorType
<1>5. /\ zero_delay_streak' = IF next_delay = 0 THEN zero_delay_streak + 1 ELSE 0
      /\ IF zero_delay_streak' >= 2
         THEN pc' = "stopped" /\ UNCHANGED next_beat
         ELSE pc' = "select" /\ next_beat' = now + next_delay
      /\ lead_sample' = [floor |-> floor, at |-> now]
      /\ normative' = TRUE /\ delay' = delay
      BY DEF ScheduleByField
<1> HIDE DEF next_delay, floor
<1>6. zero_delay_streak' \in 0 .. 2
      BY <1>5 DEF BaseInv, TypeOK, StreakBounded, ScheduleByField, Answered
<1>7. next_beat' \in Nat /\ (pc' # "stopped" => now <= next_beat')
      BY <1>3, <1>5 DEF BaseInv, TypeOK
<1>8. TypeOK'
  <2>1. Acknowledge /\ TypeOK
        BY DEF BaseInv, ScheduleByField
  <2>2. lead_sample' \in [floor : U64, at : Nat] /\ pc' \in {"select", "stopped"}
        BY <1>4, <1>5, <2>1 DEF TypeOK
  <2>3. normative' \in BOOLEAN /\ delay' \in Nat
        BY <1>5, <2>1 DEF TypeOK
  <2> QED BY <1>1, <1>6, <1>7, <2>1, <2>2, <2>3, AcknowledgedType
<1>9. TimeInOrder'
      BY <1>5, <1>7, Parameters DEF BaseInv, TypeOK, TimeInOrder, ScheduleByField, Acknowledge
<1>10. StreakBounded' /\ KeysInOrder'
      BY <1>5, <1>6 DEF BaseInv, TypeOK, StreakBounded, KeysInOrder, ScheduleByField,
         Acknowledge, Answered
<1>11. AnswerIsALowerBound'
      BY <1>5 DEF AnswerIsALowerBound
<1>12. FloorIsALowerBound'
  <2>1. sent_at + reply.remaining <= expiry /\ expiry' = expiry
        BY DEF BaseInv, AnswerIsALowerBound, ScheduleByField, Acknowledge, Answered
  <2>2. rtt_ms = now - sent_at /\ now \in Nat /\ sent_at \in Nat /\ expiry \in Nat
        BY DEF rtt_ms, BaseInv, TypeOK
  <2>3. reply.remaining \in Nat /\ floor \in Nat
        BY <1>2, <1>4, Scale DEF U64
  <2>4. floor = 0 \/ now + floor <= expiry
        BY <1>4, <2>1, <2>2, <2>3
  <2> QED BY <1>5, <2>1, <2>4 DEF FloorIsALowerBound
<1> QED BY <1>8, <1>9, <1>10, <1>11, <1>12 DEF BaseInv

LEMMA CreateTypes ==
    ASSUME NEW c \in Creates
    PROVE  /\ c.expiry \in Nat /\ c.rtt \in U64 /\ c.rtt \in Nat /\ c.setup \in Nat
           /\ c.remaining \in {NoField} \cup U64
           /\ c.remaining # NoField =>
                  /\ c.remaining \in U64 /\ remaining_at_start(c) \in U64
                  /\ remaining_at_start(c) > 0
                         => remaining_at_start(c) <= c.expiry + c.rtt
<1>1. /\ c.expiry \in Nat /\ c.rtt \in U64 /\ c.rtt \in Nat /\ c.setup \in Nat
      /\ c.remaining \in {NoField} \cup U64
      BY ServerAssumption, Scale DEF CreateSample, U64
<1>2. ASSUME c.remaining # NoField
      PROVE  /\ c.remaining \in U64 /\ remaining_at_start(c) \in U64
             /\ remaining_at_start(c) > 0
                    => remaining_at_start(c) <= c.expiry + c.rtt
  <2>1. c.remaining \in U64 /\ c.remaining \in Nat
        BY <1>1, <1>2, Scale DEF U64
  <2>2. c.expiry - c.remaining \in -(c.setup + c.rtt) .. -c.setup
        BY <1>2, ServerAssumption DEF TruthfulCreate
  <2>3. c.remaining - c.setup <= c.expiry + c.rtt
        BY <1>1, <2>1, <2>2
  <2> QED BY <1>1, <2>1, <2>3, Scale DEF remaining_at_start, saturating_sub, larger, U64
<1> QED BY <1>1, <1>2

LEMMA InitHolds ==
    ASSUME Init
    PROVE  BaseInv
<1>1. start \in Creates
      BY DEF Init
<1>2. held_cadence_ms(RequestedTtl) \in Nat
      BY CadenceTypes
<1>3. FirstDelay(start) \in Nat
      BY <1>1, CreateTypes, DelayIsExact, Parameters DEF FirstDelay
<1>4. /\ lead_sample \in [floor : U64, at : Nat] /\ lead_sample.at = 0
      /\ normative /\ lead_sample.floor > 0
             => lead_sample.floor = remaining_at_start(start) - start.rtt
  <2>1. CASE start.remaining = NoField
    <3>1. lead_sample = [floor |-> 0, at |-> 0] /\ ~normative
          BY <2>1 DEF Init
    <3> QED BY <3>1, Scale DEF U64
  <2>2. CASE start.remaining # NoField
    <3> DEFINE floor == lead_floor_ms(remaining_at_start(start), start.rtt)
    <3>1. lead_sample = [floor |-> floor, at |-> 0]
          BY <2>2 DEF Init
    <3>2. /\ floor \in U64
          /\ floor > 0 => floor = remaining_at_start(start) - start.rtt
          BY <1>1, <2>2, CreateTypes, FloorType
    <3> HIDE DEF floor
    <3> QED BY <3>1, <3>2
  <2> QED BY <2>1, <2>2
<1>5. TypeOK
  <2>1. /\ expiry \in Nat /\ max_rtt_ms \in Nat
        /\ prev_expiry \in {NoExpiry} \cup Nat
        BY <1>1, CreateTypes DEF Init
  <2>2. normative \in BOOLEAN /\ zero_delay_streak \in 0 .. 2
        BY DEF Init
  <2>3. /\ \A r \in last_recovery : r.window \in Nat /\ r.at \in Nat
        /\ \A r, previous \in last_recovery : r = previous
        BY DEF Init
  <2>4. /\ now \in Nat /\ issued \in Nat /\ sent_at \in Nat /\ successes \in Nat
        /\ burst \in Nat /\ last_success \in Nat /\ grants_sum_ms \in Nat
        BY DEF Init
  <2>5. next_beat \in Nat /\ delay \in Nat
        BY <1>2, <1>3 DEF Init
  <2>6. /\ applied \subseteq 1 .. issued /\ late \subseteq 1 .. issued
        /\ pending_key \in 0 .. issued /\ key \in 0 .. issued
        BY DEF Init, NoKey
  <2>7. /\ cancelled \in BOOLEAN /\ disturbed \in BOOLEAN /\ zero_window_retried \in BOOLEAN
        /\ pc \in {"select", "extend", "stopped"}
        /\ reply \in Reply \cup {NoReply} /\ last_grant_ms \in {NoGrant} \cup Nat
        BY DEF Init
  <2> QED BY <1>1, <1>4, <2>1, <2>2, <2>3, <2>4, <2>5, <2>6, <2>7 DEF TypeOK
<1>6. TimeInOrder /\ StreakBounded /\ KeysInOrder
      BY <1>3, Parameters DEF Init, TimeInOrder, StreakBounded, KeysInOrder, NoKey
<1>7. AnswerIsALowerBound
      BY DEF Init, AnswerIsALowerBound
<1>8. FloorIsALowerBound
  <2> SUFFICES ASSUME normative, lead_sample.floor # 0
               PROVE  lead_sample.at + lead_sample.floor <= expiry
      BY DEF FloorIsALowerBound
  <2>1. start.remaining # NoField /\ expiry = start.expiry /\ lead_sample.at = 0
        BY DEF Init
  <2>2. /\ lead_sample.floor \in Nat
        /\ lead_sample.floor = remaining_at_start(start) - start.rtt
        BY <1>4, Scale DEF U64
  <2>3. remaining_at_start(start) \in Nat /\ start.rtt \in Nat /\ start.expiry \in Nat
        BY <1>1, <2>1, CreateTypes, Scale DEF U64
  <2>4. remaining_at_start(start) <= start.expiry + start.rtt
        BY <1>1, <2>1, <2>2, <2>3, CreateTypes
  <2> QED BY <2>1, <2>2, <2>3, <2>4
<1> QED BY <1>5, <1>6, <1>7, <1>8 DEF BaseInv

LEMMA StepKeeps ==
    ASSUME BaseInv, [Next]_vars
    PROVE  BaseInv'
BY CancelledKeeps, SkipKeeps, SendKeeps, ScheduleByFieldKeeps, ScheduleByLedgerKeeps,
   GiveUpKeeps, RecoverKeeps, RetryAtCadenceKeeps, ExtendKeeps, RefuseKeeps, LoseKeeps,
   ServeLateKeeps, TickKeeps DEF Next, Handle

LEMMA BaseInvariant == Spec => []BaseInv
<1>1. Init => BaseInv
      BY InitHolds
<1>2. BaseInv /\ [Next]_vars => BaseInv'
      BY StepKeeps
<1> QED BY <1>1, <1>2, PTL DEF Spec

(* The heartbeat's and the server's state keep their types.                *)
THEOREM HeartbeatTypeCorrect == Spec => []TypeOK
<1>1. BaseInv => TypeOK
      BY DEF BaseInv
<1> QED BY <1>1, BaseInvariant, PTL

(* However requests fail, are lost or arrive late, the server carries out  *)
(* at most one extension more than the heartbeat has seen succeed          *)
(* (heartbeat.rs, pending_key).                                            *)
THEOREM ExtendsOncePerBeat == Spec => []NeverExtendsTwice
<1>1. BaseInv => NeverExtendsTwice
  <2> SUFFICES ASSUME BaseInv PROVE Cardinality(applied) <= successes + 1
      BY DEF NeverExtendsTwice
  <2>1. issued \in Nat /\ successes \in Nat /\ issued <= successes + 1
        BY DEF BaseInv, TypeOK, KeysInOrder
  <2>2. IsFiniteSet(1 .. issued) /\ Cardinality(1 .. issued) = issued
        BY <2>1, FS_Interval
  <2>3. applied \subseteq 1 .. issued
        BY DEF BaseInv, TypeOK
  <2>4. Cardinality(applied) \in Nat /\ Cardinality(applied) <= issued
        BY <2>2, <2>3, FS_Subset, FS_CardinalityType
  <2> QED BY <2>1, <2>4
<1> QED BY <1>1, BaseInvariant, PTL

(* The lease the heartbeat believes it has, it has (heartbeat.rs,          *)
(* lead_sample).                                                           *)
THEOREM SampleIsHonest == Spec => []SampleIsALowerBound
<1>1. BaseInv => SampleIsALowerBound
  <2> SUFFICES ASSUME BaseInv, normative, pc # "stopped"
               PROVE  lead_now <= saturating_sub(expiry, now)
      BY DEF SampleIsALowerBound
  <2>1. /\ lead_sample.floor \in Nat /\ lead_sample.at \in Nat /\ now \in Nat
        /\ expiry \in Nat /\ lead_sample.at <= now
        BY Scale DEF BaseInv, TypeOK, TimeInOrder, U64
  <2>2. lead_sample.floor = 0 \/ lead_sample.at + lead_sample.floor <= expiry
        BY DEF BaseInv, FloorIsALowerBound
  <2> QED BY <2>1, <2>2 DEF lead_now, saturating_sub, larger
<1> QED BY <1>1, BaseInvariant, PTL

-----------------------------------------------------------------------------
(* Room for every request.  The runtime wakes a sleeper before the least   *)
(* margin has gone by.                                                     *)

LEMMA BudgetCovers ==
    ASSUME NEW max_rtt \in Nat
    PROVE  /\ ExactBudget(RequestTimeout, max_rtt) \in Nat
           /\ ExactMargin(max_rtt) \in Nat
           /\ RequestTimeout <= ExactBudget(RequestTimeout, max_rtt)
           /\ SECOND <= ExactMargin(max_rtt)
BY ExactTypes, Parameters

LEMMA FirstBeatLeavesRoom ==
    ASSUME Init
    PROVE  LeaseInv
<1>1. LeaseCoversAttempt
      BY DEF Init, LeaseCoversAttempt
<1>2. ASSUME normative, zero_delay_streak = 0 \/ pending_key # NoKey
      PROVE  next_beat + RequestTimeout + SECOND <= expiry
  <2> DEFINE left == remaining_at_start(start)
             budget == ExactBudget(RequestTimeout, start.rtt)
             margin == ExactMargin(start.rtt)
  <2>1. start \in Creates /\ start.remaining # NoField /\ expiry = start.expiry
        BY <1>2 DEF Init
  <2>2. /\ left \in U64 /\ start.rtt \in Nat /\ start.expiry \in Nat
        /\ left > 0 => left <= start.expiry + start.rtt
        BY <2>1, CreateTypes
  <2>3. next_beat = remaining_next_delay_ms(left, start.rtt, RequestTimeout, start.rtt)
        BY <2>1 DEF Init, FirstDelay
  <2>4. next_beat \in Nat /\ LeavesReserve(left, start.rtt, RequestTimeout, start.rtt)
        BY <2>2, <2>3, DelayIsExact, DelaysLeaveReserve, Parameters
  <2>5. next_beat > 0
        BY <1>2, <2>4 DEF Init
  <2>6. start.rtt + next_beat + 2 * budget + margin <= left
        BY <2>3, <2>4, <2>5 DEF LeavesReserve
  <2>7. /\ budget \in Nat /\ margin \in Nat
        /\ RequestTimeout <= budget /\ SECOND <= margin
        BY <2>2, BudgetCovers
  <2>8. left \in Nat
        BY <2>2, Scale DEF U64
  <2> HIDE DEF left, budget, margin
  <2> QED BY <2>1, <2>2, <2>4, <2>5, <2>6, <2>7, <2>8, Parameters, Scale
<1> QED BY <1>1, <1>2 DEF LeaseInv, ScheduleLeavesRoom

LEMMA SendIsInTime ==
    ASSUME BaseInv, LeaseInv, Send, Slip <= SECOND
    PROVE  LeaseInv'
<1>1. ScheduleLeavesRoom'
      BY DEF ScheduleLeavesRoom, Send
<1>2. ASSUME normative, zero_delay_streak = 0 \/ pending_key # NoKey
      PROVE  now + RequestTimeout <= expiry
  <2>1. next_beat + RequestTimeout + SECOND <= expiry
        BY <1>2 DEF LeaseInv, ScheduleLeavesRoom, Send, BeatDue
  <2>2. now <= next_beat + Slip
        BY DEF BaseInv, TimeInOrder, Send, BeatDue
  <2>3. now \in Nat /\ next_beat \in Nat /\ expiry \in Nat
        BY DEF BaseInv, TypeOK
  <2> QED BY <2>1, <2>2, <2>3, Parameters, Scale
<1>3. LeaseCoversAttempt'
      BY <1>2 DEF LeaseCoversAttempt, Send, serverVars, clientVars, scheduleVars, recoveryVars
<1> QED BY <1>1, <1>3 DEF LeaseInv

LEMMA FieldLeavesRoom ==
    ASSUME BaseInv, ScheduleByField
    PROVE  LeaseInv'
<1> DEFINE next_delay == remaining_next_delay_ms(reply.remaining, rtt_ms,
                                                 RequestTimeout, max_rtt_ms')
<1>1. /\ rtt_ms \in Nat /\ max_rtt_ms' \in Nat
      /\ reply.remaining \in U64 /\ reply.remaining \in Nat
      BY AcknowledgeType, Scale DEF ScheduleByField, Reply, U64
<1>2. /\ next_delay \in Nat
      /\ LeavesReserve(reply.remaining, rtt_ms, RequestTimeout, max_rtt_ms')
      BY <1>1, DelayIsExact, DelaysLeaveReserve, Parameters
<1>3. ASSUME pc' = "select", zero_delay_streak' = 0
      PROVE  next_beat' + RequestTimeout + SECOND <= expiry
  <2> DEFINE budget == ExactBudget(RequestTimeout, max_rtt_ms')
             margin == ExactMargin(max_rtt_ms')
  <2>1. next_beat' = now + next_delay /\ next_delay # 0
        BY <1>3 DEF ScheduleByField, BaseInv, TypeOK
  <2>2. rtt_ms + next_delay + 2 * budget + margin <= reply.remaining
        BY <1>2, <2>1 DEF LeavesReserve
  <2>3. sent_at + reply.remaining <= expiry
        BY DEF BaseInv, AnswerIsALowerBound, ScheduleByField, Answered
  <2>4. /\ rtt_ms = now - sent_at /\ now \in Nat /\ sent_at \in Nat /\ expiry \in Nat
        BY DEF rtt_ms, BaseInv, TypeOK
  <2>5. /\ budget \in Nat /\ margin \in Nat
        /\ RequestTimeout <= budget /\ SECOND <= margin
        BY <1>1, BudgetCovers
  <2> HIDE DEF next_delay, budget, margin
  <2>6. now + next_delay + budget + margin <= expiry
        BY <1>1, <1>2, <2>2, <2>3, <2>4, <2>5
  <2>7. now + next_delay + RequestTimeout + SECOND <= expiry
        BY <1>2, <2>4, <2>5, <2>6, Parameters, Scale
  <2> QED BY <2>1, <2>7
<1>4. /\ pending_key' = NoKey /\ expiry' = expiry /\ pc' \in {"select", "stopped"}
      BY DEF ScheduleByField, Acknowledge, serverVars
<1> QED BY <1>3, <1>4 DEF LeaseInv, ScheduleLeavesRoom, LeaseCoversAttempt

LEMMA RecoveryLeavesRoom ==
    ASSUME BaseInv, Recover
    PROVE  LeaseInv'
<1> DEFINE budget == ExactBudget(RequestTimeout, max_rtt_ms)
           margin == ExactMargin(max_rtt_ms)
<1>1. PICK d \in RetryDelays : next_beat' = now + d
      BY DEF Recover
<1>2. window \in Nat /\ d \in Nat /\ d <= window
      BY RecoveryType, Scale DEF BaseInv, Recover, U64
<1>3. lead_now \in U64 /\ lead_now \in Nat /\ max_rtt_ms \in Nat
      BY LeadNowType, Scale DEF BaseInv, TypeOK, U64
<1>4. window = lead_now - budget - margin
      BY <1>2, <1>3, WindowIsExact, Parameters DEF window
<1>5. /\ budget \in Nat /\ margin \in Nat
      /\ RequestTimeout <= budget /\ SECOND <= margin
      BY <1>3, BudgetCovers
<1>6. lead_now > 0 /\ lead_now = lead_sample.floor - (now - lead_sample.at)
  <2> HIDE DEF lead_now, window, budget, margin
  <2>1. lead_now > 0
        BY <1>2, <1>3, <1>4, <1>5, Scale
  <2> QED BY <2>1, LeadNowType DEF BaseInv
<1>7. /\ lead_sample.floor \in Nat /\ lead_sample.at \in Nat /\ lead_sample.at <= now
      /\ now \in Nat /\ expiry \in Nat
      BY Scale DEF BaseInv, TypeOK, TimeInOrder, U64
<1>8. lead_sample.floor = 0 \/ lead_sample.at + lead_sample.floor <= expiry
      BY DEF BaseInv, FloorIsALowerBound, Recover, Failed, Answered
<1> HIDE DEF lead_now, window, budget, margin
<1>9. now + lead_now <= expiry
      BY <1>3, <1>6, <1>7, <1>8
<1>10. now + d + RequestTimeout + SECOND <= expiry
      BY <1>2, <1>3, <1>4, <1>5, <1>7, <1>9, Parameters, Scale
<1>11. pc' = "select" /\ expiry' = expiry
      BY DEF Recover, serverVars
<1> QED BY <1>1, <1>10, <1>11 DEF LeaseInv, ScheduleLeavesRoom, LeaseCoversAttempt

(* While the answer is awaited only the lease may change, and it grows.    *)
LEMMA ServerLeavesRoom ==
    ASSUME BaseInv, LeaseInv, Extend \/ Refuse \/ Lose \/ ServeLate \/ Tick
    PROVE  LeaseInv'
<1>1. expiry' \in Nat /\ expiry <= expiry'
      BY ExpiryGrows DEF BaseInv, TypeOK, Extend, Refuse, Lose, ServeLate, Tick
<1>2. UNCHANGED <<pc, next_beat, normative, zero_delay_streak, pending_key, sent_at>>
      BY DEF Extend, Refuse, Lose, ServeLate, Tick, ClientStays, clientVars,
         scheduleVars, recoveryVars
<1>3. next_beat \in Nat /\ sent_at \in Nat /\ expiry \in Nat
      BY DEF BaseInv, TypeOK
<1>4. /\ next_beat + RequestTimeout + SECOND <= expiry
             => next_beat + RequestTimeout + SECOND <= expiry'
      /\ sent_at + RequestTimeout <= expiry => sent_at + RequestTimeout <= expiry'
      BY <1>1, <1>3, Parameters, Scale
<1> QED BY <1>2, <1>4 DEF LeaseInv, ScheduleLeavesRoom, LeaseCoversAttempt

(* Steps that leave the schedule alone, end it, or follow the ledger.      *)
LEMMA OthersLeaveRoom ==
    ASSUME BaseInv, LeaseInv,
           \/ Cancelled \/ Cancel \/ Skip
           \/ ScheduleByLedger \/ GiveUp \/ RetryAtCadence
           \/ UNCHANGED vars
    PROVE  LeaseInv'
<1> USE DEF LeaseInv, ScheduleLeavesRoom, LeaseCoversAttempt
<1>1. CASE Cancelled \/ GiveUp
      BY <1>1 DEF Cancelled, GiveUp
<1>2. CASE Cancel \/ UNCHANGED vars
      BY <1>2 DEF Cancel, vars, serverVars, clientVars, scheduleVars, recoveryVars, requestVars
<1>3. CASE Skip \/ RetryAtCadence
      BY <1>3 DEF Skip, BeatDue, SkipsBeat, RetryAtCadence, clientVars, scheduleVars
<1>4. CASE ScheduleByLedger
      BY <1>4 DEF ScheduleByLedger
<1> QED BY <1>1, <1>2, <1>3, <1>4

(* While the field steers, every request but the one immediate extension   *)
(* of a short lease is sent while its whole timeout fits in the lease      *)
(* (heartbeat.rs, the normative branch), if the runtime wakes sleepers     *)
(* before the least margin has gone by.                                    *)
THEOREM RequestsFitLease ==
    ASSUME Slip <= SECOND
    PROVE  Spec => []LeaseCoversAttempt
<1>1. Init => LeaseInv
      BY FirstBeatLeavesRoom
<1>2. BaseInv /\ LeaseInv /\ [Next]_vars => LeaseInv'
      BY SendIsInTime, FieldLeavesRoom, RecoveryLeavesRoom, ServerLeavesRoom,
         OthersLeaveRoom DEF Next, Handle
<1>3. LeaseInv => LeaseCoversAttempt
      BY DEF LeaseInv
<1> QED BY <1>1, <1>2, <1>3, BaseInvariant, PTL DEF Spec

-----------------------------------------------------------------------------
(* The ledger.  What it has counted is the way from the expiry at the      *)
(* start to the last one seen, and the server's only moves on.             *)
LedgerInv ==
    /\ prev_expiry <= expiry
    /\ start.known => /\ prev_expiry # NoExpiry
                      /\ grants_sum_ms <= prev_expiry - start.expiry
    /\ Answered /\ outcome.kind = "Ok" =>
           prev_expiry <= reply.expires_at /\ reply.expires_at <= expiry

(* A success is told from every failure by its kind.                       *)
LEMMA SuccessIsOk ==
    ASSUME NEW e, NEW r
    PROVE  post_json_strict(200, Success(e, r).resp).kind = "Ok"
BY DEF Success, post_json_strict, Bare, Lost, Unsent, NoStatus

LEMMA FailureIsNotOk ==
    ASSUME NEW resp \in Failures \cup {Lost}
    PROVE  post_json_strict(200, Failure(resp).resp).kind # "Ok"
<1>1. CASE resp = Lost
      BY <1>1 DEF Failure, post_json_strict, Bare
<1>2. CASE resp \in Failures
      BY <1>2, ServerAssumption DEF Failure
<1> QED BY <1>1, <1>2

LEMMA LedgerStarts ==
    ASSUME Init
    PROVE  LedgerInv
<1>1. start \in Creates /\ start.expiry \in Nat
      BY CreateTypes DEF Init
<1>2. prev_expiry <= expiry /\ (start.known => prev_expiry = start.expiry)
      BY <1>1 DEF Init, NoExpiry
<1>3. start.known => grants_sum_ms <= prev_expiry - start.expiry /\ prev_expiry # NoExpiry
      BY <1>1, <1>2 DEF Init, NoExpiry
<1>4. ~Answered
      BY DEF Init, Answered
<1> QED BY <1>2, <1>3, <1>4 DEF LedgerInv

(* The server's part: the lease grows.                                     *)
LEMMA ServerKeepsLedger ==
    ASSUME BaseInv, LedgerInv, Extend \/ Refuse \/ Lose \/ ServeLate \/ Tick
    PROVE  LedgerInv'
<1>1. /\ expiry' \in Nat /\ expiry \in Nat /\ expiry <= expiry'
      /\ prev_expiry \in Int
      BY ExpiryGrows DEF BaseInv, TypeOK, NoExpiry, Extend, Refuse, Lose, ServeLate, Tick
<1>2. UNCHANGED <<start, pc, prev_expiry, grants_sum_ms>>
      BY DEF Extend, Refuse, Lose, ServeLate, Tick, ClientStays, clientVars, ledgerVars
<1>3. /\ prev_expiry' <= expiry'
      /\ start'.known => /\ prev_expiry' # NoExpiry
                         /\ grants_sum_ms' <= prev_expiry' - start'.expiry
      BY <1>1, <1>2 DEF LedgerInv
<1>4. ASSUME Answered', outcome'.kind = "Ok"
      PROVE  prev_expiry' <= reply'.expires_at /\ reply'.expires_at <= expiry'
  <2>1. CASE Extend
    <3>1. reply'.expires_at = expiry'
          BY <2>1 DEF Extend, Success
    <3> QED BY <1>1, <1>3, <3>1
  <2>2. CASE Refuse
    <3>1. PICK resp \in Failures : reply' = Failure(resp)
          BY <2>2 DEF Refuse
    <3> QED BY <1>4, <3>1, FailureIsNotOk DEF outcome
  <2>3. CASE Lose
        BY <1>4, <2>3, FailureIsNotOk DEF Lose, outcome
  <2>4. CASE ServeLate \/ Tick
    <3>1. reply' = reply
          BY <2>4 DEF ServeLate, Tick
    <3>2. Answered /\ outcome.kind = "Ok" /\ reply.expires_at \in Nat
          BY <1>2, <1>4, <3>1 DEF Answered, outcome, BaseInv, TypeOK, Reply
    <3> QED BY <1>1, <1>2, <3>1, <3>2 DEF LedgerInv
  <2> QED BY <2>1, <2>2, <2>3, <2>4
<1> QED BY <1>3, <1>4 DEF LedgerInv

(* The client's part: what is counted is what was seen.                    *)
LEMMA SuccessKeepsLedger ==
    ASSUME BaseInv, LedgerInv, ScheduleByField \/ ScheduleByLedger
    PROVE  LedgerInv'
<1>1. Answered /\ outcome.kind = "Ok" /\ Acknowledge
      BY DEF ScheduleByField, ScheduleByLedger
<1>2. /\ prev_expiry' = reply.expires_at /\ grants_sum_ms' = grants_sum_ms + counted
      /\ start' = start /\ expiry' = expiry /\ reply' = NoReply
      BY <1>1 DEF Acknowledge, Close, serverVars
<1>3. prev_expiry <= reply.expires_at /\ reply.expires_at <= expiry
      BY <1>1 DEF LedgerInv
<1>4. /\ reply.expires_at \in Nat /\ prev_expiry \in Int /\ grants_sum_ms \in Nat
      /\ start.expiry \in Nat
      BY <1>1, CreateTypes DEF BaseInv, TypeOK, NoExpiry, Answered, Reply
<1>5. start.known => counted = reply.expires_at - prev_expiry
      BY <1>3, <1>4 DEF LedgerInv, counted, grant, larger
<1>6. start.known => grants_sum_ms' <= prev_expiry' - start'.expiry
      BY <1>2, <1>4, <1>5 DEF LedgerInv
<1> QED BY <1>2, <1>3, <1>4, <1>6 DEF LedgerInv, Answered, NoExpiry

LEMMA OthersKeepLedger ==
    ASSUME LedgerInv,
           \/ Cancelled \/ Cancel \/ Skip \/ Send
           \/ GiveUp \/ Recover \/ RetryAtCadence
           \/ UNCHANGED vars
    PROVE  LedgerInv'
<1>1. UNCHANGED <<start, expiry, prev_expiry, grants_sum_ms>>
      BY DEF Cancelled, Cancel, Skip, Send, GiveUp, Recover, RetryAtCadence, vars,
         serverVars, clientVars, ledgerVars
<1>2. Answered' => Answered /\ reply' = reply
      BY DEF Answered, Cancelled, Cancel, Skip, Send, BeatDue, GiveUp, Recover,
         RetryAtCadence, Close, vars, requestVars
<1> QED BY <1>1, <1>2 DEF LedgerInv, outcome

LEMMA LedgerInvariant == Spec => []LedgerInv
<1>1. Init => LedgerInv
      BY LedgerStarts
<1>2. BaseInv /\ LedgerInv /\ [Next]_vars => LedgerInv'
      BY ServerKeepsLedger, SuccessKeepsLedger, OthersKeepLedger DEF Next, Handle
<1> QED BY <1>1, <1>2, BaseInvariant, PTL DEF Spec

(* heartbeat.rs, grants_sum_ms: whatever is lost, late, skipped or         *)
(* refused, the ledger never claims more lease than the server added.      *)
THEOREM LedgerNeverOverestimates == Spec => []LedgerIsALowerBound
<1>1. BaseInv /\ LedgerInv => LedgerIsALowerBound
  <2>1. BaseInv => /\ grants_sum_ms \in Nat /\ expiry \in Nat /\ start.expiry \in Nat
                   /\ prev_expiry \in Int
        BY CreateTypes DEF BaseInv, TypeOK, NoExpiry
  <2> QED BY <2>1 DEF LedgerInv, LedgerIsALowerBound
<1> QED BY <1>1, BaseInvariant, LedgerInvariant, PTL

-----------------------------------------------------------------------------
(* No busy loop.  Every way to send again at the same instant is used up   *)
(* after a few requests: a beat in the past is realigned once, a success   *)
(* without a delay is followed by one more, and a recovery without a delay *)
(* by none that is a recovery.                                             *)

RecoveredNow == \E r \in last_recovery : r.at = now

(* The requests a beat that is due may still lead to at this instant.      *)
RequestsLeft ==
    IF ~normative THEN IF next_beat = now THEN 3 ELSE 4
    ELSE IF RecoveredNow THEN IF zero_delay_streak = 0 THEN 3 ELSE 1
    ELSE IF zero_delay_streak = 0 \/ next_beat < now THEN 4 ELSE 2

BurstInv ==
    /\ burst <= 4
    /\ delay >= 1
    /\ \A r \in last_recovery : r.at = now => r.window = window /\ next_beat >= now
    /\ pc = "extend" => next_beat <= now /\ burst + RequestsLeft <= 5
    /\ pc = "select" /\ next_beat <= now => burst + RequestsLeft <= 4

LEMMA RequestsLeftType == RequestsLeft \in 1 .. 4
BY DEF RequestsLeft

LEMMA CadenceIsPositive ==
    ASSUME NEW g \in Nat
    PROVE  held_cadence_ms(RequestedTtl) >= 1 /\ next_beat_delay_ms(g, RequestedTtl) >= 1
<1>1. g \div 2 \in Nat /\ RequestedTtl \div 2 \in Nat
      BY Parameters, Scale DEF U64
<1> QED BY <1>1, Scale DEF held_cadence_ms, next_beat_delay_ms, clamp, larger, smaller

LEMMA BurstStarts ==
    ASSUME Init
    PROVE  BurstInv
<1>1. burst = 0 /\ pc = "select" /\ last_recovery = {}
      BY DEF Init
<1>2. delay >= 1
      BY CadenceIsPositive DEF Init
<1>3. burst + RequestsLeft <= 4
      BY <1>1, RequestsLeftType
<1> QED BY <1>1, <1>2, <1>3 DEF BurstInv

(* A ledger beat from the past may be realigned to now, one of now not.    *)
LEMMA RealignsOnce ==
    ASSUME BaseInv, BurstInv, NEW d \in Nat, d >= 1
    PROVE  /\ now <= advance(next_beat, d)
           /\ advance(next_beat, d) = now => next_beat < now
<1>1. now \in Nat /\ next_beat \in Nat
      BY DEF BaseInv, TypeOK
<1> QED BY <1>1 DEF advance, larger

LEMMA SkipKeepsBurst ==
    ASSUME BaseInv, BurstInv, Skip
    PROVE  BurstInv'
<1>1. /\ pc = "select" /\ pc' = "select" /\ now >= next_beat /\ ~normative /\ ~normative'
      /\ next_beat' = advance(next_beat, delay)
      /\ UNCHANGED <<now, burst, delay, last_recovery, lead_sample, max_rtt_ms>>
      BY DEF Skip, BeatDue, SkipsBeat, clientVars, recoveryVars, scheduleVars, countVars
<1>2. /\ now <= next_beat'
      /\ next_beat' = now => next_beat < now
      /\ now \in Nat /\ next_beat' \in Nat
      BY <1>1, RealignsOnce, AdvanceType DEF BurstInv, BaseInv, TypeOK
<1>3. window' = window
      BY <1>1 DEF window, lead_now
<1>4. burst + RequestsLeft <= 4
      BY <1>1 DEF BurstInv, BaseInv, TypeOK
<1>5. next_beat' <= now => burst + RequestsLeft' <= 4
      BY <1>1, <1>2, <1>4 DEF RequestsLeft, BaseInv, TypeOK
<1> QED BY <1>1, <1>2, <1>3, <1>5 DEF BurstInv

LEMMA SendKeepsBurst ==
    ASSUME BaseInv, BurstInv, Send
    PROVE  BurstInv'
<1>1. /\ pc = "select" /\ pc' = "extend" /\ now >= next_beat /\ burst' = burst + 1
      /\ UNCHANGED <<now, next_beat, normative, zero_delay_streak, delay, last_recovery,
                     lead_sample, max_rtt_ms>>
      BY DEF Send, BeatDue, clientVars, recoveryVars, scheduleVars
<1>2. window' = window /\ RequestsLeft' = RequestsLeft
      BY <1>1 DEF window, lead_now, RequestsLeft, RecoveredNow
<1>3. burst \in Nat /\ burst + RequestsLeft <= 4
      BY <1>1 DEF BurstInv, BaseInv, TypeOK
<1>4. burst' <= 4 /\ burst' + RequestsLeft' <= 5 /\ next_beat' <= now'
      BY <1>1, <1>2, <1>3, RequestsLeftType DEF BaseInv, TypeOK
<1> QED BY <1>1, <1>2, <1>4 DEF BurstInv

LEMMA FieldKeepsBurst ==
    ASSUME BaseInv, BurstInv, ScheduleByField
    PROVE  BurstInv'
<1> DEFINE next_delay == remaining_next_delay_ms(reply.remaining, rtt_ms,
                                                 RequestTimeout, max_rtt_ms')
<1>1. /\ last_recovery' = {} /\ normative' = TRUE
      /\ UNCHANGED <<now, burst, delay>>
      /\ pc = "extend"
      BY DEF ScheduleByField, Acknowledge, Answered
<1>2. /\ zero_delay_streak' = IF next_delay = 0 THEN zero_delay_streak + 1 ELSE 0
      /\ IF zero_delay_streak' >= 2
         THEN pc' = "stopped" /\ UNCHANGED next_beat
         ELSE pc' = "select" /\ next_beat' = now + next_delay
      BY DEF ScheduleByField
<1>3. next_delay \in Nat
  <2>1. /\ reply.remaining \in U64 /\ rtt_ms \in Nat /\ max_rtt_ms' \in Nat
        BY AcknowledgeType, Scale DEF ScheduleByField, Reply, U64
  <2> QED BY <2>1, DelayIsExact, Parameters
<1> HIDE DEF next_delay
<1>4. next_beat <= now /\ burst + RequestsLeft <= 5 /\ now \in Nat /\ next_beat \in Nat
      /\ zero_delay_streak \in 0 .. 2 /\ burst \in Nat
      BY <1>1 DEF BurstInv, BaseInv, TypeOK
<1>5. ASSUME pc' = "select", next_beat' <= now
      PROVE  burst + RequestsLeft' <= 4
  <2>1. next_delay = 0 /\ zero_delay_streak = 0 /\ zero_delay_streak' = 1 /\ next_beat' = now
        BY <1>2, <1>3, <1>4, <1>5
  <2>2. RequestsLeft' = 2 /\ RequestsLeft >= 3
        BY <1>1, <1>4, <2>1 DEF RequestsLeft, RecoveredNow
  <2> QED BY <1>4, <2>2, RequestsLeftType
<1> QED BY <1>1, <1>2, <1>5 DEF BurstInv

LEMMA LedgerKeepsBurst ==
    ASSUME BaseInv, BurstInv, ScheduleByLedger
    PROVE  BurstInv'
<1>1. /\ last_recovery' = {} /\ ~normative' /\ pc' = "select" /\ pc = "extend"
      /\ UNCHANGED <<now, burst>>
      /\ next_beat' = advance(next_beat, delay')
      BY DEF ScheduleByLedger, Acknowledge, Answered
<1>2. delay' \in Nat /\ delay' >= 1
  <2>1. counted \in Nat
        BY AcknowledgeType DEF ScheduleByLedger
  <2> QED BY <2>1, CadenceTypes, CadenceIsPositive DEF ScheduleByLedger
<1>3. now <= next_beat' /\ (next_beat' = now => next_beat < now)
      BY <1>1, <1>2, RealignsOnce
<1>4. next_beat <= now /\ burst + RequestsLeft <= 5 /\ now \in Nat /\ next_beat \in Nat
      /\ next_beat' \in Nat /\ burst \in Nat
      BY <1>1, <1>2, AdvanceType DEF BurstInv, BaseInv, TypeOK
<1>5. ASSUME next_beat' <= now
      PROVE  burst + RequestsLeft' <= 4
  <2>1. next_beat' = now /\ next_beat < now
        BY <1>3, <1>4, <1>5
  <2>2. ~RecoveredNow
        BY <1>4, <2>1 DEF RecoveredNow, BurstInv
  <2>3. RequestsLeft' = 3 /\ RequestsLeft = 4
        BY <1>1, <1>4, <2>1, <2>2 DEF RequestsLeft
  <2> QED BY <1>4, <2>3
<1> QED BY <1>1, <1>2, <1>5 DEF BurstInv

(* At the same instant the window is the same, and the second recovery in  *)
(* a row would have no more than the first.                                *)
LEMMA RecoversOnce ==
    ASSUME BaseInv, BurstInv, Recover
    PROVE  ~RecoveredNow
<1> SUFFICES ASSUME NEW r \in last_recovery, r.at = now
             PROVE  FALSE
    BY DEF RecoveredNow
<1>1. r.window = window
      BY DEF BurstInv
<1>2. window \in Int /\ now \in Nat
      BY LeadNowType DEF BaseInv, TypeOK
<1>3. ~recovery_stalled(window, {x.window : x \in last_recovery},
                        \A x \in last_recovery : now > x.at)
      BY DEF Recover, MayRecover
<1> HIDE DEF window
<1> QED BY <1>1, <1>2, <1>3 DEF recovery_stalled

LEMMA RecoverKeepsBurst ==
    ASSUME BaseInv, BurstInv, Recover
    PROVE  BurstInv'
<1>1. PICK d \in RetryDelays : next_beat' = now + d
      BY DEF Recover
<1>2. d \in Nat
      BY RecoveryType DEF BaseInv, Recover
<1>3. /\ normative /\ pc = "extend" /\ pc' = "select"
      /\ last_recovery' = {[window |-> window, at |-> now]}
      /\ UNCHANGED <<now, burst, delay, normative, zero_delay_streak, lead_sample, max_rtt_ms>>
      BY DEF Recover, Failed, Answered, scheduleVars, countVars
<1>4. window' = window
      BY <1>3 DEF window, lead_now
<1>5. next_beat <= now /\ burst + RequestsLeft <= 5 /\ now \in Nat /\ next_beat \in Nat
      /\ zero_delay_streak \in {0, 1} /\ burst \in Nat
      BY <1>3 DEF BurstInv, BaseInv, TypeOK, StreakBounded
<1>6. ASSUME next_beat' <= now
      PROVE  burst + RequestsLeft' <= 4
  <2>1. next_beat' = now
        BY <1>1, <1>2, <1>5, <1>6
  <2>2. ~RecoveredNow /\ RecoveredNow'
        BY <1>3, RecoversOnce DEF RecoveredNow
  <2>3. CASE zero_delay_streak = 0
    <3>1. RequestsLeft' = 3 /\ RequestsLeft = 4
          BY <1>3, <2>2, <2>3 DEF RequestsLeft
    <3> QED BY <1>5, <3>1
  <2>4. CASE zero_delay_streak = 1
    <3>1. RequestsLeft' = 1 /\ RequestsLeft >= 2
          BY <1>3, <2>2, <2>4 DEF RequestsLeft
    <3> QED BY <1>5, <3>1, RequestsLeftType
  <2> QED BY <1>5, <2>3, <2>4
<1>7. \A r \in last_recovery' : r.window = window' /\ next_beat' >= now'
      BY <1>1, <1>2, <1>3, <1>4, <1>5
<1> QED BY <1>3, <1>6, <1>7 DEF BurstInv

LEMMA CadenceKeepsBurst ==
    ASSUME BaseInv, BurstInv, RetryAtCadence
    PROVE  BurstInv'
<1>1. /\ ~normative /\ ~normative' /\ pc' = "select" /\ pc = "extend"
      /\ next_beat' = advance(next_beat, delay)
      /\ UNCHANGED <<now, burst, delay, last_recovery, lead_sample, max_rtt_ms>>
      BY DEF RetryAtCadence, Failed, Answered, scheduleVars, countVars
<1>2. window' = window
      BY <1>1 DEF window, lead_now
<1>3. /\ now <= next_beat' /\ now \in Nat /\ burst \in Nat
      /\ next_beat' = now => next_beat < now
      BY <1>1, RealignsOnce DEF BurstInv, BaseInv, TypeOK
<1>4. burst + RequestsLeft <= 5 /\ next_beat <= now
      BY <1>1 DEF BurstInv
<1>5. next_beat' \in Nat /\ next_beat \in Nat
      BY <1>1, AdvanceType DEF BaseInv, TypeOK
<1>6. next_beat' <= now => burst + RequestsLeft' <= 4
      BY <1>1, <1>3, <1>4, <1>5 DEF RequestsLeft
<1> QED BY <1>1, <1>2, <1>3, <1>6 DEF BurstInv

LEMMA TickKeepsBurst ==
    ASSUME BaseInv, BurstInv, Tick
    PROVE  BurstInv'
<1>1. /\ now' = now + 1 /\ burst' = 0
      /\ UNCHANGED <<pc, next_beat, delay, last_recovery>>
      BY DEF Tick, ClientStays, clientVars, recoveryVars, scheduleVars
<1>2. \A r \in last_recovery : r.at \in Nat /\ r.at <= now
      BY DEF BaseInv, TypeOK, TimeInOrder
<1>3. now \in Nat /\ next_beat \in Nat
      BY DEF BaseInv, TypeOK
<1>4. burst' + RequestsLeft' <= 4 /\ burst' + RequestsLeft' <= 5
      BY <1>1 DEF RequestsLeft
<1>5. pc' = "extend" => next_beat' <= now'
      BY <1>1, <1>3 DEF BurstInv
<1>6. \A r \in last_recovery' : r.at # now'
      BY <1>1, <1>2, <1>3
<1> QED BY <1>1, <1>4, <1>5, <1>6 DEF BurstInv

LEMMA OthersKeepBurst ==
    ASSUME BurstInv,
           \/ Cancelled \/ Cancel \/ GiveUp
           \/ Extend \/ Refuse \/ Lose \/ ServeLate
           \/ UNCHANGED vars
    PROVE  BurstInv'
<1>1. UNCHANGED <<now, next_beat, burst, normative, zero_delay_streak, delay,
                  last_recovery, lead_sample, max_rtt_ms>>
      BY DEF Cancelled, Cancel, GiveUp, Extend, Refuse, Lose, ServeLate, ClientStays, vars,
         clientVars, recoveryVars, scheduleVars, countVars
<1>2. pc' = pc \/ pc' = "stopped"
      BY DEF Cancelled, Cancel, GiveUp, Extend, Refuse, Lose, ServeLate, ClientStays, vars
<1>3. window' = window /\ RequestsLeft' = RequestsLeft
      BY <1>1 DEF window, lead_now, RequestsLeft, RecoveredNow
<1> QED BY <1>1, <1>2, <1>3 DEF BurstInv

(* heartbeat.rs, zero_delay_streak, recovery_stalled and advance: however  *)
(* the answers fall and however late a sleeper wakes, at most four         *)
(* requests are sent without time going by.                                *)
THEOREM NeverLoopsBusily == Spec => []NoBusyLoop
<1>1. Init => BurstInv
      BY BurstStarts
<1>2. BaseInv /\ BurstInv /\ [Next]_vars => BurstInv'
      BY SkipKeepsBurst, SendKeepsBurst, FieldKeepsBurst, LedgerKeepsBurst,
         RecoverKeepsBurst, CadenceKeepsBurst, TickKeepsBurst, OthersKeepBurst
         DEF Next, Handle
<1>3. BurstInv => NoBusyLoop
      BY DEF BurstInv, NoBusyLoop
<1> QED BY <1>1, <1>2, <1>3, BaseInvariant, PTL DEF Spec

-----------------------------------------------------------------------------
(* A lease that never lapses.                                              *)

(* A server that adds at least the lease asked for each time; a lease of   *)
(* two least delays or more (validation.rs: 1 s); sleepers that wake       *)
(* within the least margin; a lease and a first delay in which a late      *)
(* sleeper and a whole request fit.                                        *)
Favourable ==
    /\ Leads = {} /\ \A g \in Grants : g >= RequestedTtl
    /\ 2 * MIN_BEAT_DELAY_MS <= RequestedTtl
    /\ Slip <= SECOND
    /\ Slip + RequestTimeout <= RequestedTtl
    /\ \A c \in Creates : FirstDelay(c) + Slip + RequestTimeout <= c.expiry

HalfLease == larger(1, RequestedTtl \div 2)

(* Lease that the server has added and the heartbeat not yet counted.      *)
Unread == IF Answered THEN RequestedTtl ELSE 0

(* Without the lease that is still unread, the next request, however late, *)
(* fits, and so does what the ledger counts on.                            *)
PaceInv ==
    ~disturbed /\ pc # "stopped" =>
        /\ pending_key = NoKey /\ late = {}
        /\ delay <= HalfLease
        /\ last_grant_ms = NoGrant \/ last_grant_ms >= RequestedTtl
        /\ IF prev_expiry = NoExpiry THEN grants_sum_ms = 0
           ELSE /\ start.expiry + grants_sum_ms <= prev_expiry
                /\ prev_expiry + Unread <= expiry
        /\ start.expiry + Unread <= expiry
        /\ next_beat + Slip + RequestTimeout + Unread <= expiry
        /\ pc = "extend" => sent_at + RequestTimeout + Unread <= expiry
        /\ Waiting => key \notin applied
        /\ Answered => outcome.kind = "Ok" /\ reply.expires_at = expiry

LEMMA HalfLeaseFits ==
    ASSUME Favourable, NEW g \in Nat
    PROVE  /\ HalfLease \in Nat /\ HalfLease <= RequestedTtl
           /\ 2 * HalfLease <= RequestedTtl + 1
           /\ held_cadence_ms(RequestedTtl) <= HalfLease
           /\ next_beat_delay_ms(g, RequestedTtl) <= HalfLease
<1>1. RequestedTtl \in Nat \ {0} /\ g \div 2 \in Nat /\ MIN_BEAT_DELAY_MS \in Nat \ {0}
      BY TimeAssumption, Scale DEF U64
<1>2. /\ RequestedTtl \div 2 \in Nat /\ 2 * (RequestedTtl \div 2) <= RequestedTtl
      /\ MIN_BEAT_DELAY_MS <= RequestedTtl \div 2
      BY <1>1 DEF Favourable
<1> DEFINE half == RequestedTtl \div 2
<1>3. HalfLease = larger(1, half)
      BY DEF HalfLease
<1>4. /\ held_cadence_ms(RequestedTtl) = clamp(half, 1, HELD_CADENCE_CAP_MS)
      /\ next_beat_delay_ms(g, RequestedTtl)
             = clamp(g \div 2, MIN_BEAT_DELAY_MS, larger(half, MIN_BEAT_DELAY_MS))
      BY DEF held_cadence_ms, next_beat_delay_ms
<1> HIDE DEF half
<1>5. half \in Nat /\ 2 * half <= RequestedTtl /\ MIN_BEAT_DELAY_MS <= half
      BY <1>2 DEF half
<1> QED BY <1>1, <1>3, <1>4, <1>5, Scale DEF clamp, larger, smaller

LEMMA PaceTypes ==
    ASSUME BaseInv
    PROVE  /\ now \in Nat /\ expiry \in Nat /\ start.expiry \in Nat /\ next_beat \in Nat
           /\ delay \in Nat /\ sent_at \in Nat /\ grants_sum_ms \in Nat
           /\ prev_expiry \in {NoExpiry} \cup Nat /\ NoExpiry = -1
           /\ last_grant_ms \in {NoGrant} \cup Nat /\ NoGrant = -1
           /\ RequestedTtl \in Nat \ {0} /\ RequestTimeout \in Nat \ {0} /\ Slip \in Nat
           /\ Unread \in {0, RequestedTtl}
BY CreateTypes, TimeAssumption, Scale DEF BaseInv, TypeOK, NoExpiry, NoGrant, U64, Unread

LEMMA PaceStarts ==
    ASSUME Favourable, Init
    PROVE  PaceInv
<1>1. /\ start \in Creates /\ start.expiry \in Nat /\ expiry = start.expiry
      /\ next_beat = FirstDelay(start) /\ pc = "select"
      BY CreateTypes DEF Init
<1>2. delay <= HalfLease
      BY HalfLeaseFits DEF Init
<1>3. Unread = 0 /\ ~Waiting /\ ~Answered
      BY <1>1 DEF Unread, Waiting, Answered
<1>4. prev_expiry = NoExpiry \/ prev_expiry = start.expiry
      BY DEF Init
<1>5. next_beat + Slip + RequestTimeout <= expiry /\ next_beat \in Nat
      BY <1>1, InitHolds DEF Favourable, BaseInv, TypeOK
<1>6. grants_sum_ms = 0 /\ pending_key = NoKey /\ late = {} /\ last_grant_ms = NoGrant
      BY DEF Init
<1> QED BY <1>1, <1>2, <1>3, <1>4, <1>5, <1>6, PaceTypes, InitHolds DEF PaceInv

(* A beat is skipped while the ledger's lead is ample.                     *)
LEMMA SkipKeepsPace ==
    ASSUME Favourable, BaseInv, PaceInv, Skip
    PROVE  PaceInv'
<1> SUFFICES ASSUME ~disturbed
             PROVE  PaceInv'
    BY DEF PaceInv, Skip, countVars
<1>1. /\ pc = "select" /\ pc' = "select" /\ next_beat <= now
      /\ next_beat' = advance(next_beat, delay)
      /\ UNCHANGED <<now, start, expiry, applied, late, disturbed, pending_key, delay,
                     last_grant_ms, prev_expiry, grants_sum_ms, sent_at, key, reply>>
      BY PaceTypes DEF Skip, BeatDue, serverVars, clientVars, ledgerVars, recoveryVars,
         scheduleVars, requestVars, countVars
<1>2. Unread = 0 /\ Unread' = 0 /\ ~Waiting' /\ ~Answered'
      BY <1>1 DEF Unread, Waiting, Answered
<1>3. last_grant_ms # NoGrant /\ 2 * (grants_sum_ms - next_beat) >= 3 * last_grant_ms
      BY DEF Skip, SkipsBeat, should_skip, lead_min_ms
<1>4. last_grant_ms >= RequestedTtl /\ start.expiry + grants_sum_ms <= expiry
      BY <1>1, <1>2, <1>3, PaceTypes DEF PaceInv
<1>5. now <= next_beat + Slip
      BY <1>1 DEF BaseInv, TimeInOrder
<1>6. /\ delay <= HalfLease /\ HalfLease \in Nat
      /\ 2 * HalfLease <= RequestedTtl + 1
      BY <1>1, HalfLeaseFits DEF PaceInv
<1>7. Slip + RequestTimeout <= start.expiry /\ Slip + RequestTimeout <= RequestedTtl
  <2>1. start \in Creates
        BY DEF BaseInv, TypeOK
  <2>2. FirstDelay(start) \in Nat
        BY <2>1, CreateTypes, DelayIsExact, Parameters DEF FirstDelay
  <2>3. /\ FirstDelay(start) + Slip + RequestTimeout <= start.expiry
        /\ Slip + RequestTimeout <= RequestedTtl
        BY <2>1 DEF Favourable
  <2> QED BY <2>2, <2>3, PaceTypes
<1>8. next_beat + delay + Slip + RequestTimeout <= expiry
      BY <1>3, <1>4, <1>6, <1>7, PaceTypes
<1>9. now + Slip + RequestTimeout <= expiry
      BY <1>3, <1>4, <1>5, <1>7, PaceTypes
<1>10. next_beat' + Slip + RequestTimeout <= expiry /\ next_beat' \in Nat
      BY <1>1, <1>8, <1>9, PaceTypes DEF advance, larger
<1> QED BY <1>1, <1>2, <1>10, PaceTypes DEF PaceInv

LEMMA SendKeepsPace ==
    ASSUME BaseInv, PaceInv, Send
    PROVE  PaceInv'
<1> SUFFICES ASSUME ~disturbed
             PROVE  PaceInv'
    BY DEF PaceInv, Send
<1>1. /\ pc = "select" /\ pc' = "extend" /\ reply' = NoReply /\ sent_at' = now
      /\ UNCHANGED <<now, start, expiry, applied, late, disturbed, pending_key, delay,
                     last_grant_ms, prev_expiry, grants_sum_ms, next_beat>>
      BY DEF Send, BeatDue, serverVars, clientVars, ledgerVars, recoveryVars, scheduleVars
<1>2. Unread = 0 /\ Unread' = 0 /\ ~Answered'
      BY <1>1 DEF Unread, Answered
<1>3. now + RequestTimeout <= expiry
  <2>1. now <= next_beat + Slip /\ next_beat + Slip + RequestTimeout <= expiry
        BY <1>1, <1>2, PaceTypes DEF BaseInv, TimeInOrder, PaceInv
  <2> QED BY <2>1, PaceTypes
<1>4. key' \notin applied
  <2>1. pending_key = NoKey
        BY <1>1 DEF PaceInv
  <2>2. key' = issued + 1 /\ issued \in Nat /\ applied \subseteq 1 .. issued
        BY <2>1 DEF Send, BaseInv, TypeOK
  <2> QED BY <2>2
<1> QED BY <1>1, <1>2, <1>3, <1>4, PaceTypes DEF PaceInv

LEMMA ExtendKeepsPace ==
    ASSUME Favourable, BaseInv, PaceInv, Extend
    PROVE  PaceInv'
<1> SUFFICES ASSUME ~disturbed
             PROVE  PaceInv'
    BY DEF PaceInv, Extend
<1>1. /\ Waiting /\ pc = "extend" /\ reply = NoReply /\ pc' = pc
      /\ UNCHANGED <<now, start, late, disturbed, pending_key, delay, last_grant_ms,
                     prev_expiry, grants_sum_ms, next_beat, sent_at, key>>
      BY DEF Extend, Waiting, ClientStays, clientVars, ledgerVars, recoveryVars, scheduleVars
<1>2. expiry + RequestedTtl <= expiry' /\ expiry' \in Nat
  <2>1. key \notin applied
        BY <1>1 DEF PaceInv
  <2>2. expiry' \in NewExpiries
        BY <2>1 DEF Extend, Apply
  <2>3. PICK g \in Grants : expiry' = expiry + g
        BY <2>2 DEF NewExpiries, Favourable
  <2> QED BY <2>3, PaceTypes, Parameters DEF Favourable
<1>3. PICK field \in Fields :
          reply' = Success(expiry', IF field THEN saturating(expiry' - now) ELSE NoField)
      BY DEF Extend
<1>4. reply' # NoReply
  <2>1. saturating(expiry' - now) >= 0
    <3>1. expiry' - now \in Nat
          BY <1>2, ExpiryGrows, PaceTypes DEF BaseInv, Extend
    <3> QED BY <3>1, SaturationType
  <2>2. reply'.remaining # -2
        BY <1>3, <2>1 DEF Success, NoField
  <2> QED BY <2>2 DEF NoReply
<1>5. Answered' /\ ~Waiting' /\ Unread = 0 /\ Unread' = RequestedTtl
      BY <1>1, <1>4 DEF Answered, Waiting, Unread
<1>6. outcome'.kind = "Ok" /\ reply'.expires_at = expiry'
      BY <1>3, SuccessIsOk DEF outcome, Success
<1>7. /\ prev_expiry # NoExpiry => prev_expiry + RequestedTtl <= expiry'
      /\ start.expiry + RequestedTtl <= expiry'
      /\ next_beat + Slip + RequestTimeout + RequestedTtl <= expiry'
      /\ sent_at + RequestTimeout + RequestedTtl <= expiry'
      BY <1>1, <1>2, <1>5, PaceTypes DEF PaceInv
<1> QED BY <1>1, <1>5, <1>6, <1>7 DEF PaceInv

(* What a success is counted as, and the room it leaves at this moment.    *)
LEMMA SuccessIsCounted ==
    ASSUME Favourable, BaseInv, PaceInv, ~disturbed,
           ScheduleByField \/ ScheduleByLedger
    PROVE  /\ counted \in Nat /\ counted >= RequestedTtl
           /\ prev_expiry' = expiry /\ last_grant_ms' = counted
           /\ start.expiry + grants_sum_ms' <= expiry
           /\ start.expiry <= expiry
           /\ now + Slip + RequestTimeout <= expiry
           /\ next_beat + RequestedTtl + Slip + RequestTimeout <= expiry
           /\ delay <= HalfLease
           /\ late = {}
           /\ pc' # "stopped" => pc' = "select"
           /\ UNCHANGED <<now, start, expiry, late, disturbed>>
<1>1. Answered /\ outcome.kind = "Ok" /\ Acknowledge /\ pc = "extend"
      BY DEF ScheduleByField, ScheduleByLedger, Answered
<1>2. /\ Unread = RequestedTtl /\ reply.expires_at = expiry
      /\ late = {} /\ delay <= HalfLease
      /\ IF prev_expiry = NoExpiry THEN grants_sum_ms = 0
         ELSE start.expiry + grants_sum_ms <= prev_expiry
              /\ prev_expiry + RequestedTtl <= expiry
      /\ start.expiry + RequestedTtl <= expiry
      /\ next_beat + Slip + RequestTimeout + RequestedTtl <= expiry
      /\ sent_at + RequestTimeout + RequestedTtl <= expiry
      BY <1>1 DEF PaceInv, Unread
<1>3. /\ prev_expiry' = reply.expires_at /\ grants_sum_ms' = grants_sum_ms + counted
      /\ last_grant_ms' = counted
      /\ UNCHANGED <<now, start, expiry, late, disturbed>>
      BY <1>1 DEF Acknowledge, serverVars
<1>4. /\ counted \in Nat /\ counted >= RequestedTtl
      /\ start.expiry + grants_sum_ms + counted <= expiry
  <2>1. CASE prev_expiry = NoExpiry
    <3>1. counted = RequestedTtl
          BY <2>1, PaceTypes DEF counted, grant, larger
    <3> QED BY <1>2, <2>1, <3>1, PaceTypes
  <2>2. CASE prev_expiry # NoExpiry
    <3>1. counted = expiry - prev_expiry
          BY <1>2, <2>2, PaceTypes DEF counted, grant, larger
    <3> QED BY <1>2, <2>2, <3>1, PaceTypes
  <2> QED BY <2>1, <2>2
<1>5. now <= sent_at + RequestTimeout
      BY <1>1 DEF BaseInv, TimeInOrder
<1>6. now + Slip + RequestTimeout <= expiry
      BY <1>2, <1>5, PaceTypes DEF Favourable
<1>7. pc' # "stopped" => pc' = "select"
      BY DEF ScheduleByField, ScheduleByLedger
<1> QED BY <1>2, <1>3, <1>4, <1>6, <1>7, PaceTypes

LEMMA SuccessKeepsPace ==
    ASSUME Favourable, BaseInv, PaceInv, ~disturbed, pc' # "stopped",
           ScheduleByField \/ ScheduleByLedger,
           delay' <= HalfLease,
           next_beat' + Slip + RequestTimeout <= expiry
    PROVE  PaceInv'
<1>1. /\ counted \in Nat /\ counted >= RequestedTtl
      /\ prev_expiry' = expiry /\ last_grant_ms' = counted
      /\ start.expiry + grants_sum_ms' <= expiry /\ start.expiry <= expiry
      /\ pc' = "select" /\ late = {}
      /\ UNCHANGED <<start, expiry, late, disturbed>>
      BY SuccessIsCounted
<1>2. pending_key' = NoKey
      BY DEF ScheduleByField, ScheduleByLedger, Acknowledge
<1>3. ~Answered' /\ ~Waiting' /\ Unread' = 0
      BY <1>1 DEF Answered, Waiting, Unread
<1>4. next_beat' \in Nat
      BY StepKeeps, PaceTypes DEF Next, Handle, BaseInv, TypeOK
<1>5. prev_expiry' + Unread' <= expiry' /\ start'.expiry + Unread' <= expiry'
      /\ next_beat' + Slip + RequestTimeout + Unread' <= expiry'
      BY <1>1, <1>3, <1>4, PaceTypes
<1> QED BY <1>1, <1>2, <1>3, <1>5, PaceTypes DEF PaceInv

LEMMA FieldKeepsPace ==
    ASSUME Favourable, BaseInv, PaceInv, ScheduleByField
    PROVE  PaceInv'
<1> SUFFICES ASSUME ~disturbed, pc' # "stopped"
             PROVE  PaceInv'
    BY DEF PaceInv, ScheduleByField, Acknowledge
<1>1. pc' = "select" /\ delay' = delay /\ normative' /\ zero_delay_streak' < 2
      BY StepKeeps DEF ScheduleByField, BaseInv, TypeOK, Next, Handle
<1>2. delay <= HalfLease /\ now + Slip + RequestTimeout <= expiry /\ expiry' = expiry
      BY SuccessIsCounted
<1>3. next_beat' + Slip + RequestTimeout <= expiry
  <2>1. BaseInv'
        BY StepKeeps DEF Next, Handle
  <2>2. CASE zero_delay_streak' = 0
    <3>1. next_beat' + RequestTimeout + SECOND <= expiry
          BY <1>1, <1>2, <2>2, FieldLeavesRoom DEF LeaseInv, ScheduleLeavesRoom
    <3> QED BY <2>1, <3>1, PaceTypes, Scale DEF Favourable, BaseInv, TypeOK
  <2>3. CASE zero_delay_streak' # 0
    <3>1. next_beat' = now + 0
          BY <1>1, <2>3 DEF ScheduleByField
    <3> QED BY <1>2, <3>1, PaceTypes
  <2> QED BY <2>2, <2>3
<1> QED BY <1>1, <1>2, <1>3, SuccessKeepsPace

LEMMA LedgerKeepsPace ==
    ASSUME Favourable, BaseInv, PaceInv, ScheduleByLedger
    PROVE  PaceInv'
<1> SUFFICES ASSUME ~disturbed
             PROVE  PaceInv'
    BY DEF PaceInv, ScheduleByLedger, Acknowledge
<1>1. /\ counted \in Nat /\ now + Slip + RequestTimeout <= expiry
      /\ next_beat + RequestedTtl + Slip + RequestTimeout <= expiry
      BY SuccessIsCounted
<1>2. delay' \in Nat /\ delay' <= HalfLease /\ HalfLease <= RequestedTtl /\ HalfLease \in Nat
      BY <1>1, HalfLeaseFits, CadenceTypes DEF ScheduleByLedger
<1>3. next_beat' = advance(next_beat, delay') /\ pc' = "select"
      BY DEF ScheduleByLedger
<1>4. next_beat + delay' + Slip + RequestTimeout <= expiry
      BY <1>1, <1>2, PaceTypes
<1>5. next_beat' + Slip + RequestTimeout <= expiry
      BY <1>1, <1>3, <1>4 DEF advance, larger
<1> QED BY <1>2, <1>3, <1>5, SuccessKeepsPace

LEMMA OthersKeepPace ==
    ASSUME BaseInv, PaceInv,
           \/ Cancelled \/ Cancel \/ GiveUp \/ Recover \/ RetryAtCadence
           \/ Refuse \/ Lose \/ ServeLate \/ Tick
           \/ UNCHANGED vars
    PROVE  PaceInv'
<1>1. CASE Cancelled \/ GiveUp
      BY <1>1 DEF Cancelled, GiveUp, PaceInv
<1>2. CASE Refuse \/ Lose
      BY <1>2 DEF Refuse, Lose, PaceInv
<1>3. CASE Recover \/ RetryAtCadence
  <2>1. pc = "extend" /\ Answered /\ outcome.kind # "Ok" /\ disturbed' = disturbed
        BY <1>3 DEF Recover, RetryAtCadence, Failed, Answered, countVars
  <2> QED BY <2>1 DEF PaceInv
<1>4. CASE ServeLate
  <2>1. late # {} /\ UNCHANGED <<pc, disturbed>>
        BY <1>4 DEF ServeLate, ClientStays
  <2>2. disturbed \/ pc = "stopped"
        BY <2>1 DEF PaceInv
  <2> QED BY <2>1, <2>2 DEF PaceInv
<1>5. CASE Cancel \/ Tick \/ UNCHANGED vars
  <2>1. UNCHANGED <<start, expiry, applied, late, disturbed, pending_key, delay, pc,
                    last_grant_ms, prev_expiry, grants_sum_ms, next_beat, sent_at, key,
                    reply>>
        BY <1>5 DEF Cancel, Tick, ClientStays, vars, serverVars, clientVars, ledgerVars,
           recoveryVars, scheduleVars, requestVars, countVars
  <2>2. Unread' = Unread /\ Answered' = Answered /\ Waiting' = Waiting /\ outcome' = outcome
        BY <2>1 DEF Unread, Answered, Waiting, outcome
  <2> QED BY <2>1, <2>2 DEF PaceInv
<1> QED BY <1>1, <1>2, <1>3, <1>4, <1>5

(* heartbeat.rs, should_skip, next_delay and the cadence of half a lease:  *)
(* while no request fails, the reservation outlives its heartbeat, with    *)
(* and without remaining_ttl_ms, on a server that adds what is asked for.  *)
THEOREM LeaseOutlivesHeartbeat ==
    ASSUME Favourable
    PROVE  Spec => []LeaseNeverLapses
<1>1. Init => PaceInv
      BY PaceStarts
<1>2. BaseInv /\ PaceInv /\ [Next]_vars => PaceInv'
      BY SkipKeepsPace, SendKeepsPace, ExtendKeepsPace, FieldKeepsPace, LedgerKeepsPace,
         OthersKeepPace DEF Next, Handle
<1>3. BaseInv /\ PaceInv => LeaseNeverLapses
  <2> SUFFICES ASSUME BaseInv, PaceInv, ~disturbed, pc # "stopped"
               PROVE  now <= expiry
      BY DEF LeaseNeverLapses
  <2>1. CASE pc = "select"
        BY <2>1, PaceTypes DEF PaceInv, BaseInv, TimeInOrder
  <2>2. CASE pc = "extend"
        BY <2>2, PaceTypes DEF PaceInv, BaseInv, TimeInOrder
  <2> QED BY <2>1, <2>2 DEF BaseInv, TypeOK
<1> QED BY <1>1, <1>2, <1>3, BaseInvariant, PTL DEF Spec

-----------------------------------------------------------------------------
(* The drift.                                                              *)

(* A server that never says how much is left, and adds, or stamps, no more *)
(* than the lease asked for.                                               *)
LedgerOnly ==
    /\ Fields \subseteq {FALSE}
    /\ \A g \in Grants : g <= RequestedTtl
    /\ \A lead \in Leads : lead <= RequestedTtl

(* What the outstanding extension may have added, once it is carried out.  *)
Ahead == IF successes + 1 \in applied THEN RequestedTtl ELSE 0

(* The keys that matter: every success was carried out, and at most one    *)
(* extension more.                                                         *)
OneOutstanding ==
    /\ 1 .. successes \subseteq applied
    /\ pc = "select" => pending_key \in {NoKey, issued}
    /\ pc = "extend" => key = issued
    /\ Answered => reply.remaining = NoField
    /\ Answered /\ outcome.kind = "Ok" => key \in applied /\ reply.expires_at = expiry

(* The ledger is at most that one extension behind the server, and a new   *)
(* extension is asked for only when its lead is down to one and a half     *)
(* grants.                                                                 *)
DriftInv ==
    /\ OneOutstanding
    /\ normative \/ last_grant_ms = NoGrant => grants_sum_ms = 0
    /\ last_grant_ms <= RequestedTtl
    /\ expiry <= start.expiry + grants_sum_ms + Ahead
    /\ prev_expiry # NoExpiry =>
           prev_expiry <= start.expiry + grants_sum_ms /\ expiry <= prev_expiry + Ahead
    /\ 2 * (grants_sum_ms - now)
           <= IF issued = successes THEN 5 * RequestedTtl ELSE 3 * RequestedTtl

LEMMA DriftTypes ==
    ASSUME BaseInv
    PROVE  /\ now \in Nat /\ expiry \in Nat /\ start.expiry \in Nat /\ next_beat \in Nat
           /\ grants_sum_ms \in Nat /\ issued \in Nat /\ successes \in Nat
           /\ issued <= successes + 1
           /\ prev_expiry \in {NoExpiry} \cup Nat /\ NoExpiry = -1
           /\ last_grant_ms \in {NoGrant} \cup Nat /\ NoGrant = -1
           /\ RequestedTtl \in Nat \ {0} /\ Ahead \in {0, RequestedTtl}
BY CreateTypes, TimeAssumption, Scale DEF BaseInv, TypeOK, NoExpiry, NoGrant, U64, Ahead,
   KeysInOrder

LEMMA DriftStarts ==
    ASSUME Init
    PROVE  DriftInv
<1>1. /\ start.expiry \in Nat /\ expiry = start.expiry /\ grants_sum_ms = 0 /\ now = 0
      /\ applied = {} /\ successes = 0 /\ issued = 0 /\ last_grant_ms = NoGrant
      /\ pc = "select" /\ pending_key = NoKey
      /\ prev_expiry \in {start.expiry, NoExpiry}
      BY CreateTypes DEF Init
<1>2. OneOutstanding
      BY <1>1 DEF OneOutstanding, Answered
<1>3. Ahead = 0
      BY <1>1 DEF Ahead
<1>4. BaseInv
      BY InitHolds
<1> QED BY <1>1, <1>2, <1>3, <1>4, DriftTypes DEF DriftInv

(* Carrying out an extension adds at most one lease, and only the          *)
(* outstanding one adds anything.                                          *)
LEMMA ApplyAdds ==
    ASSUME LedgerOnly, BaseInv, DriftInv, NEW k \in 1 .. issued, Apply(k),
           UNCHANGED successes
    PROVE  /\ expiry' \in Nat /\ applied' = applied \cup {k}
           /\ expiry' + Ahead <= expiry + Ahead'
           /\ successes + 1 \in applied => expiry' = expiry
<1>1. /\ now <= expiry /\ expiry' \in Nat /\ applied' = applied \cup {k}
      BY ExpiryGrows DEF BaseInv, Apply
<1>2. CASE k \in applied
  <2>1. expiry' = expiry /\ Ahead' = Ahead
        BY <1>2 DEF Apply, Ahead
  <2> QED BY <1>1, <2>1, DriftTypes
<1>3. CASE k \notin applied
  <2>1. k = successes + 1
        BY <1>3, DriftTypes DEF DriftInv, OneOutstanding
  <2>2. Ahead = 0 /\ Ahead' = RequestedTtl
        BY <1>1, <1>3, <2>1 DEF Ahead
  <2>3. \A e \in NewExpiries : e <= expiry + RequestedTtl
        BY <1>1, DriftTypes, Parameters DEF LedgerOnly, NewExpiries, larger
  <2>4. expiry' <= expiry + RequestedTtl
        BY <1>3, <2>3 DEF Apply
  <2> QED BY <1>1, <1>3, <2>1, <2>2, <2>4, DriftTypes
<1> QED BY <1>2, <1>3

LEMMA ServerKeepsDrift ==
    ASSUME LedgerOnly, BaseInv, DriftInv,
           UNCHANGED <<now, start, normative, last_grant_ms, prev_expiry, grants_sum_ms,
                       issued, successes>>,
           expiry' \in Nat, expiry' + Ahead <= expiry + Ahead',
           OneOutstanding'
    PROVE  DriftInv'
<1>1. Ahead' \in {0, RequestedTtl}
      BY DEF Ahead
<1>2. /\ expiry' <= start.expiry + grants_sum_ms + Ahead'
      /\ prev_expiry # NoExpiry => expiry' <= prev_expiry + Ahead'
      BY <1>1, DriftTypes DEF DriftInv
<1> QED BY <1>2 DEF DriftInv

LEMMA ExtendKeepsDrift ==
    ASSUME LedgerOnly, BaseInv, DriftInv, Extend
    PROVE  DriftInv'
<1>1. /\ Waiting /\ pc = "extend" /\ pc' = pc /\ key \in 1 .. issued
      /\ UNCHANGED <<now, start, normative, last_grant_ms, prev_expiry, grants_sum_ms,
                     issued, successes, key, pending_key>>
      BY DEF Extend, Waiting, ClientStays, clientVars, ledgerVars, recoveryVars,
         scheduleVars, BaseInv, TypeOK, KeysInOrder, NoKey
<1>2. /\ expiry' \in Nat /\ applied' = applied \cup {key}
      /\ expiry' + Ahead <= expiry + Ahead'
      BY <1>1, ApplyAdds DEF Extend
<1>3. PICK field \in Fields :
          reply' = Success(expiry', IF field THEN saturating(expiry' - now) ELSE NoField)
      BY DEF Extend
<1>4. reply'.remaining = NoField /\ reply'.expires_at = expiry'
      BY <1>3 DEF LedgerOnly, Success
<1>5. OneOutstanding'
      BY <1>1, <1>2, <1>4 DEF DriftInv, OneOutstanding
<1> QED BY <1>1, <1>2, <1>5, ServerKeepsDrift

LEMMA RefuseKeepsDrift ==
    ASSUME LedgerOnly, BaseInv, DriftInv, Refuse \/ Lose
    PROVE  DriftInv'
<1>1. /\ Waiting /\ pc = "extend" /\ pc' = pc /\ key \in 1 .. issued
      /\ UNCHANGED <<now, start, normative, last_grant_ms, prev_expiry, grants_sum_ms,
                     issued, successes, key, pending_key>>
      BY DEF Refuse, Lose, Waiting, ClientStays, clientVars, ledgerVars, recoveryVars,
         scheduleVars, BaseInv, TypeOK, KeysInOrder, NoKey
<1>2. /\ expiry' \in Nat /\ applied \subseteq applied'
      /\ expiry' + Ahead <= expiry + Ahead'
  <2>1. CASE Apply(key)
        BY <1>1, <2>1, ApplyAdds
  <2>2. CASE UNCHANGED <<expiry, applied>>
        BY <1>1, <2>2, DriftTypes DEF Ahead
  <2> QED BY <2>1, <2>2 DEF Refuse, Lose
<1>3. PICK resp \in Failures \cup {Lost} : reply' = Failure(resp)
      BY DEF Refuse, Lose
<1>4. reply'.remaining = NoField /\ outcome'.kind # "Ok"
      BY <1>3, FailureType, FailureIsNotOk DEF outcome
<1>5. OneOutstanding'
      BY <1>1, <1>2, <1>4 DEF DriftInv, OneOutstanding
<1> QED BY <1>1, <1>2, <1>5, ServerKeepsDrift

(* A late request of a key already resolved changes nothing.               *)
LEMMA ServeLateKeepsDrift ==
    ASSUME LedgerOnly, BaseInv, DriftInv, ServeLate
    PROVE  DriftInv'
<1>1. PICK k \in late : Apply(k)
      BY DEF ServeLate
<1>2. /\ k \in 1 .. issued
      /\ UNCHANGED <<now, start, normative, last_grant_ms, prev_expiry, grants_sum_ms,
                     issued, successes, key, pending_key, pc, reply>>
      BY DEF ServeLate, ClientStays, clientVars, ledgerVars, recoveryVars, scheduleVars,
         BaseInv, TypeOK
<1>3. /\ expiry' \in Nat /\ applied' = applied \cup {k}
      /\ expiry' + Ahead <= expiry + Ahead'
      /\ successes + 1 \in applied => expiry' = expiry
      BY <1>1, <1>2, ApplyAdds
<1>4. Answered' = Answered /\ outcome' = outcome
      BY <1>2 DEF Answered, outcome
<1>5. Answered /\ outcome.kind = "Ok" => expiry' = expiry
  <2>1. Answered => key = issued /\ issued = successes + 1
        BY DEF Answered, DriftInv, OneOutstanding, BaseInv, KeysInOrder
  <2> QED BY <1>3, <2>1 DEF DriftInv, OneOutstanding
<1>6. OneOutstanding'
      BY <1>2, <1>3, <1>4, <1>5 DEF DriftInv, OneOutstanding
<1> QED BY <1>2, <1>3, <1>6, ServerKeepsDrift

(* A new key is drawn when the ledger's lead is down to one and a half     *)
(* grants.                                                                 *)
LEMMA SendKeepsDrift ==
    ASSUME BaseInv, DriftInv, Send
    PROVE  DriftInv'
<1>1. /\ pc = "select" /\ next_beat <= now /\ pc' = "extend" /\ reply' = NoReply
      /\ UNCHANGED <<now, start, normative, last_grant_ms, prev_expiry, grants_sum_ms,
                     successes, expiry, applied, pending_key>>
      /\ ~SkipsBeat
      BY DriftTypes DEF Send, BeatDue, serverVars, clientVars, ledgerVars, recoveryVars,
         scheduleVars
<1>2. key' = issued' /\ issued' # successes
  <2>1. CASE pending_key = NoKey
        BY <1>1, <2>1, DriftTypes DEF Send, BaseInv, KeysInOrder
  <2>2. CASE pending_key # NoKey
        BY <1>1, <2>2, DriftTypes DEF Send, BaseInv, KeysInOrder, DriftInv, OneOutstanding
  <2> QED BY <2>1, <2>2
<1>3. 2 * (grants_sum_ms - now) <= 3 * RequestedTtl
  <2>1. CASE normative \/ last_grant_ms = NoGrant
        BY <2>1, DriftTypes DEF DriftInv
  <2>2. CASE ~normative /\ last_grant_ms # NoGrant
    <3>1. 2 * (grants_sum_ms - next_beat) < 3 * last_grant_ms
          BY <1>1, <2>2, DriftTypes DEF SkipsBeat, should_skip, lead_min_ms
    <3> QED BY <1>1, <2>2, <3>1, DriftTypes DEF DriftInv
  <2> QED BY <2>1, <2>2
<1>4. OneOutstanding'
      BY <1>1, <1>2 DEF DriftInv, OneOutstanding, Answered
<1>5. Ahead' = Ahead
      BY <1>1 DEF Ahead
<1> QED BY <1>1, <1>2, <1>3, <1>4, <1>5 DEF DriftInv

(* What the server has added is counted, and counts as one lease at most.  *)
LEMMA SuccessKeepsDrift ==
    ASSUME LedgerOnly, BaseInv, DriftInv, ScheduleByField \/ ScheduleByLedger
    PROVE  DriftInv'
<1>1. /\ Answered /\ outcome.kind = "Ok" /\ Acknowledge /\ pc = "extend"
      /\ reply.expires_at = expiry /\ key = issued /\ key \in applied
      /\ issued = successes + 1 /\ reply.remaining = NoField
      BY DEF ScheduleByField, ScheduleByLedger, Answered, DriftInv, OneOutstanding, BaseInv,
         KeysInOrder
<1>2. ~normative' /\ pc' = "select"
      BY <1>1 DEF ScheduleByField, ScheduleByLedger
<1>3. /\ prev_expiry' = expiry /\ grants_sum_ms' = grants_sum_ms + counted
      /\ last_grant_ms' = counted /\ successes' = successes + 1 /\ pending_key' = NoKey
      /\ UNCHANGED <<now, start, expiry, applied, issued>>
      BY <1>1 DEF Acknowledge, serverVars
<1>4. Ahead = RequestedTtl /\ Ahead' = 0
  <2>1. applied \subseteq 1 .. issued
        BY DEF BaseInv, TypeOK
  <2> QED BY <1>1, <1>3, <2>1, DriftTypes DEF Ahead
<1>5. /\ counted \in Nat /\ counted <= RequestedTtl
      /\ expiry <= start.expiry + grants_sum_ms + counted
  <2>1. CASE prev_expiry = NoExpiry
    <3>1. counted = RequestedTtl
          BY <2>1, DriftTypes DEF counted, grant, larger
    <3> QED BY <1>4, <3>1, DriftTypes DEF DriftInv
  <2>2. CASE prev_expiry # NoExpiry
    <3>1. counted = larger(expiry - prev_expiry, 0)
          BY <1>1, <2>2 DEF counted, grant
    <3> QED BY <1>4, <2>2, <3>1, DriftTypes DEF DriftInv, larger
  <2> QED BY <2>1, <2>2
<1>6. OneOutstanding'
  <2>1. 1 .. successes' \subseteq applied
    <3> SUFFICES ASSUME NEW k \in 1 .. successes' PROVE k \in applied
        OBVIOUS
    <3>1. k \in 1 .. successes \/ k = key
          BY <1>1, <1>3, DriftTypes
    <3>2. 1 .. successes \subseteq applied
          BY DEF DriftInv, OneOutstanding
    <3> QED BY <1>1, <3>1, <3>2
  <2> QED BY <1>2, <1>3, <2>1 DEF OneOutstanding, Answered
<1>7. 2 * (grants_sum_ms' - now) <= 5 * RequestedTtl /\ issued' = successes'
      BY <1>1, <1>3, <1>5, DriftTypes DEF DriftInv
<1> QED BY <1>2, <1>3, <1>4, <1>5, <1>6, <1>7, DriftTypes DEF DriftInv

LEMMA OthersKeepDrift ==
    ASSUME BaseInv, DriftInv,
           \/ Cancelled \/ Cancel \/ Skip
           \/ GiveUp \/ Recover \/ RetryAtCadence
           \/ Tick \/ UNCHANGED vars
    PROVE  DriftInv'
<1>1. UNCHANGED <<start, normative, last_grant_ms, prev_expiry, grants_sum_ms,
                  issued, successes, expiry, applied>>
      BY DEF Cancelled, Cancel, Skip, GiveUp, Recover, RetryAtCadence, Tick, ClientStays,
         vars, serverVars, clientVars, ledgerVars, scheduleVars, countVars
<1>2. now \in Nat /\ now' \in Nat /\ now <= now'
      BY DriftTypes DEF Cancelled, Cancel, Skip, GiveUp, Recover, RetryAtCadence, Tick, vars
<1>3. /\ Answered' => Answered /\ reply' = reply
      /\ pc' = "extend" => key' = key /\ pc = "extend"
      /\ pc' = "select" => \/ pending_key' = pending_key /\ pc = "select"
                           \/ pending_key' = key /\ pc = "extend"
      BY DEF Answered, Cancelled, Cancel, Skip, BeatDue, GiveUp, Recover, RetryAtCadence,
         Failed, Close, Tick, ClientStays, vars, clientVars, recoveryVars, requestVars
<1>4. OneOutstanding'
      BY <1>1, <1>3 DEF DriftInv, OneOutstanding, outcome, Answered
<1>5. Ahead' = Ahead
      BY <1>1 DEF Ahead
<1>6. 2 * (grants_sum_ms' - now')
           <= IF issued' = successes' THEN 5 * RequestedTtl ELSE 3 * RequestedTtl
      BY <1>1, <1>2, DriftTypes DEF DriftInv
<1> QED BY <1>1, <1>4, <1>5, <1>6 DEF DriftInv

(* heartbeat.rs, should_skip: without remaining_ttl_ms, and on a server    *)
(* that adds no more than it was asked for, the expiry stays within two    *)
(* and a half leases of the first one, however long the heartbeat runs and *)
(* whatever fails, is lost or arrives late.                                *)
THEOREM ExpiryStaysClose ==
    ASSUME LedgerOnly
    PROVE  Spec => []BoundedDrift
<1>1. Init => DriftInv
      BY DriftStarts
<1>2. BaseInv /\ DriftInv /\ [Next]_vars => DriftInv'
      BY ExtendKeepsDrift, RefuseKeepsDrift, ServeLateKeepsDrift, SendKeepsDrift,
         SuccessKeepsDrift, OthersKeepDrift DEF Next, Handle
<1>3. BaseInv /\ DriftInv => BoundedDrift
  <2> SUFFICES ASSUME BaseInv, DriftInv
               PROVE  2 * (expiry - now) <= 2 * start.expiry + 5 * RequestedTtl
      BY DEF BoundedDrift
  <2>1. issued = successes => Ahead = 0
        BY DriftTypes DEF Ahead, BaseInv, TypeOK
  <2> QED BY <2>1, DriftTypes DEF DriftInv
<1> QED BY <1>1, <1>2, <1>3, BaseInvariant, PTL DEF Spec
=============================================================================
