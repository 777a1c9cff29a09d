------------------------------ MODULE Heartbeat ------------------------------
(***************************************************************************)
(* The background task that keeps one reservation alive: it decides when   *)
(* to extend the lease, sends one extension at a time, and reads the       *)
(* answer.  While the server tells how much of the lease is left           *)
(* (remaining_ttl_ms) the schedule is computed from that answer alone;     *)
(* otherwise from a ledger of the expiry differences it has seen.          *)
(*                                                                         *)
(* Time is the client's monotonic clock, counted from the heartbeat's      *)
(* anchor, and the server's clock runs at the same rate; an instant of the *)
(* server enters the client's arithmetic only as a difference of two, so   *)
(* both are written in one frame.  ceil_ms has nothing to round up.        *)
(***************************************************************************)
EXTENDS ErrorClasses, HeartbeatSchedule, FiniteSets

CONSTANTS
    RequestedTtl,     \* requested_ttl_ms
    RequestTimeout,   \* connect_timeout + read_timeout
    Creates,          \* what the create response may have said
    Fields,           \* whether extend responses carry remaining_ttl_ms
    Grants,           \* what a server that adds lease may add
    Leads,            \* the maximum lead a server may enforce
    Failures,         \* responses other than success
    Losses,           \* may an answer be lost or too late?
    Cancels,          \* may the guard cancel the heartbeat?
    Slip,             \* how late the runtime may wake a sleeper
    MaxTime           \* bound: the clock stops here

NoField == -1
NoExpiry == -1
NoKey == 0

(* The reservation is live when the heartbeat starts.                      *)
CreateSample ==
    [expiry : Nat, known : BOOLEAN, remaining : {NoField} \cup U64,
     rtt : U64, setup : Nat]

(* remaining was true at some moment between the sending and the receipt   *)
(* of the create response, setup before the anchor.                        *)
TruthfulCreate(c) ==
    c.remaining # NoField =>
        c.expiry - c.remaining \in -(c.setup + c.rtt) .. -c.setup

ASSUME TimeAssumption ==
    /\ RequestedTtl \in U64 \ {0}
    /\ RequestTimeout \in U64 \ {0}
    /\ {Slip, MaxTime} \subseteq Nat
ASSUME ServerAssumption ==
    /\ Creates \subseteq CreateSample
    /\ \A c \in Creates : TruthfulCreate(c)
    /\ Fields \subseteq BOOLEAN
    /\ {Losses, Cancels} \subseteq BOOLEAN
    /\ Grants \subseteq Nat
    /\ Leads \subseteq Nat
    /\ Failures \subseteq HttpResponse
    /\ \A resp \in Failures : post_json_strict(200, resp).kind # "Ok"

VARIABLES
    now,                  \* the monotonic clock
    start,                \* the create response
    expiry,               \* the reservation's expiry, as the server has it
    applied,              \* keys whose extension the server carried out
    late,                 \* keys of requests whose sender has stopped waiting
    cancelled,            \* the CancellationToken
    pc,                   \* "select", "extend" or "stopped"
    next_beat, delay, normative, max_rtt_ms,
    lead_sample,          \* last lead floor, and the instant of its receipt
    zero_delay_streak,
    last_recovery,        \* the previous failure of this recovery run, if any
    zero_window_retried, prev_expiry, grants_sum_ms, last_grant_ms,
    last_success, pending_key,
    key, sent_at, reply,  \* the outstanding request
    issued,               \* idempotency keys drawn so far
    successes,            \* history: successes observed
    burst,                \* history: requests sent at this instant
    disturbed             \* history: a request has failed

serverVars == <<start, expiry, applied, late>>
ledgerVars == <<prev_expiry, grants_sum_ms, last_grant_ms, last_success>>
recoveryVars == <<last_recovery, zero_window_retried, pending_key>>
scheduleVars == <<delay, normative, max_rtt_ms, lead_sample, zero_delay_streak>>
requestVars == <<key, sent_at, reply>>
countVars == <<issued, successes, burst, disturbed>>
clientVars == <<ledgerVars, recoveryVars, scheduleVars>>
vars == <<now, cancelled, pc, next_beat, serverVars, clientVars, requestVars,
          countVars>>

Reply == [resp : Response, expires_at : Nat, remaining : {NoField} \cup U64]
NoReply == [resp |-> Lost, expires_at |-> 0, remaining |-> -2]
Success(expires_at, remaining) ==
    [resp |-> [status |-> 200, body |-> "valid", retry_after |-> NoDelay],
     expires_at |-> expires_at, remaining |-> remaining]
Failure(resp) == [resp |-> resp, expires_at |-> 0, remaining |-> NoField]

TypeOK ==
    /\ now \in Nat
    /\ start \in Creates
    /\ expiry \in Nat
    /\ issued \in Nat
    /\ applied \subseteq 1 .. issued
    /\ late \subseteq 1 .. issued
    /\ cancelled \in BOOLEAN
    /\ pc \in {"select", "extend", "stopped"}
    /\ next_beat \in Nat
    /\ delay \in Nat
    /\ normative \in BOOLEAN
    /\ max_rtt_ms \in Nat
    /\ lead_sample \in [floor : U64, at : Nat]
    /\ zero_delay_streak \in 0 .. 2
    /\ \A r \in last_recovery : r.window \in Nat /\ r.at \in Nat
    /\ \A r, previous \in last_recovery : r = previous
    /\ zero_window_retried \in BOOLEAN
    /\ prev_expiry \in {NoExpiry} \cup Nat
    /\ grants_sum_ms \in Nat
    /\ last_grant_ms \in {NoGrant} \cup Nat
    /\ last_success \in Nat
    /\ pending_key \in 0 .. issued
    /\ key \in 0 .. issued
    /\ sent_at \in Nat
    /\ reply \in Reply \cup {NoReply}
    /\ successes \in Nat
    /\ burst \in Nat
    /\ disturbed \in BOOLEAN

-----------------------------------------------------------------------------
(* start_heartbeat, up to the loop.                                        *)

(* The time between the receipt of the create response and the anchor is   *)
(* taken off the lease as well.                                            *)
remaining_at_start(c) == saturating_sub(c.remaining, c.setup)

FirstDelay(c) ==
    IF c.remaining = NoField THEN 0
    ELSE remaining_next_delay_ms(remaining_at_start(c), c.rtt, RequestTimeout, c.rtt)

Init ==
    /\ start \in Creates
    /\ now = 0
    /\ expiry = start.expiry
    /\ applied = {}
    /\ late = {}
    /\ cancelled = FALSE
    /\ pc = "select"
    /\ next_beat = FirstDelay(start)
    /\ delay = held_cadence_ms(RequestedTtl)
    /\ normative = (start.remaining # NoField)
    /\ max_rtt_ms = start.rtt
    /\ lead_sample = [floor |-> IF normative
                                THEN lead_floor_ms(remaining_at_start(start), start.rtt)
                                ELSE 0,
                      at |-> 0]
    /\ zero_delay_streak = IF normative /\ next_beat = 0 THEN 1 ELSE 0
    /\ last_recovery = {}
    /\ zero_window_retried = FALSE
    /\ prev_expiry = IF start.known THEN start.expiry ELSE NoExpiry
    /\ grants_sum_ms = 0
    /\ last_grant_ms = NoGrant
    /\ last_success = 0
    /\ pending_key = NoKey
    /\ key = NoKey
    /\ sent_at = 0
    /\ reply = NoReply
    /\ issued = 0
    /\ successes = 0
    /\ burst = 0
    /\ disturbed = FALSE

-----------------------------------------------------------------------------
(* The loop: wait, beat, send.                                             *)

(* Scheduled from the intended instant, realigned after a stall.           *)
advance(intended, d) == larger(intended + d, now)

(* Mutant: the token is looked at only once the extension is resolved.     *)
CancelledWhenResolved ==
    /\ pc = "select" /\ cancelled /\ pending_key = NoKey
    /\ pc' = "stopped"
    /\ UNCHANGED <<now, cancelled, next_beat, serverVars, clientVars, requestVars,
                   countVars>>

(* select! polls its branches in random order, so a beat that is due may   *)
(* still win against a cancelled token.                                    *)
Cancelled ==
    /\ pc = "select" /\ cancelled
    /\ pc' = "stopped"
    /\ UNCHANGED <<now, cancelled, next_beat, serverVars, clientVars, requestVars,
                   countVars>>

BeatDue == pc = "select" /\ now >= next_beat

SkipsBeat ==
    ~normative /\ should_skip(lead_min_ms(grants_sum_ms, next_beat), last_grant_ms)

Skip ==
    /\ BeatDue /\ SkipsBeat
    /\ next_beat' = advance(next_beat, delay)
    /\ UNCHANGED <<now, cancelled, pc, serverVars, clientVars, requestVars, countVars>>

(* Mutant: every request has a new key.                                    *)
SendFresh ==
    /\ BeatDue /\ ~SkipsBeat
    /\ key' = issued + 1 /\ issued' = issued + 1
    /\ sent_at' = now /\ reply' = NoReply /\ burst' = burst + 1
    /\ pc' = "extend"
    /\ UNCHANGED <<now, cancelled, next_beat, serverVars, clientVars, successes, disturbed>>

(* An unresolved extension is repeated under its own key.                  *)
Send ==
    /\ BeatDue /\ ~SkipsBeat
    /\ IF pending_key = NoKey
       THEN key' = issued + 1 /\ issued' = issued + 1
       ELSE key' = pending_key /\ UNCHANGED issued
    /\ sent_at' = now
    /\ reply' = NoReply
    /\ burst' = burst + 1
    /\ pc' = "extend"
    /\ UNCHANGED <<now, cancelled, next_beat, serverVars, clientVars, successes, disturbed>>

-----------------------------------------------------------------------------
(* The answer.                                                             *)

outcome == post_json_strict(200, reply.resp)
Answered == pc = "extend" /\ reply # NoReply
rtt_ms == now - sent_at

(* Mutant: the ledger counts what was asked for.                           *)
requested_grant == RequestedTtl

grant == IF prev_expiry = NoExpiry THEN RequestedTtl
         ELSE reply.expires_at - prev_expiry
counted == larger(grant, 0)

(* The request is no more.                                                 *)
Close == key' = NoKey /\ sent_at' = 0 /\ reply' = NoReply

(* What every success resolves and records.                                *)
Acknowledge ==
    /\ max_rtt_ms' = larger(max_rtt_ms, rtt_ms)
    /\ pending_key' = NoKey
    /\ last_recovery' = {}
    /\ zero_window_retried' = FALSE
    /\ prev_expiry' = reply.expires_at
    /\ grants_sum_ms' = grants_sum_ms + counted
    /\ last_grant_ms' = counted
    /\ last_success' = next_beat
    /\ successes' = successes + 1
    /\ Close
    /\ UNCHANGED <<now, cancelled, serverVars, issued, burst, disturbed>>

(* Mutant: two immediate extensions in a row are not noticed.              *)
ScheduleWithoutGuard ==
    /\ Answered /\ outcome.kind = "Ok" /\ reply.remaining # NoField
    /\ Acknowledge
    /\ normative' = TRUE
    /\ lead_sample' = [floor |-> lead_floor_ms(reply.remaining, rtt_ms), at |-> now]
    /\ next_beat' = now + remaining_next_delay_ms(reply.remaining, rtt_ms,
                                                  RequestTimeout, max_rtt_ms')
    /\ pc' = "select"
    /\ UNCHANGED <<delay, zero_delay_streak>>

(* The response says how much lease is left.  One success may leave no     *)
(* room for a delay; the second in a row stops the heartbeat.              *)
ScheduleByField ==
    /\ Answered /\ outcome.kind = "Ok" /\ reply.remaining # NoField
    /\ Acknowledge
    /\ normative' = TRUE
    /\ lead_sample' = [floor |-> lead_floor_ms(reply.remaining, rtt_ms), at |-> now]
    /\ LET next_delay == remaining_next_delay_ms(reply.remaining, rtt_ms,
                                                 RequestTimeout, max_rtt_ms')
       IN  /\ zero_delay_streak' = IF next_delay = 0 THEN zero_delay_streak + 1 ELSE 0
           /\ IF zero_delay_streak' >= 2
              THEN pc' = "stopped" /\ UNCHANGED next_beat
              ELSE pc' = "select" /\ next_beat' = now + next_delay
    /\ UNCHANGED delay

(* It does not: pace by the grant, or hold the cadence if the grant looks  *)
(* like a clock reading.                                                   *)
ScheduleByLedger ==
    /\ Answered /\ outcome.kind = "Ok" /\ reply.remaining = NoField
    /\ Acknowledge
    /\ normative' = FALSE
    /\ zero_delay_streak' = 0
    /\ delay' = IF is_lead_clamp_grant(grant, RequestedTtl, next_beat - last_success)
                THEN held_cadence_ms(RequestedTtl)
                ELSE next_beat_delay_ms(counted, RequestedTtl)
    /\ next_beat' = advance(next_beat, delay')
    /\ pc' = "select"
    /\ UNCHANGED lead_sample

is_permanent_extend_failure(e) ==
    \/ e.code \in {"RESERVATION_EXPIRED", "RESERVATION_FINALIZED",
                   "MAX_EXTENSIONS_EXCEEDED", "TENANT_CLOSED", "NOT_FOUND"}
    \/ e.status \in {404, 410}

is_recoverable_in_field_mode(e) ==
    \/ e.kind \in {"Transport", "Deserialization"}
    \/ e.status >= 500
    \/ e.status = 429

lead_now == saturating_sub(lead_sample.floor, now - lead_sample.at)
window == recovery_window_ms(lead_now, RequestTimeout, max_rtt_ms)

(* A 429 is retried when it says, or not at all.                           *)
RetryDelays ==
    IF outcome.status = 429
    THEN {d \in {outcome.retry_after} \ {NoDelay} : d <= window}
    ELSE {recovery_delay_ms(lead_now, window)}

(* The loop continues after a failure in normative mode.                   *)
MayRecover ==
    /\ is_recoverable_in_field_mode(outcome)
    /\ ~(window = 0 /\ zero_window_retried)
    /\ ~recovery_stalled(window, {r.window : r \in last_recovery},
                         \A r \in last_recovery : now > r.at)
    /\ window >= 0
    /\ RetryDelays # {}

Failed == Answered /\ outcome.kind # "Ok"

GiveUp ==
    /\ Failed
    /\ \/ is_permanent_extend_failure(outcome)
       \/ normative /\ ~MayRecover
    /\ pc' = "stopped"
    /\ Close
    /\ UNCHANGED <<now, cancelled, next_beat, serverVars, clientVars, countVars>>

Recover ==
    /\ Failed /\ ~is_permanent_extend_failure(outcome)
    /\ normative /\ MayRecover
    /\ pending_key' = key
    /\ last_recovery' = {[window |-> window, at |-> now]}
    /\ zero_window_retried' = (zero_window_retried \/ window = 0)
    /\ \E d \in RetryDelays : next_beat' = now + d
    /\ pc' = "select"
    /\ Close
    /\ UNCHANGED <<now, cancelled, serverVars, ledgerVars, scheduleVars, countVars>>

RetryAtCadence ==
    /\ Failed /\ ~is_permanent_extend_failure(outcome)
    /\ ~normative
    /\ pending_key' = key
    /\ next_beat' = advance(next_beat, delay)
    /\ pc' = "select"
    /\ Close
    /\ UNCHANGED <<now, cancelled, serverVars, ledgerVars, scheduleVars,
                   last_recovery, zero_window_retried, countVars>>

-----------------------------------------------------------------------------
(* The server, the network and time.                                       *)

(* A server adds lease, or stamps a lead; it never shortens a lease.       *)
NewExpiries ==
    {expiry + g : g \in Grants} \cup {larger(expiry, now + lead) : lead \in Leads}

(* One extension per key, of a live reservation.                           *)
Apply(k) ==
    /\ now <= expiry
    /\ IF k \in applied THEN UNCHANGED <<expiry, applied>>
       ELSE applied' = applied \cup {k} /\ expiry' \in NewExpiries

Waiting == pc = "extend" /\ reply = NoReply
ClientStays == UNCHANGED <<cancelled, pc, next_beat, clientVars, key, sent_at, issued,
                           successes>>

Extend ==
    /\ Waiting
    /\ Apply(key)
    /\ \E field \in Fields :
          reply' = Success(expiry', IF field THEN saturating(expiry' - now) ELSE NoField)
    /\ UNCHANGED <<now, start, late, burst, disturbed>> /\ ClientStays

(* An error, or a 2xx that is no receipt, carried out or not.              *)
Refuse ==
    /\ Waiting
    /\ Apply(key) \/ UNCHANGED <<expiry, applied>>
    /\ \E resp \in Failures : reply' = Failure(resp)
    /\ disturbed' = TRUE
    /\ UNCHANGED <<now, start, late, burst>> /\ ClientStays

(* The connection fails or the request times out; the request may be       *)
(* carried out later.                                                      *)
Lose ==
    /\ Waiting /\ Losses
    /\ reply' = Failure(Lost)
    /\ late' = late \cup {key}
    /\ disturbed' = TRUE
    /\ UNCHANGED <<now, start, expiry, applied, burst>> /\ ClientStays

ServeLate ==
    /\ \E k \in late : Apply(k) /\ late' = late \ {k}
    /\ UNCHANGED <<now, start, reply, burst, disturbed>> /\ ClientStays

Cancel ==
    /\ Cancels /\ ~cancelled /\ pc # "stopped"
    /\ cancelled' = TRUE
    /\ UNCHANGED <<now, pc, next_beat, serverVars, clientVars, requestVars, countVars>>

(* A request does not outlive its timeout, and a sleeper wakes at most     *)
(* Slip late.                                                              *)
Tick ==
    /\ pc # "stopped" /\ now < MaxTime
    /\ pc = "extend" => now < sent_at + RequestTimeout
    /\ pc = "select" => now < next_beat + Slip
    /\ now' = now + 1
    /\ burst' = 0
    /\ UNCHANGED <<start, expiry, applied, late, reply, disturbed>> /\ ClientStays

Handle == ScheduleByField \/ ScheduleByLedger \/ GiveUp \/ Recover \/ RetryAtCadence

Next ==
    \/ Cancelled \/ Skip \/ Send
    \/ Handle
    \/ Extend \/ Refuse \/ Lose \/ ServeLate
    \/ Cancel
    \/ Tick

Spec == Init /\ [][Next]_vars

(* A request ends, its result is handled, and select! looks at the token   *)
(* at random, so not never.                                                *)
FairSpec ==
    /\ Spec
    /\ WF_vars(Tick) /\ WF_vars(Lose)
    /\ WF_vars(Handle)
    /\ SF_vars(Cancelled)

-----------------------------------------------------------------------------
(* The last lead floor, aged by the clock, never promises more lease than  *)
(* the server keeps (heartbeat.rs, lead_sample: per-attempt rtt, receipt   *)
(* as anchor, setup time deducted).                                        *)
SampleIsALowerBound ==
    normative /\ pc # "stopped" => lead_now <= saturating_sub(expiry, now)

(* Under the field's schedule every request, first or repeated, is sent    *)
(* while its whole timeout still fits in the lease, except the one         *)
(* immediate extension that a lease too short is granted (heartbeat.rs,    *)
(* next_delay, retry window, Retry-After within the window).               *)
LeaseCoversAttempt ==
    pc = "extend" /\ normative /\ (zero_delay_streak = 0 \/ pending_key # NoKey)
        => sent_at + RequestTimeout <= expiry

(* The server never carries out more extensions than the heartbeat has     *)
(* seen succeed, and the one under way (heartbeat.rs, pending_key).        *)
NeverExtendsTwice == Cardinality(applied) <= successes + 1

(* However the answers fall, the heartbeat does not send in a loop that    *)
(* takes no time (heartbeat.rs, zero_delay_streak, zero_window_retried,    *)
(* recovery_stalled, advance).                                             *)
NoBusyLoop == burst <= 4

(* The ledger's lead never exceeds what the server has added since the     *)
(* start (heartbeat.rs:128, "lead_min under-estimates, never               *)
(* over-estimates").                                                       *)
LedgerIsALowerBound == start.known => grants_sum_ms <= expiry - start.expiry

(* Without the field, the expiry does not drift away: two and a half       *)
(* requested leases beyond the first at most (heartbeat.rs, should_skip).  *)
BoundedDrift ==
    2 * (expiry - now) <= 2 * start.expiry + 5 * RequestedTtl

(* While every request succeeds and sleepers wake in time, the reservation *)
(* lives as long as its heartbeat (heartbeat.rs, should_skip and the       *)
(* cadence of half a lease).                                               *)
LeaseNeverLapses == ~disturbed /\ pc # "stopped" => now <= expiry

(* A cancelled heartbeat ends (heartbeat.rs, select! on the token).        *)
CancelStops == cancelled ~> pc = "stopped"

(* heartbeat.rs:166-167 of a real per-extend grant: "after a skip doubles  *)
(* the inter-success gap, a fixed grant falls below the band and the       *)
(* cadence tightens again".  A server that adds the same lease each time   *)
(* is paced by it.                                                         *)
RealGrantSetsThePace ==
    last_grant_ms # NoGrant => delay = next_beat_delay_ms(last_grant_ms, RequestedTtl)

-----------------------------------------------------------------------------
(* The inductive invariant behind the three safety properties.             *)

(* What is remembered lies in the past; a request has not outlived its     *)
(* timeout, a sleeper not its beat by more than Slip.                      *)
TimeInOrder ==
    /\ lead_sample.at <= now
    /\ \A r \in last_recovery : r.at <= now
    /\ pc = "extend" => sent_at <= now /\ now <= sent_at + RequestTimeout
    /\ pc = "select" => now <= next_beat + Slip

(* A running heartbeat has had at most one zero delay in a row.            *)
StreakBounded == pc # "stopped" => zero_delay_streak <= 1

(* A new key is drawn only when the last one is resolved.                  *)
KeysInOrder ==
    /\ issued <= successes + 1
    /\ pc = "select" => issued = IF pending_key = NoKey THEN successes ELSE successes + 1
    /\ pc = "extend" => key # NoKey /\ issued = successes + 1

(* The lease in an answer on its way was evaluated after the sending.      *)
AnswerIsALowerBound ==
    pc = "extend" /\ reply # NoReply /\ reply.remaining # NoField
        => sent_at + reply.remaining <= expiry

(* The floor, unless it is used up, ends no later than the lease.          *)
FloorIsALowerBound ==
    normative /\ pc # "stopped"
        => lead_sample.floor = 0 \/ lead_sample.at + lead_sample.floor <= expiry

(* A beat that was put off, or repeats a request, leaves a whole timeout   *)
(* and the least margin.                                                   *)
ScheduleLeavesRoom ==
    pc = "select" /\ normative /\ (zero_delay_streak = 0 \/ pending_key # NoKey)
        => next_beat + RequestTimeout + SECOND <= expiry

BaseInv ==
    /\ TypeOK
    /\ TimeInOrder
    /\ StreakBounded
    /\ KeysInOrder
    /\ AnswerIsALowerBound
    /\ FloorIsALowerBound

LeaseInv == ScheduleLeavesRoom /\ LeaseCoversAttempt
=============================================================================
