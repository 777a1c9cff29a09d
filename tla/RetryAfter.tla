----------------------------- MODULE RetryAfter -----------------------------
(***************************************************************************)
(* The way of a Retry-After header: from its text to milliseconds, and     *)
(* from there to the sleep before an inline retry (retry.rs) or to the     *)
(* floor a journal record carries across a restart (client.rs).  Words are *)
(* those of HeartbeatSchedule; a second is SECOND milliseconds.            *)
(***************************************************************************)
EXTENDS ErrorClasses, HeartbeatSchedule

CONSTANT RETRY_AFTER_CAP          \* 1 h, in milliseconds

ASSUME CapAssumption == RETRY_AFTER_CAP \in 0 .. U64_MAX

I64_MAX == U64_MAX \div 2

(* The text, trimmed: digits and nothing else, and the number they spell.  *)
Header == [digits : BOOLEAN, seconds : Nat]

(* Mutant: the product wraps around.                                       *)
wrapping_delta(header) ==
    IF ~header.digits \/ header.seconds > U64_MAX THEN NoDelay
    ELSE (header.seconds * SECOND) % (U64_MAX + 1)

parse_retry_after_delta(header) ==
    IF ~header.digits \/ header.seconds > U64_MAX \/ header.seconds * SECOND > I64_MAX
    THEN NoDelay
    ELSE header.seconds * SECOND

(* initial * multiplier^attempt in floating point: a set, empty when it is *)
(* not a number (which f64::min ignores).  The conversion to u64           *)
(* saturates.                                                              *)
backoff_delay(product, max_delay) ==
    larger(IF product = {} THEN max_delay
           ELSE smaller(CHOOSE x \in product : TRUE, max_delay), 0)

(* NoDelay is below every delay.                                           *)
delay_for(product, max_delay, retry_after) ==
    larger(backoff_delay(product, max_delay), smaller(retry_after, RETRY_AFTER_CAP))

retry_deadline_ms(now, retry_after) ==
    saturating(now + smaller(retry_after, RETRY_AFTER_CAP))

(* What a replay sleeps: not_before_ms of the record is a set, empty when  *)
(* there is none.                                                          *)
not_before_ms(now, retry_after) ==
    IF retry_after = NoDelay THEN {} ELSE {retry_deadline_ms(now, retry_after)}

replay_delay_ms(not_before, now) ==
    IF not_before = {} THEN 0 ELSE saturating_sub(CHOOSE x \in not_before : TRUE, now)

-----------------------------------------------------------------------------
(* What the server asked for, in unbounded arithmetic, when it can be read *)
(* and kept: digits that spell no more than I64_MAX milliseconds.          *)
IsHeard(header) == header.digits /\ header.seconds * SECOND <= I64_MAX
AskedFor(header) == smaller(header.seconds * SECOND, RETRY_AFTER_CAP)

(* Before an inline retry the client waits as long as the server asked, up *)
(* to the cap, however short its own backoff; and no header can park it    *)
(* for longer than the cap.  One it cannot read or keep counts as absent.  *)
WaitsInline(header, product, max_delay) ==
    LET wait == delay_for(product, max_delay, parse_retry_after_delta(header))
    IN  /\ IsHeard(header) => wait >= AskedFor(header)
        /\ ~IsHeard(header) => wait = backoff_delay(product, max_delay)
        /\ 0 <= wait /\ wait <= larger(max_delay, RETRY_AFTER_CAP)

(* A record written at `now' is replayed, in whatever process and however  *)
(* much later, no earlier than the server asked for (the clock's last      *)
(* moment excepted), and never sleeps longer than the cap.                 *)
WaitsAcrossRestarts(header, now, later) ==
    LET floor == not_before_ms(now, parse_retry_after_delta(header))
        wait == replay_delay_ms(floor, later)
    IN  later >= now =>
            /\ IsHeard(header) =>
                   later + wait >= smaller(now + AskedFor(header), U64_MAX)
            /\ 0 <= wait /\ wait <= RETRY_AFTER_CAP
=============================================================================
