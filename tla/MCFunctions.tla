---------------------------- MODULE MCFunctions ----------------------------
(* The functions without state, on every input of a bounded domain: one    *)
(* response, heartbeat sample, header, body or environment at a time.      *)
EXTENDS RetryAfter, WireFormat, Configuration

CONSTANTS Statuses

ASSUME StatusAssumption == Statuses \subseteq 200 .. 599

Delays == {NoDelay, 0, 5}

VARIABLES
    drawn,                              \* an input has been drawn
    expected_status, resp,              \* of a settlement request
    remaining, rtt, timeout, max_rtt,   \* of an extension
    header, product, max_delay,         \* of a throttled request
    now, later,                         \* when it failed, when it is replayed
    call, body,                         \* a 2xx answer
    env                                 \* the process environment

response == <<expected_status, resp>>
sample == <<remaining, rtt, timeout, max_rtt>>
throttle == <<header, product, max_delay, now, later>>
answer == <<call, body>>

Unset == [variable \in Required \cup Options |-> "unset"]
Start == [Unset EXCEPT !["base_url"] = "other", !["api_key"] = "other"]

Init ==
    /\ drawn = FALSE
    /\ expected_status \in {200, 201} /\ resp = Lost
    /\ remaining = 0 /\ rtt = 0 /\ timeout = 0 /\ max_rtt = 0
    /\ header = [digits |-> FALSE, seconds |-> 0] /\ product = {} /\ max_delay = 0
    /\ now = 0 /\ later = 0
    /\ call = "create" /\ body = Null
    /\ env = Start

Receive ==
    /\ ~drawn /\ drawn' = TRUE
    /\ \E status \in Statuses, content \in {"valid", "malformed"} \cup ErrorCode,
          delay \in Delays :
          resp' = [status |-> status, body |-> content, retry_after |-> delay]
    /\ UNCHANGED <<expected_status, sample, throttle, answer, env>>

Sample ==
    /\ ~drawn /\ drawn' = TRUE
    /\ remaining' \in U64
    /\ rtt' \in U64
    /\ timeout' \in U64
    /\ max_rtt' \in U64
    /\ UNCHANGED <<response, throttle, answer, env>>

Throttle ==
    /\ ~drawn /\ drawn' = TRUE
    /\ header' \in [digits : BOOLEAN, seconds : 0 .. U64_MAX + 2]
    /\ \/ /\ product' \in {{}} \cup {{x} : x \in {-3, 0, 2, U64_MAX + 5}}
          /\ max_delay' \in {0, 1, 4, U64_MAX}
          /\ UNCHANGED <<now, later>>
       \/ /\ now' \in U64
          /\ later' \in U64
          /\ UNCHANGED <<product, max_delay>>
    /\ UNCHANGED <<response, sample, answer, env>>

-----------------------------------------------------------------------------
(* Bodies: the least and the fullest body of a call, with one of its       *)
(* fields, or one it does not have, set to any value or taken away.        *)

Put(fields, key, value) ==
    [k \in DOMAIN fields \cup {key} |-> IF k = key THEN value ELSE fields[k]]
Without(fields, key) == [k \in DOMAIN fields \ {key} |-> fields[k]]

Of(unit, amount) == Object([unit |-> unit, amount |-> amount])
Tokens(class) == Of(Text("TOKENS"), Number(class))
AllCaps ==
    [max_tokens |-> Number("int64"), max_steps_remaining |-> Number("int64"),
     tool_allowlist |-> List(<<Text("medium")>>), tool_denylist |-> List(<<>>),
     cooldown_ms |-> Number("int64")]
LeastBalance ==
    [scope |-> Text("text"), scope_path |-> Text("long"), remaining |-> Tokens("negative")]
FullBalance ==
    [key \in BALANCE_FIELDS |->
        IF key \in DOMAIN LeastBalance THEN LeastBalance[key]
        ELSE IF key = "is_over_limit" THEN Bool ELSE Tokens("int64")]
Evidence == [evidence_id |-> Text("digest"), cycles_evidence_url |-> Text("url")]

Scalars ==
    {Null, Bool, List(<<>>)}
      \cup {Number(c) : c \in {"negative", "int64", "uint64", "fraction"}}
      \cup {Text(t) : t \in {"ALLOW", "ALLOW_WITH_CAPS", "DENY", "ACTIVE", "COMMITTED",
                             "RECOVERED_VIA_EVENT", "APPLIED", "TOKENS", "digest", "url",
                             "text", "medium", "long"}}

(* One field of an object set, or taken away, or an unknown one added.     *)
Disturbed(fields, values) ==
    {Object(fields)}
      \cup {Object(Without(fields, k)) : k \in DOMAIN fields}
      \cup {Object(Put(fields, k, v)) : k \in DOMAIN fields \cup {"unknown"}, v \in values}

Amounts == Disturbed(Tokens("int64")[2], Scalars) \cup {Of(Text("CREDITS"), Number("negative"))}
SomeAmounts == {Tokens("negative"), Tokens("int64"), Tokens("uint64"), Of(Text("text"), Number("int64"))}
Lists == {List(<<v>>) : v \in Scalars} \cup {List(<<Text("text"), Text("long")>>)}
SomeLists == {List(<<Null>>), List(<<Text("long")>>), List(<<Text("text"), Text("medium")>>)}
Balances ==
    Disturbed(LeastBalance, Scalars \cup SomeAmounts)
      \cup Disturbed(FullBalance, Scalars \cup SomeAmounts)
Values ==
    Scalars \cup Amounts \cup Lists
      \cup Disturbed(AllCaps, Scalars \cup SomeLists) \cup Disturbed(Evidence, Scalars)
      \cup {List(<<b>>) : b \in Balances} \cup {List(<<Object(FullBalance), Null>>)}

LeastBody(c) ==
    CASE c = "create" -> [decision |-> Text("DENY"), affected_scopes |-> List(<<>>)]
      [] c = "extend" -> [status |-> Text("ACTIVE"), expires_at_ms |-> Number("int64")]
      [] c = "commit" -> [status |-> Text("COMMITTED"), charged |-> Tokens("int64")]
      [] OTHER -> [status |-> Text("APPLIED"), event_id |-> Text("text")]

FieldsOf(c) ==
    CASE c = "create" -> CREATE_RESPONSE_FIELDS
      [] c = "extend" -> EXTEND_RESPONSE_FIELDS
      [] c = "commit" -> COMMIT_RESPONSE_FIELDS
      [] OTHER -> EVENT_RESPONSE_FIELDS

Sound(key) ==
    CASE key \in {"charged", "released", "reserved"} -> Tokens("int64")
      [] key \in {"expires_at_ms", "remaining_ttl_ms"} -> Number("int64")
      [] key = "retry_after_ms" -> Number("uint64")
      [] key = "caps" -> Object(AllCaps)
      [] key = "balances" -> List(<<Object(FullBalance), Object(LeastBalance)>>)
      [] key = "cycles_evidence" -> Object(Evidence)
      [] OTHER -> Text("text")

FullBody(c) ==
    [key \in FieldsOf(c) |-> IF key \in DOMAIN LeastBody(c) THEN LeastBody(c)[key] ELSE Sound(key)]

Answer ==
    /\ ~drawn /\ drawn' = TRUE
    /\ call' \in Calls
    /\ body' \in Scalars \cup Disturbed(LeastBody(call'), Values)
                    \cup Disturbed(FullBody(call'), Values)
    /\ UNCHANGED <<response, sample, throttle, env>>

(* Any two variables set to anything.                                      *)
Launch ==
    /\ ~drawn /\ drawn' = TRUE
    /\ \E one, other \in Required \cup Options, first, second \in Settings :
          env' = [Start EXCEPT ![one] = first, ![other] = second]
    /\ UNCHANGED <<response, sample, throttle, answer>>

Next == Receive \/ Sample \/ Throttle \/ Answer \/ Launch
Spec == Init /\ [][Next]_<<drawn, response, sample, throttle, answer, env>>

-----------------------------------------------------------------------------
(* Each response is read the way the protocol means it (error.rs,          *)
(* client.rs: the classification helpers).                                 *)
VerdictIsRead == ReadsVerdict(expected_status, resp)

(* Nothing that was worth retrying loses its record when the retries run   *)
(* out (client.rs, is_settlement_retryable against requires_durable_replay).*)
RetriesStayDurable == RetriedIsKept(expected_status, resp)

(* A positive delay of the heartbeat leaves the whole retry reserve in the *)
(* lease, one failed attempt never exhausts that reserve, and whenever the *)
(* recovery window is not negative the retry fits (heartbeat.rs,           *)
(* remaining_next_delay_ms, retry_reserve_ms, recovery_window_ms), at the  *)
(* ends of the word too.                                                   *)
ReserveSuffices ==
    /\ LeavesReserve(remaining, rtt, timeout, max_rtt)
    /\ AffordsRetry(remaining, rtt, timeout, max_rtt)
    /\ RetryFits(remaining, timeout, max_rtt)

(* A throttled request is repeated no earlier than the server asked, up to *)
(* an hour, and waits at most that or the longest backoff; a journal       *)
(* record carries what is left of the delay across a restart (client.rs,   *)
(* parse_retry_after_delta, retry_deadline_ms; retry.rs, delay_for).       *)
RetryAfterIsHonoured ==
    /\ WaitsInline(header, product, max_delay)
    /\ WaitsAcrossRestarts(header, now, later)

(* A body the strict predicates of client.rs accept is decoded by the      *)
(* types of models/ without a failure, an Unknown or a loss.               *)
AcceptedLosesNothing == LosesNothing(call, body)

(* recovered_via_event is set exactly when the status is RecoveredViaEvent,*)
(* and no server can bring that about (enums.rs, response.rs, guard.rs).   *)
RecoveryIsClientSide == RecoveryIsOurs(call, body, Tokens("int64"))

(* The environment configures a client as the builder would (config.rs).   *)
EnvironmentActsAsBuilder == ActsAsBuilder(env)
=============================================================================
