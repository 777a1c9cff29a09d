--------------------------- MODULE FunctionsProofs ---------------------------
(* The functions without state, on every input: each response is read as   *)
(* the protocol means it, a delay leaves the retry reserve, a Retry-After  *)
(* is honoured, a body that is accepted is decoded whole, a recovery is    *)
(* the client's own, and the environment acts as the builder; for every    *)
(* word size, scale, cap, JSON value and environment.                      *)
EXTENDS MCFunctions, ErrorClassesProofs, HeartbeatScheduleProofs, FiniteSetTheorems

-----------------------------------------------------------------------------
(* Retry-After.                                                            *)

(* A floating-point value: a number, or nothing.                           *)
Float == {{}} \cup {{x} : x \in Int}

LEMMA WordIsNat ==
    U64_MAX \in Nat /\ I64_MAX \in Nat /\ I64_MAX <= U64_MAX /\ SECOND \in Nat \ {0}
    /\ RETRY_AFTER_CAP \in Nat /\ RETRY_AFTER_CAP <= U64_MAX
BY ScaleAssumption, CapAssumption DEF I64_MAX

LEMMA ScalingGrows ==
    ASSUME NEW n \in Nat, NEW scale \in Nat \ {0}
    PROVE  n * scale \in Nat /\ n <= n * scale
<1>1. n * scale \in Nat
  OBVIOUS
<1>2. n * scale = n + n * (scale - 1) /\ n * (scale - 1) >= 0
  OBVIOUS
<1> QED BY <1>1, <1>2

(* A header is either heard exactly or not at all.                         *)
LEMMA HeardExactly ==
    ASSUME NEW h \in Header
    PROVE  /\ h.seconds * SECOND \in Nat
           /\ parse_retry_after_delta(h) =
                  IF IsHeard(h) THEN h.seconds * SECOND ELSE NoDelay
<1>1. h.digits \in BOOLEAN /\ h.seconds \in Nat
  BY DEF Header
<1>2. h.seconds * SECOND \in Nat /\ h.seconds <= h.seconds * SECOND
  BY <1>1, WordIsNat, ScalingGrows
<1>3. IsHeard(h) => h.seconds <= U64_MAX
  BY <1>1, <1>2, WordIsNat DEF IsHeard
<1>4. IsHeard(h) <=>
          ~(~h.digits \/ h.seconds > U64_MAX \/ h.seconds * SECOND > I64_MAX)
  BY <1>1, <1>2, <1>3, WordIsNat DEF IsHeard
<1> QED BY <1>2, <1>4 DEF parse_retry_after_delta

LEMMA DelayInWord ==
    ASSUME NEW h \in Header
    PROVE  /\ parse_retry_after_delta(h) \in {NoDelay} \cup 0 .. I64_MAX
           /\ NoDelay = -1
           /\ IsHeard(h) =>
                  /\ parse_retry_after_delta(h) = h.seconds * SECOND
                  /\ h.seconds * SECOND \in Nat
<1>1. NoDelay = -1
  BY DEF NoDelay
<1>2. CASE IsHeard(h)
  <2>1. h.seconds * SECOND \in Nat /\ h.seconds * SECOND <= I64_MAX
    BY <1>2, HeardExactly DEF IsHeard
  <2> QED BY <1>1, <1>2, <2>1, HeardExactly, WordIsNat
<1>3. CASE ~IsHeard(h)
  BY <1>1, <1>3, HeardExactly
<1> QED BY <1>2, <1>3

LEMMA BackoffIsBounded ==
    ASSUME NEW p \in Float, NEW most \in Nat
    PROVE  /\ backoff_delay(p, most) \in Nat
           /\ backoff_delay(p, most) <= most
<1>1. CASE p = {}
  BY <1>1 DEF backoff_delay, larger
<1>2. ASSUME NEW x \in Int, p = {x}
      PROVE  /\ backoff_delay(p, most) \in Nat
             /\ backoff_delay(p, most) <= most
  <2>1. p # {} /\ (CHOOSE y \in p : TRUE) = x
    BY <1>2
  <2>2. backoff_delay(p, most) = larger(smaller(x, most), 0)
    BY <2>1 DEF backoff_delay
  <2> QED BY <2>2 DEF larger, smaller
<1> QED BY <1>1, <1>2 DEF Float

-----------------------------------------------------------------------------
(* retry.rs, delay_for: whatever header a server sends and whatever the    *)
(* floating-point backoff comes to, the sleep before an inline retry is at *)
(* least the server's delay up to the cap, and at most the larger of the   *)
(* cap and the longest backoff; without a delay it is the backoff.         *)
THEOREM InlineWaits ==
    ASSUME NEW h \in Header, NEW p \in Float, NEW most \in Nat
    PROVE  WaitsInline(h, p, most)
<1> DEFINE backoff == backoff_delay(p, most)
           asked == parse_retry_after_delta(h)
           wait == delay_for(p, most, asked)
<1>1. backoff \in Nat /\ backoff <= most
  BY BackoffIsBounded
<1>2. asked \in Int /\ asked <= I64_MAX /\ asked >= -1
  BY DelayInWord, WordIsNat
<1>3. wait = larger(backoff, smaller(asked, RETRY_AFTER_CAP))
  BY DEF delay_for
<1> HIDE DEF backoff, asked, wait
<1>4. 0 <= wait /\ wait <= larger(most, RETRY_AFTER_CAP)
  BY <1>1, <1>2, <1>3, WordIsNat DEF larger, smaller
<1>5. ASSUME IsHeard(h)
      PROVE  wait >= AskedFor(h)
  <2>1. asked = h.seconds * SECOND
    BY <1>5, DelayInWord DEF asked
  <2>2. AskedFor(h) = smaller(asked, RETRY_AFTER_CAP)
    BY <2>1 DEF AskedFor
  <2> QED BY <1>1, <1>2, <1>3, <2>2, WordIsNat DEF larger, smaller
<1>6. ASSUME ~IsHeard(h)
      PROVE  wait = backoff
  <2>1. asked = -1
    BY <1>6, HeardExactly, DelayInWord DEF asked
  <2> QED BY <1>1, <1>3, <2>1, WordIsNat DEF larger, smaller
<1> QED BY <1>4, <1>5, <1>6 DEF WaitsInline, wait, asked, backoff

(* client.rs, retry_deadline_ms and replay_pending_record: for every       *)
(* header and every two readings of a clock that does not go back, the     *)
(* persisted floor makes a replay wait out the server's delay and no more  *)
(* than the cap.                                                           *)
THEOREM FloorsHold ==
    ASSUME NEW h \in Header, NEW t \in U64, NEW t2 \in U64
    PROVE  WaitsAcrossRestarts(h, t, t2)
<1> DEFINE asked == parse_retry_after_delta(h)
           floor == not_before_ms(t, asked)
           wait == replay_delay_ms(floor, t2)
<1>1. t \in Nat /\ t2 \in Nat /\ t <= U64_MAX /\ t2 <= U64_MAX
  BY WordIsNat DEF U64
<1> SUFFICES ASSUME t2 >= t
             PROVE  /\ IsHeard(h) =>
                           t2 + wait >= smaller(t + AskedFor(h), U64_MAX)
                    /\ 0 <= wait /\ wait <= RETRY_AFTER_CAP
  BY DEF WaitsAcrossRestarts
<1>2. asked \in {NoDelay} \cup 0 .. I64_MAX /\ NoDelay = -1
  BY DelayInWord
<1>3. CASE asked = NoDelay
  <2>1. floor = {}
    BY <1>3 DEF not_before_ms
  <2>2. wait = 0
    BY <2>1 DEF replay_delay_ms
  <2>3. ~IsHeard(h)
    BY <1>2, <1>3, DelayInWord, WordIsNat
  <2> QED BY <2>2, <2>3, WordIsNat
<1>4. CASE asked \in 0 .. I64_MAX
  <2>1. asked \in Nat /\ asked # NoDelay
    BY <1>2, <1>4, WordIsNat
  <2>2. floor = {retry_deadline_ms(t, asked)}
    BY <2>1 DEF not_before_ms
  <2>3. floor # {} /\ (CHOOSE y \in floor : TRUE) = retry_deadline_ms(t, asked)
    BY <2>2
  <2>4. wait = larger(retry_deadline_ms(t, asked) - t2, 0)
    BY <2>3 DEF replay_delay_ms, saturating_sub
  <2>5. retry_deadline_ms(t, asked) =
            smaller(t + smaller(asked, RETRY_AFTER_CAP), U64_MAX)
    BY DEF retry_deadline_ms, saturating
  <2>6. IsHeard(h) => AskedFor(h) = smaller(asked, RETRY_AFTER_CAP)
    BY DelayInWord DEF AskedFor
  <2> HIDE DEF asked, floor, wait
  <2>7. 0 <= wait /\ wait <= RETRY_AFTER_CAP
    BY <1>1, <2>1, <2>4, <2>5, WordIsNat DEF larger, smaller
  <2>8. t2 + wait >= smaller(t + smaller(asked, RETRY_AFTER_CAP), U64_MAX)
    BY <1>1, <2>1, <2>4, <2>5, WordIsNat DEF larger, smaller
  <2> QED BY <2>6, <2>7, <2>8
<1> QED BY <1>2, <1>3, <1>4

-----------------------------------------------------------------------------
(* The inputs.                                                             *)

Inputs ==
    /\ expected_status \in {200, 201} /\ resp \in Response
    /\ remaining \in U64 /\ rtt \in U64 /\ timeout \in U64 /\ max_rtt \in U64
    /\ header \in Header /\ product \in Float /\ max_delay \in Nat
    /\ now \in U64 /\ later \in U64

LEMMA InputsHold == Spec => []Inputs
<1>1. Init => Inputs
  <2>1. 0 \in U64
    BY WordIsNat DEF U64
  <2> QED BY <2>1 DEF Init, Inputs, Response, Header, Float
<1>2. ASSUME Inputs, [Next]_<<drawn, response, sample, throttle, answer, env>>
      PROVE  Inputs'
  <2>1. CASE Receive
    <3>1. resp' \in Response
      BY <2>1, StatusAssumption DEF Receive, Response, HttpResponse, Delays
    <3> QED BY <1>2, <2>1, <3>1 DEF Receive, Inputs, sample, throttle
  <2>2. CASE Sample
    BY <1>2, <2>2 DEF Sample, Inputs, response, throttle
  <2>3. CASE Throttle
    <3>1. /\ header' \in Header
          /\ product' \in Float /\ max_delay' \in Nat /\ now' \in U64 /\ later' \in U64
      BY <1>2, <2>3, WordIsNat DEF Throttle, Inputs, Header, Float
    <3> QED BY <1>2, <2>3, <3>1 DEF Throttle, Inputs, response, sample
  <2>4. CASE UNCHANGED <<response, sample, throttle>>
    BY <1>2, <2>4 DEF Inputs, response, sample, throttle
  <2> QED BY <1>2, <2>1, <2>2, <2>3, <2>4 DEF Next, Answer, Launch
<1> QED BY <1>1, <1>2, PTL DEF Spec

(* error.rs, client.rs: for every status and body, a receipt is a success, *)
(* a refusal ends the matter, an expiry leads to the event, and what says  *)
(* nothing keeps the record.                                               *)
THEOREM VerdictsAreAlwaysRead == Spec => []VerdictIsRead
<1>1. Inputs => VerdictIsRead
  BY VerdictsAreRead DEF Inputs, VerdictIsRead
<1> QED BY <1>1, InputsHold, PTL

(* client.rs: whatever is_settlement_retryable repeats, and runs out of    *)
(* attempts for, requires_durable_replay keeps.                            *)
THEOREM RetriesAlwaysStayDurable == Spec => []RetriesStayDurable
<1>1. Inputs => RetriesStayDurable
  BY RetriesAreKept DEF Inputs, RetriesStayDurable
<1> QED BY <1>1, InputsHold, PTL

(* heartbeat.rs, retry_reserve_ms: at any word size, for every lease,      *)
(* round trip and timeout of the word, saturated sums included.            *)
THEOREM ReserveAlwaysSuffices == Spec => []ReserveSuffices
<1>1. U64 \subseteq Nat
  BY WordIsNat DEF U64
<1>2. Inputs => ReserveSuffices
  BY <1>1, DelaysLeaveReserve, FailuresAffordRetry, AllowedRetriesFit
     DEF Inputs, ReserveSuffices
<1> QED BY <1>2, InputsHold, PTL

(* client.rs, retry.rs: for every header, backoff and clock reading.       *)
THEOREM RetryAfterIsAlwaysHonoured == Spec => []RetryAfterIsHonoured
<1>1. Inputs => RetryAfterIsHonoured
  BY InlineWaits, FloorsHold DEF Inputs, RetryAfterIsHonoured
<1> QED BY <1>1, InputsHold, PTL

-----------------------------------------------------------------------------
(* Bodies.  A set of JSON values is closed under taking components.        *)
IsJson(J) ==
    \A v \in J :
        /\ v = <<v[1], v[2]>>
        /\ v[1] \in {"object", "array"} =>
               /\ v[2] = [k \in DOMAIN v[2] |-> v[2][k]]
               /\ \A k \in DOMAIN v[2] : v[2][k] \in J

(* The types a body contains, from the innermost: what the schema accepts  *)
(* decodes to itself.                                                      *)
LEMMA AmountIsKept ==
    ASSUME NEW J, IsJson(J), NEW v \in J, NEW signed, is_amount(v, signed)
    PROVE  Amount(v) = v /\ TypeOf(v) = "object"
<1> DEFINE f == v[2]
           Field(key, x) == IF key = "unit" THEN Unit(x) ELSE I64(x)
           given == {key \in DOMAIN f : f[key] # Null}
           present == {"unit", "amount"} \cup ({} \cap given)
           fields == [key \in present |->
                         Field(key, IF key \in DOMAIN f THEN f[key] ELSE Missing)]
<1>1. /\ v = <<"object", f>> /\ f = [k \in DOMAIN f |-> f[k]]
      /\ DOMAIN f = {"unit", "amount"}
      /\ is_known_unit(f["unit"]) /\ as_i64(f["amount"])
      BY DEF is_amount, IsObject, TypeOf, IsJson, Some, AMOUNT_FIELDS
<1>2. Amount(v) = Decoded(Object(fields), \A key \in present : fields[key] # Failed)
      BY <1>1 DEF Amount, Struct, TypeOf
<1>3. present = DOMAIN f
      BY <1>1
<1>4. fields["unit"] = f["unit"] /\ f["unit"] # Failed
      BY <1>1 DEF is_known_unit, Unit, Enum, String, Decoded, IsText, TypeOf, Failed
<1>5. fields["amount"] = f["amount"] /\ f["amount"] # Failed
      BY <1>1 DEF as_i64, I64, Decoded, Number, Failed
<1>6. fields = f
      BY <1>1, <1>3, <1>4, <1>5
<1> QED BY <1>1, <1>2, <1>3, <1>4, <1>5, <1>6 DEF Decoded, Object, TypeOf

LEMMA TextsAreKept ==
    ASSUME NEW J, IsJson(J), NEW v \in J, NEW too_long, is_string_array(v, too_long)
    PROVE  Vec(v, String) = v /\ TypeOf(v) = "array"
<1> DEFINE items == [i \in DOMAIN v[2] |-> String(v[2][i])]
<1>1. v = <<"array", v[2]>> /\ v[2] = [i \in DOMAIN v[2] |-> v[2][i]]
      BY DEF is_string_array, TypeOf, IsJson
<1>2. \A i \in DOMAIN v[2] : items[i] = v[2][i] /\ v[2][i] # Failed
      BY DEF is_string_array, String, Decoded, IsText, TypeOf, Failed
<1>3. items = v[2]
      BY <1>1, <1>2
<1>4. Vec(v, String) = Decoded(List(items), \A i \in DOMAIN items : items[i] # Failed)
      BY <1>1 DEF Vec, TypeOf
<1> QED BY <1>1, <1>2, <1>3, <1>4 DEF Decoded, List, TypeOf

LEMMA EvidenceIsKept ==
    ASSUME NEW J, IsJson(J), NEW v \in J, is_evidence_ref(v)
    PROVE  CyclesEvidenceRef(v) = v /\ TypeOf(v) = "object"
<1> DEFINE f == v[2]
           given == {key \in DOMAIN f : f[key] # Null}
           present == {"evidence_id", "cycles_evidence_url"} \cup ({} \cap given)
           fields == [key \in present |->
                         String(IF key \in DOMAIN f THEN f[key] ELSE Missing)]
<1>1. /\ v = <<"object", f>> /\ f = [k \in DOMAIN f |-> f[k]]
      /\ DOMAIN f = {"evidence_id", "cycles_evidence_url"}
      /\ f["evidence_id"] = Text("digest") /\ f["cycles_evidence_url"] = Text("url")
      BY DEF is_evidence_ref, IsObject, TypeOf, IsJson, Some, EVIDENCE_FIELDS
<1>2. CyclesEvidenceRef(v) = Decoded(Object(fields), \A key \in present : fields[key] # Failed)
      BY <1>1 DEF CyclesEvidenceRef, Struct, TypeOf
<1>3. present = DOMAIN f
      BY <1>1
<1>4. \A key \in DOMAIN f : fields[key] = f[key] /\ f[key] # Failed
      BY <1>1 DEF String, Decoded, IsText, TypeOf, Failed, Text
<1>5. fields = f
      BY <1>1, <1>3, <1>4
<1> QED BY <1>1, <1>2, <1>3, <1>4, <1>5 DEF Decoded, Object, TypeOf

LEMMA CapsAreKept ==
    ASSUME NEW J, IsJson(J), NEW v \in J, is_caps(v)
    PROVE  Caps(v) = v /\ TypeOf(v) = "object"
<1> DEFINE f == v[2]
           texts == {"tool_allowlist", "tool_denylist"}
           numbers == {"max_tokens", "max_steps_remaining", "cooldown_ms"}
           Field(key, x) == IF key \in texts THEN Vec(x, String) ELSE I64(x)
           option == {"max_tokens", "max_steps_remaining", "tool_allowlist",
                      "tool_denylist", "cooldown_ms"}
           given == {key \in DOMAIN f : f[key] # Null}
           present == {} \cup (option \cap given)
           fields == [key \in present |->
                         Field(key, IF key \in DOMAIN f THEN f[key] ELSE Missing)]
<1>1. /\ v = <<"object", f>> /\ f = [k \in DOMAIN f |-> f[k]]
      /\ \A k \in DOMAIN f : f[k] \in J
      /\ DOMAIN f \subseteq option
      /\ \A key \in numbers : key \in DOMAIN f => f[key] = Number("int64")
      /\ \A key \in texts : key \in DOMAIN f => is_string_array(f[key], Over256)
      BY DEF is_caps, IsObject, TypeOf, IsJson, NoneOr, is_nonnegative_int64,
             has_exact_or_optional_fields, CAPS_FIELDS
<1>2. Caps(v) = Decoded(Object(fields), \A key \in present : fields[key] # Failed)
      BY <1>1 DEF Caps, Struct, TypeOf
<1>3. \A key \in DOMAIN f :
          /\ Field(key, f[key]) = f[key]
          /\ TypeOf(f[key]) \in {"array", "number"}
  <2> SUFFICES ASSUME NEW key \in DOMAIN f
               PROVE  /\ Field(key, f[key]) = f[key]
                      /\ TypeOf(f[key]) \in {"array", "number"}
      OBVIOUS
  <2>1. CASE key \in texts
        BY <1>1, <2>1, TextsAreKept
  <2>2. CASE key \in numbers
        BY <1>1, <2>2 DEF I64, Decoded, as_i64, Number, TypeOf
  <2> QED BY <1>1, <2>1, <2>2
<1> HIDE DEF Field
<1>4. present = DOMAIN f
      BY <1>1, <1>3 DEF Null, TypeOf
<1>5. \A key \in DOMAIN f : fields[key] = f[key] /\ f[key] # Failed
      BY <1>3, <1>4 DEF Failed, TypeOf
<1>6. fields = f
      BY <1>1, <1>4, <1>5
<1> QED BY <1>1, <1>2, <1>4, <1>5, <1>6 DEF Decoded, Object, TypeOf

LEMMA BalanceIsKept ==
    ASSUME NEW J, IsJson(J), NEW v \in J, is_balance(v)
    PROVE  Balance(v) = v /\ TypeOf(v) = "object"
<1> DEFINE f == v[2]
           texts == {"scope", "scope_path"}
           amounts == {"remaining", "reserved", "spent", "allocated", "debt", "overdraft_limit"}
           Field(key, x) == CASE key \in texts -> String(x)
                              [] key = "is_over_limit" -> Boolean(x)
                              [] OTHER -> Amount(x)
           plain == {"scope", "scope_path", "remaining"}
           option == {"reserved", "spent", "allocated", "debt", "overdraft_limit",
                      "is_over_limit"}
           given == {key \in DOMAIN f : f[key] # Null}
           present == plain \cup (option \cap given)
           fields == [key \in present |->
                         Field(key, IF key \in DOMAIN f THEN f[key] ELSE Missing)]
<1>1. /\ v = <<"object", f>> /\ f = [k \in DOMAIN f |-> f[k]]
      /\ \A k \in DOMAIN f : f[k] \in J
      /\ plain \subseteq DOMAIN f /\ DOMAIN f \subseteq plain \cup option
      BY DEF is_balance, IsObject, TypeOf, IsJson, Some, NoneOr,
             has_exact_or_optional_fields, BALANCE_FIELDS
<1>2. /\ \A key \in texts : IsText(f[key])
      /\ \A key \in amounts : key \in DOMAIN f => \E signed \in BOOLEAN : is_amount(f[key], signed)
      /\ "is_over_limit" \in DOMAIN f => TypeOf(f["is_over_limit"]) = "boolean"
      BY DEF is_balance, IsObject, Some, NoneOr, SignedAmount, UnsignedAmount
<1>3. Balance(v) = Decoded(Object(fields), \A key \in present : fields[key] # Failed)
      BY <1>1 DEF Balance, Struct, TypeOf
<1>4. \A key \in DOMAIN f :
          /\ Field(key, f[key]) = f[key]
          /\ TypeOf(f[key]) \in {"string", "boolean", "object"}
  <2> SUFFICES ASSUME NEW key \in DOMAIN f
               PROVE  /\ Field(key, f[key]) = f[key]
                      /\ TypeOf(f[key]) \in {"string", "boolean", "object"}
      OBVIOUS
  <2>1. CASE key \in texts
        BY <1>2, <2>1 DEF String, Decoded, IsText
  <2>2. CASE key = "is_over_limit"
        BY <1>2, <2>2 DEF Boolean, Decoded
  <2>3. CASE key \in amounts
    <3>1. Field(key, f[key]) = Amount(f[key])
          BY <2>3
    <3> QED BY <1>1, <1>2, <2>3, <3>1, AmountIsKept
  <2> QED BY <1>1, <2>1, <2>2, <2>3
<1> HIDE DEF Field
<1>5. present = DOMAIN f
      BY <1>1, <1>4 DEF Null, TypeOf
<1>6. \A key \in DOMAIN f : fields[key] = f[key] /\ f[key] # Failed
      BY <1>4, <1>5 DEF Failed, TypeOf
<1>7. fields = f
      BY <1>1, <1>5, <1>6
<1> QED BY <1>1, <1>3, <1>5, <1>6, <1>7 DEF Decoded, Object, TypeOf

LEMMA BalancesAreKept ==
    ASSUME NEW J, IsJson(J), NEW v \in J, is_balances(v)
    PROVE  Vec(v, Balance) = v /\ TypeOf(v) = "array"
<1> DEFINE items == [i \in DOMAIN v[2] |-> Balance(v[2][i])]
<1>1. /\ v = <<"array", v[2]>> /\ v[2] = [i \in DOMAIN v[2] |-> v[2][i]]
      /\ \A i \in DOMAIN v[2] : v[2][i] \in J /\ is_balance(v[2][i])
      BY DEF is_balances, TypeOf, IsJson
<1>2. \A i \in DOMAIN v[2] : items[i] = v[2][i] /\ v[2][i] # Failed
      BY <1>1, BalanceIsKept DEF TypeOf, Failed
<1>3. items = v[2]
      BY <1>1, <1>2
<1>4. Vec(v, Balance) = Decoded(List(items), \A i \in DOMAIN items : items[i] # Failed)
      BY <1>1 DEF Vec, TypeOf
<1> QED BY <1>1, <1>2, <1>3, <1>4 DEF Decoded, List, TypeOf

(* What an accepted field is decoded to, by the kind of its schema.        *)
LEMMA ScalarsAreKept ==
    ASSUME NEW v
    PROVE  /\ IsText(v) => String(v) = v /\ TypeOf(v) = "string"
           /\ as_u64(v) => U64Value(v) = v /\ TypeOf(v) = "number"
           /\ is_nonnegative_int64(v) => as_u64(v)
           /\ \A names : IsText(v) /\ v[2] \in names => Enum(v, names) = v
BY DEF IsText, String, Decoded, TypeOf, as_u64, U64Value, Number, is_nonnegative_int64, Enum

Kinds == {"string", "number", "array", "object"}

LEMMA CreateIsKept ==
    ASSUME NEW J, IsJson(J), NEW v \in J, is_schema_valid_create_body(v)
    PROVE  ReservationCreateResponse(v) = Object([key \in DOMAIN v[2] |-> v[2][key]])
<1> DEFINE f == v[2]
           texts == {"reservation_id", "scope_path", "reason_code"}
           numbers == {"expires_at_ms", "remaining_ttl_ms", "retry_after_ms"}
           Field(key, x) ==
               CASE key = "decision" -> Enum(x, {"ALLOW", "ALLOW_WITH_CAPS", "DENY"})
                 [] key = "affected_scopes" ->
                        IF x = Missing THEN List(<<>>) ELSE Vec(x, String)
                 [] key \in numbers -> U64Value(x)
                 [] key = "reserved" -> Amount(x)
                 [] key = "caps" -> Caps(x)
                 [] key = "balances" -> Vec(x, Balance)
                 [] key = "cycles_evidence" -> CyclesEvidenceRef(x)
                 [] OTHER -> String(x)
           plain == {"decision", "affected_scopes"}
           option == {"reservation_id", "expires_at_ms", "remaining_ttl_ms", "scope_path",
                      "reserved", "caps", "reason_code", "retry_after_ms", "balances",
                      "cycles_evidence"}
           given == {key \in DOMAIN f : f[key] # Null}
           present == plain \cup (option \cap given)
           fields == [key \in present |->
                         Field(key, IF key \in DOMAIN f THEN f[key] ELSE Missing)]
<1>1. /\ TypeOf(v) = "object" /\ \A k \in DOMAIN f : f[k] \in J
      /\ plain \subseteq DOMAIN f /\ DOMAIN f \subseteq plain \cup option
      BY DEF is_schema_valid_create_body, IsObject, TypeOf, IsJson, Some,
             has_exact_or_optional_fields, CREATE_RESPONSE_FIELDS
<1>2. /\ f["decision"] \in {Text("ALLOW"), Text("ALLOW_WITH_CAPS"), Text("DENY")}
      /\ is_string_array(f["affected_scopes"], {})
      /\ \A key \in texts : key \in DOMAIN f => IsText(f[key])
      /\ \A key \in numbers : key \in DOMAIN f => as_u64(f[key])
      /\ "reserved" \in DOMAIN f => is_amount(f["reserved"], FALSE)
      /\ "caps" \in DOMAIN f => is_caps(f["caps"])
      /\ "balances" \in DOMAIN f => is_balances(f["balances"])
      /\ "cycles_evidence" \in DOMAIN f => is_evidence_ref(f["cycles_evidence"])
      BY ScalarsAreKept
         DEF is_schema_valid_create_body, IsObject, Some, NoneOr, UnsignedAmount
<1>3. ReservationCreateResponse(v)
          = Decoded(Object(fields), \A key \in present : fields[key] # Failed)
      BY <1>1 DEF ReservationCreateResponse, Struct
<1>4. ASSUME NEW key \in DOMAIN f
      PROVE  Field(key, f[key]) = f[key] /\ TypeOf(f[key]) \in Kinds
  <2>1. CASE key = "decision"
        BY <1>2, <2>1 DEF Enum, String, Decoded, IsText, Text, TypeOf, Kinds
  <2>2. CASE key = "affected_scopes"
    <3>1. Vec(f[key], String) = f[key] /\ TypeOf(f[key]) = "array"
          BY <1>1, <1>2, <2>2, TextsAreKept
    <3>2. f[key] # Missing
          BY <3>1 DEF TypeOf, Missing
    <3> QED BY <2>2, <3>1, <3>2 DEF Kinds
  <2>3. CASE key \in texts
        BY <1>2, <2>3, ScalarsAreKept DEF Kinds
  <2>4. CASE key \in numbers
        BY <1>2, <2>4, ScalarsAreKept DEF Kinds
  <2>5. CASE key = "reserved"
        BY <1>1, <1>2, <2>5, AmountIsKept DEF Kinds
  <2>6. CASE key = "caps"
        BY <1>1, <1>2, <2>6, CapsAreKept DEF Kinds
  <2>7. CASE key = "balances"
        BY <1>1, <1>2, <2>7, BalancesAreKept DEF Kinds
  <2>8. CASE key = "cycles_evidence"
        BY <1>1, <1>2, <2>8, EvidenceIsKept DEF Kinds
  <2> QED BY <1>1, <2>1, <2>2, <2>3, <2>4, <2>5, <2>6, <2>7, <2>8
<1> HIDE DEF Field
<1>5. present = DOMAIN f
      BY <1>1, <1>4 DEF Null, TypeOf, Kinds
<1>6. \A key \in DOMAIN f : fields[key] = f[key] /\ f[key] # Failed
      BY <1>4, <1>5 DEF Failed, TypeOf, Kinds
<1>7. fields = [key \in DOMAIN f |-> f[key]]
      BY <1>5, <1>6
<1> QED BY <1>3, <1>5, <1>6, <1>7 DEF Decoded

LEMMA ExtendIsKept ==
    ASSUME NEW J, IsJson(J), NEW v \in J, is_schema_valid_extend_body(v)
    PROVE  ExtendResponse(v) = Object([key \in DOMAIN v[2] |-> v[2][key]])
<1> DEFINE f == v[2]
           Field(key, x) == CASE key = "status" -> Enum(x, {"ACTIVE"})
                              [] key = "balances" -> Vec(x, Balance)
                              [] OTHER -> U64Value(x)
           plain == {"status", "expires_at_ms"}
           option == {"remaining_ttl_ms", "balances"}
           given == {key \in DOMAIN f : f[key] # Null}
           present == plain \cup (option \cap given)
           fields == [key \in present |->
                         Field(key, IF key \in DOMAIN f THEN f[key] ELSE Missing)]
<1>1. /\ TypeOf(v) = "object" /\ \A k \in DOMAIN f : f[k] \in J
      /\ plain \subseteq DOMAIN f /\ DOMAIN f \subseteq plain \cup option
      BY DEF is_schema_valid_extend_body, IsObject, TypeOf, IsJson, Some,
             has_exact_or_optional_fields, EXTEND_RESPONSE_FIELDS
<1>2. /\ f["status"] = Text("ACTIVE")
      /\ as_u64(f["expires_at_ms"])
      /\ "remaining_ttl_ms" \in DOMAIN f => as_u64(f["remaining_ttl_ms"])
      /\ "balances" \in DOMAIN f => is_balances(f["balances"])
      BY ScalarsAreKept DEF is_schema_valid_extend_body, IsObject, Some, NoneOr
<1>3. ExtendResponse(v) = Decoded(Object(fields), \A key \in present : fields[key] # Failed)
      BY <1>1 DEF ExtendResponse, Struct
<1>4. ASSUME NEW key \in DOMAIN f
      PROVE  Field(key, f[key]) = f[key] /\ TypeOf(f[key]) \in Kinds
  <2>1. CASE key = "status"
        BY <1>2, <2>1 DEF Enum, String, Decoded, IsText, Text, TypeOf, Kinds
  <2>2. CASE key \in {"expires_at_ms", "remaining_ttl_ms"}
        BY <1>2, <2>2, ScalarsAreKept DEF Kinds
  <2>3. CASE key = "balances"
        BY <1>1, <1>2, <2>3, BalancesAreKept DEF Kinds
  <2> QED BY <1>1, <2>1, <2>2, <2>3
<1> HIDE DEF Field
<1>5. present = DOMAIN f
      BY <1>1, <1>4 DEF Null, TypeOf, Kinds
<1>6. \A key \in DOMAIN f : fields[key] = f[key] /\ f[key] # Failed
      BY <1>4, <1>5 DEF Failed, TypeOf, Kinds
<1>7. fields = [key \in DOMAIN f |-> f[key]]
      BY <1>5, <1>6
<1> QED BY <1>3, <1>5, <1>6, <1>7 DEF Decoded

(* All but the evidence, which has no place in the type.                   *)
LEMMA CommitIsKept ==
    ASSUME NEW J, IsJson(J), NEW v \in J, is_schema_valid_commit_body(v)
    PROVE  CommitResponse(v)
               = Object([key \in DOMAIN v[2] \ {"cycles_evidence"} |-> v[2][key]])
<1> DEFINE f == v[2]
           Field(key, x) == CASE key = "status" -> CommitStatus(x)
                              [] key = "balances" -> Vec(x, Balance)
                              [] OTHER -> Amount(x)
           plain == {"status", "charged"}
           option == {"released", "balances"}
           typed == DOMAIN f \ {"cycles_evidence"}
           given == {key \in DOMAIN f : f[key] # Null}
           present == plain \cup (option \cap given)
           fields == [key \in present |->
                         Field(key, IF key \in DOMAIN f THEN f[key] ELSE Missing)]
<1>1. /\ TypeOf(v) = "object" /\ \A k \in DOMAIN f : f[k] \in J
      /\ plain \subseteq DOMAIN f /\ typed \subseteq plain \cup option
      BY DEF is_schema_valid_commit_body, IsObject, TypeOf, IsJson, Some,
             has_exact_or_optional_fields, COMMIT_RESPONSE_FIELDS
<1>2. /\ f["status"] = Text("COMMITTED")
      /\ is_amount(f["charged"], FALSE)
      /\ "released" \in DOMAIN f => is_amount(f["released"], FALSE)
      /\ "balances" \in DOMAIN f => is_balances(f["balances"])
      BY DEF is_schema_valid_commit_body, IsObject, Some, NoneOr, UnsignedAmount
<1>3. CommitResponse(v) = Decoded(Object(fields), \A key \in present : fields[key] # Failed)
      BY <1>1 DEF CommitResponse, Struct
<1>4. ASSUME NEW key \in typed
      PROVE  Field(key, f[key]) = f[key] /\ TypeOf(f[key]) \in Kinds
  <2>1. CASE key = "status"
        BY <1>2, <2>1 DEF CommitStatus, Enum, String, Decoded, IsText, Text, TypeOf, Kinds
  <2>2. CASE key \in {"charged", "released"}
        BY <1>1, <1>2, <2>2, AmountIsKept DEF Kinds
  <2>3. CASE key = "balances"
        BY <1>1, <1>2, <2>3, BalancesAreKept DEF Kinds
  <2> QED BY <1>1, <2>1, <2>2, <2>3
<1> HIDE DEF Field
<1>5. present = typed
      BY <1>1, <1>4 DEF Null, TypeOf, Kinds
<1>6. \A key \in typed : fields[key] = f[key] /\ f[key] # Failed
      BY <1>4, <1>5 DEF Failed, TypeOf, Kinds
<1>7. fields = [key \in typed |-> f[key]]
      BY <1>5, <1>6
<1> QED BY <1>3, <1>5, <1>6, <1>7 DEF Decoded

LEMMA EventIsKept ==
    ASSUME NEW J, IsJson(J), NEW v \in J, is_schema_valid_event_body(v)
    PROVE  /\ EventCreateResponse(v) = Object([key \in DOMAIN v[2] |-> v[2][key]])
           /\ "event_id" \in DOMAIN v[2]
<1> DEFINE f == v[2]
           Field(key, x) == CASE key = "status" -> Enum(x, {"APPLIED"})
                              [] key = "event_id" -> String(x)
                              [] key = "charged" -> Amount(x)
                              [] OTHER -> Vec(x, Balance)
           plain == {"status", "event_id"}
           option == {"charged", "balances"}
           given == {key \in DOMAIN f : f[key] # Null}
           present == plain \cup (option \cap given)
           fields == [key \in present |->
                         Field(key, IF key \in DOMAIN f THEN f[key] ELSE Missing)]
<1>1. /\ TypeOf(v) = "object" /\ \A k \in DOMAIN f : f[k] \in J
      /\ plain \subseteq DOMAIN f /\ DOMAIN f \subseteq plain \cup option
      BY DEF is_schema_valid_event_body, IsObject, TypeOf, IsJson, Some,
             has_exact_or_optional_fields, EVENT_RESPONSE_FIELDS
<1>2. /\ f["status"] = Text("APPLIED")
      /\ IsText(f["event_id"])
      /\ "charged" \in DOMAIN f => is_amount(f["charged"], FALSE)
      /\ "balances" \in DOMAIN f => is_balances(f["balances"])
      BY DEF is_schema_valid_event_body, IsObject, Some, NoneOr, UnsignedAmount
<1>3. EventCreateResponse(v)
          = Decoded(Object(fields), \A key \in present : fields[key] # Failed)
      BY <1>1 DEF EventCreateResponse, Struct
<1>4. ASSUME NEW key \in DOMAIN f
      PROVE  Field(key, f[key]) = f[key] /\ TypeOf(f[key]) \in Kinds
  <2>1. CASE key = "status"
        BY <1>2, <2>1 DEF Enum, String, Decoded, IsText, Text, TypeOf, Kinds
  <2>2. CASE key = "event_id"
        BY <1>2, <2>2, ScalarsAreKept DEF Kinds
  <2>3. CASE key = "charged"
        BY <1>1, <1>2, <2>3, AmountIsKept DEF Kinds
  <2>4. CASE key = "balances"
        BY <1>1, <1>2, <2>4, BalancesAreKept DEF Kinds
  <2> QED BY <1>1, <2>1, <2>2, <2>3, <2>4
<1> HIDE DEF Field
<1>5. present = DOMAIN f
      BY <1>1, <1>4 DEF Null, TypeOf, Kinds
<1>6. \A key \in DOMAIN f : fields[key] = f[key] /\ f[key] # Failed
      BY <1>4, <1>5 DEF Failed, TypeOf, Kinds
<1>7. fields = [key \in DOMAIN f |-> f[key]]
      BY <1>5, <1>6
<1> QED BY <1>1, <1>3, <1>5, <1>6, <1>7 DEF Decoded

(* client.rs, the is_schema_valid_... predicates, against models/: for     *)
(* every body whatever, of any size, that is a JSON value.                 *)
THEOREM AcceptedBodiesAreKept ==
    ASSUME NEW J, IsJson(J), NEW v \in J, NEW c \in Calls
    PROVE  LosesNothing(c, v)
<1> SUFFICES ASSUME SchemaValid(c, v)
             PROVE  TypedResponse(c, v)
                        = Object([key \in DOMAIN v[2] \ Untyped(c) |-> v[2][key]])
    BY DEF LosesNothing
<1>1. CASE c = "create"
      BY <1>1, CreateIsKept DEF SchemaValid, TypedResponse, Untyped
<1>2. CASE c = "extend"
      BY <1>2, ExtendIsKept DEF SchemaValid, TypedResponse, Untyped
<1>3. CASE c = "commit"
      BY <1>3, CommitIsKept DEF SchemaValid, TypedResponse, Untyped
<1>4. CASE c = "event"
      BY <1>4, EventIsKept DEF SchemaValid, TypedResponse, Untyped
<1> QED BY <1>1, <1>2, <1>3, <1>4 DEF Calls

LEMMA EventIsNamed ==
    ASSUME NEW J, IsJson(J), NEW v \in J, NEW actual, is_schema_valid_event_body(v)
    PROVE  LET decoded == Recovered(EventCreateResponse(v), actual)
           IN  /\ ClaimsRecovery(decoded) /\ NamesEvent(decoded)
               /\ "charged" \in DOMAIN v[2] => decoded[2]["charged"] = v[2]["charged"]
<1> DEFINE f == [key \in DOMAIN v[2] |-> v[2][key]]
           charged == IF "charged" \in DOMAIN f THEN f["charged"] ELSE actual
           known == {"status", "charged", "recovered_via_event"}
                        \cup ({"balances"} \cap DOMAIN f)
           g == [key \in known |->
                    CASE key = "status" -> Text("RECOVERED_VIA_EVENT")
                      [] key = "charged" -> charged
                      [] key = "recovered_via_event" -> f["event_id"]
                      [] OTHER -> f[key]]
<1>1. EventCreateResponse(v) = Object(f)
      BY EventIsKept
<1>2. Recovered(EventCreateResponse(v), actual) = Object(g)
      BY <1>1 DEF Recovered, Object
<1>3. /\ {"status", "charged", "recovered_via_event"} \subseteq DOMAIN g
      /\ g["status"] = Text("RECOVERED_VIA_EVENT") /\ g["charged"] = charged
      OBVIOUS
<1> HIDE DEF g
<1> QED BY <1>2, <1>3 DEF ClaimsRecovery, NamesEvent, Object, Failed

LEMMA CommitNeverClaims ==
    ASSUME NEW value
    PROVE  ~ClaimsRecovery(CommitResponse(value)) /\ ~NamesEvent(CommitResponse(value))
<1> DEFINE plain == {"status", "charged"}
           option == {"released", "balances"}
           Field(key, v) == CASE key = "status" -> CommitStatus(v)
                             [] key = "balances" -> Vec(v, Balance)
                             [] OTHER -> Amount(v)
           given == {key \in DOMAIN value[2] : value[2][key] # Null}
           present == plain \cup (option \cap given)
           fields == [key \in present |->
                     Field(key, IF key \in DOMAIN value[2] THEN value[2][key] ELSE Missing)]
<1>1. CommitResponse(value) = IF TypeOf(value) # "object" THEN Failed
                              ELSE Decoded(Object(fields), \A key \in present : fields[key] # Failed)
      BY DEF CommitResponse, Struct
<1>2. "status" \in present /\ "recovered_via_event" \notin present
      OBVIOUS
<1>3. fields["status"] # Text("RECOVERED_VIA_EVENT")
  <2>1. \E v : fields["status"] = CommitStatus(v)
        BY <1>2
  <2> QED BY <2>1 DEF CommitStatus, Enum, String, Decoded, Text, IsText, TypeOf, Failed
<1>4. DOMAIN fields = present /\ Object(fields)[2] = fields
      BY DEF Object
<1> QED BY <1>1, <1>2, <1>3, <1>4 DEF ClaimsRecovery, NamesEvent, Decoded, Failed

(* enums.rs, response.rs, guard.rs: whatever body answers a commit, its    *)
(* response claims no recovery; the one made for an applied event does,    *)
(* names the event, and charges what the server says it charged.           *)
THEOREM RecoveriesAreOurs ==
    ASSUME NEW J, IsJson(J), NEW v \in J, NEW c \in Calls, NEW actual
    PROVE  RecoveryIsOurs(c, v, actual)
BY CommitNeverClaims, EventIsNamed DEF RecoveryIsOurs

(* The bodies of MCFunctions are such values: one layer of arrays and      *)
(* objects upon another, scalars at the bottom.                            *)
Contents ==
    {0, TRUE, "negative", "int64", "uint64", "fraction", "ALLOW", "ALLOW_WITH_CAPS",
     "DENY", "ACTIVE", "COMMITTED", "RECOVERED_VIA_EVENT", "APPLIED", "TOKENS", "CREDITS",
     "digest", "url", "text", "medium", "long"}
Leaves == {"null", "boolean", "number", "string"} \X Contents

Keys ==
    CREATE_RESPONSE_FIELDS \cup EXTEND_RESPONSE_FIELDS \cup COMMIT_RESPONSE_FIELDS
      \cup EVENT_RESPONSE_FIELDS \cup AMOUNT_FIELDS \cup CAPS_FIELDS
      \cup BALANCE_FIELDS \cup EVIDENCE_FIELDS \cup {"unknown"}
Objects(S) == {<<"object", f>> : f \in UNION {[K -> S] : K \in SUBSET Keys}}
Layer(S) == S \cup {<<"array", s>> : s \in Seq(S)} \cup Objects(S)

Layer1 == Layer(Leaves)
Layer2 == Layer(Layer1)
Layer3 == Layer(Layer2)
Layer4 == Layer(Layer3)
Bodies == Layer(Layer4)

LEMMA LayersAreJson ==
    ASSUME NEW S, IsJson(S)
    PROVE  IsJson(Layer(S))
<1> SUFFICES ASSUME NEW v \in Layer(S)
             PROVE  /\ v = <<v[1], v[2]>>
                    /\ v[1] \in {"object", "array"} =>
                           /\ v[2] = [k \in DOMAIN v[2] |-> v[2][k]]
                           /\ \A k \in DOMAIN v[2] : v[2][k] \in Layer(S)
    BY DEF IsJson
<1>1. CASE v \in S
  <2>1. S \subseteq Layer(S)
        BY DEF Layer
  <2> QED BY <1>1, <2>1 DEF IsJson
<1>2. CASE v \in {<<"array", s>> : s \in Seq(S)}
  <2>1. PICK s \in Seq(S) : v = <<"array", s>>
        BY <1>2
  <2> QED BY <2>1 DEF Layer
<1>3. CASE v \in Objects(S)
  <2>1. PICK K \in SUBSET Keys : \E f \in [K -> S] : v = <<"object", f>>
        BY <1>3 DEF Objects
  <2>2. PICK f \in [K -> S] : v = <<"object", f>>
        BY <2>1
  <2> QED BY <2>2 DEF Layer
<1> QED BY <1>1, <1>2, <1>3 DEF Layer

LEMMA BodiesAreJson == IsJson(Bodies)
<1>1. IsJson(Leaves)
      BY DEF IsJson, Leaves
<1> QED BY <1>1, LayersAreJson DEF Layer1, Layer2, Layer3, Layer4, Bodies

LEMMA LayersGrow ==
    /\ Leaves \subseteq Layer1 /\ Layer1 \subseteq Layer2 /\ Layer2 \subseteq Layer3
    /\ Layer3 \subseteq Layer4 /\ Layer4 \subseteq Bodies
BY DEF Layer, Layer1, Layer2, Layer3, Layer4, Bodies

LEMMA ObjectInLayer ==
    ASSUME NEW S, NEW K \in SUBSET Keys, NEW f \in [K -> S]
    PROVE  Object(f) \in Layer(S)
BY DEF Layer, Objects, Object

LEMMA ListsInLayer ==
    ASSUME NEW S
    PROVE  /\ List(<<>>) \in Layer(S)
           /\ \A v \in S : List(<<v>>) \in Layer(S)
           /\ \A v, w \in S : List(<<v, w>>) \in Layer(S)
<1>1. <<>> \in Seq(S) /\ (\A v \in S : <<v>> \in Seq(S)) /\ (\A v, w \in S : <<v, w>> \in Seq(S))
      OBVIOUS
<1> QED BY <1>1 DEF Layer, List

LEMMA DisturbedInLayer ==
    ASSUME NEW S, NEW K \in SUBSET Keys, NEW f \in [K -> S], NEW values \in SUBSET S
    PROVE  Disturbed(f, values) \subseteq Layer(S)
<1>1. \A k \in DOMAIN f : Object(Without(f, k)) \in Layer(S)
  <2> SUFFICES ASSUME NEW k \in K PROVE Object(Without(f, k)) \in Layer(S)
      OBVIOUS
  <2>1. Without(f, k) \in [K \ {k} -> S]
        BY DEF Without
  <2> QED BY <2>1, ObjectInLayer
<1>2. \A k \in DOMAIN f \cup {"unknown"}, v \in values : Object(Put(f, k, v)) \in Layer(S)
  <2> SUFFICES ASSUME NEW k \in K \cup {"unknown"}, NEW v \in values
               PROVE  Object(Put(f, k, v)) \in Layer(S)
      OBVIOUS
  <2>1. K \cup {k} \in SUBSET Keys
        BY DEF Keys
  <2>2. Put(f, k, v) \in [K \cup {k} -> S]
        BY DEF Put
  <2> QED BY <2>1, <2>2, ObjectInLayer
<1>3. {Object(Put(f, k, v)) : k \in DOMAIN f \cup {"unknown"}, v \in values} \subseteq Layer(S)
      BY <1>2
<1>4. {Object(Without(f, k)) : k \in DOMAIN f} \subseteq Layer(S)
      BY <1>1
<1>5. Object(f) \in Layer(S)
      BY ObjectInLayer
<1> QED BY <1>3, <1>4, <1>5 DEF Disturbed

LEMMA ScalarsInLayer ==
    /\ Scalars \subseteq Layer1
    /\ \A c \in Contents : Text(c) \in Leaves /\ Number(c) \in Leaves
    /\ Bool \in Leaves /\ Null \in Leaves
<1>1. /\ \A c \in Contents : Text(c) \in Leaves /\ Number(c) \in Leaves
      /\ Bool \in Leaves /\ Null \in Leaves
  <2>1. \A c \in Contents : Text(c) \in Leaves /\ Number(c) \in Leaves
        BY DEF Text, Number, Leaves
  <2>2. 0 \in Contents /\ TRUE \in Contents
        BY DEF Contents
  <2>3. Bool \in Leaves /\ Null \in Leaves
        BY <2>2 DEF Bool, Null, Leaves
  <2> QED BY <2>1, <2>3
<1>2. List(<<>>) \in Layer1
      BY ListsInLayer DEF Layer1
<1>3. /\ {Number(c) : c \in {"negative", "int64", "uint64", "fraction"}} \subseteq Leaves
      /\ {Text(t) : t \in {"ALLOW", "ALLOW_WITH_CAPS", "DENY", "ACTIVE", "COMMITTED",
                             "RECOVERED_VIA_EVENT", "APPLIED", "TOKENS", "digest", "url",
                             "text", "medium", "long"}} \subseteq Leaves
      BY <1>1 DEF Contents
<1> QED BY <1>1, <1>2, <1>3, LayersGrow DEF Scalars

LEMMA AmountsInLayer ==
    /\ Amounts \subseteq Layer2 /\ SomeAmounts \subseteq Layer1
    /\ \A c \in Contents : Tokens(c) \in Layer1
<1>1. ASSUME NEW u \in Contents, NEW a \in Contents
      PROVE  Of(Text(u), Number(a)) \in Layer1
  <2>1. [unit |-> Text(u), amount |-> Number(a)] \in [{"unit", "amount"} -> Leaves]
        BY ScalarsInLayer
  <2>2. {"unit", "amount"} \in SUBSET Keys
        BY DEF Keys, AMOUNT_FIELDS
  <2> QED BY <2>1, <2>2, ObjectInLayer DEF Of, Layer1
<1>2. Tokens("int64")[2] \in [{"unit", "amount"} -> Layer1]
  <2>1. Text("TOKENS") \in Layer1 /\ Number("int64") \in Layer1
        BY ScalarsInLayer, LayersGrow DEF Contents
  <2> QED BY <2>1 DEF Tokens, Of, Object
<1>3. Disturbed(Tokens("int64")[2], Scalars) \subseteq Layer2
  <2>1. {"unit", "amount"} \in SUBSET Keys
        BY DEF Keys, AMOUNT_FIELDS
  <2> QED BY <1>2, <2>1, ScalarsInLayer, DisturbedInLayer DEF Layer2
<1> QED BY <1>1, <1>3, LayersGrow DEF Amounts, SomeAmounts, Tokens, Contents

LEMMA ListsInLayers == Lists \subseteq Layer2 /\ SomeLists \subseteq Layer2
<1>1. /\ Text("text") \in Layer1 /\ Text("medium") \in Layer1 /\ Text("long") \in Layer1
      /\ Null \in Layer1
      BY ScalarsInLayer, LayersGrow DEF Contents
<1> QED BY <1>1, ScalarsInLayer, ListsInLayer DEF Lists, SomeLists, Layer2

LEMMA BalancesInLayer ==
    /\ LeastBalance \in [{"scope", "scope_path", "remaining"} -> Layer2]
    /\ FullBalance \in [BALANCE_FIELDS -> Layer2]
    /\ Balances \subseteq Layer3
<1>1. LeastBalance \in [{"scope", "scope_path", "remaining"} -> Layer2]
  <2>1. Text("text") \in Layer2 /\ Text("long") \in Layer2 /\ Tokens("negative") \in Layer2
        BY ScalarsInLayer, AmountsInLayer, LayersGrow DEF Contents
  <2> QED BY <2>1 DEF LeastBalance
<1>2. FullBalance \in [BALANCE_FIELDS -> Layer2]
  <2>1. Bool \in Layer2 /\ Tokens("int64") \in Layer2
        BY ScalarsInLayer, AmountsInLayer, LayersGrow DEF Contents
  <2> QED BY <1>1, <2>1 DEF FullBalance
<1>3. Scalars \cup SomeAmounts \in SUBSET Layer2
      BY ScalarsInLayer, AmountsInLayer, LayersGrow
<1>4. BALANCE_FIELDS \in SUBSET Keys /\ {"scope", "scope_path", "remaining"} \in SUBSET Keys
      BY DEF BALANCE_FIELDS, Keys
<1> QED BY <1>1, <1>2, <1>3, <1>4, DisturbedInLayer DEF Balances, Layer3

LEMMA ObjectsInLayer ==
    /\ AllCaps \in [CAPS_FIELDS -> Layer2]
    /\ Evidence \in [EVIDENCE_FIELDS -> Layer2]
    /\ CAPS_FIELDS \in SUBSET Keys /\ EVIDENCE_FIELDS \in SUBSET Keys
    /\ BALANCE_FIELDS \in SUBSET Keys /\ DOMAIN LeastBalance \in SUBSET Keys
<1>1. /\ Number("int64") \in Layer2 /\ Text("digest") \in Layer2 /\ Text("url") \in Layer2
      BY ScalarsInLayer, LayersGrow DEF Contents
<1>2. List(<<Text("medium")>>) \in Layer2 /\ List(<<>>) \in Layer2
  <2>1. Text("medium") \in Layer1
        BY ScalarsInLayer, LayersGrow DEF Contents
  <2> QED BY <2>1, ListsInLayer DEF Layer2
<1>3. AllCaps \in [CAPS_FIELDS -> Layer2]
      BY <1>1, <1>2 DEF AllCaps, CAPS_FIELDS
<1>4. Evidence \in [EVIDENCE_FIELDS -> Layer2]
      BY <1>1 DEF Evidence, EVIDENCE_FIELDS
<1>5. DOMAIN LeastBalance = {"scope", "scope_path", "remaining"}
      BY DEF LeastBalance
<1> QED BY <1>3, <1>4, <1>5 DEF Keys, CAPS_FIELDS, EVIDENCE_FIELDS, BALANCE_FIELDS

LEMMA ValuesInLayer == Values \subseteq Layer4
<1>1. Disturbed(AllCaps, Scalars \cup SomeLists) \subseteq Layer3
  <2>1. Scalars \cup SomeLists \in SUBSET Layer2
        BY ScalarsInLayer, ListsInLayers, LayersGrow
  <2> QED BY <2>1, ObjectsInLayer, DisturbedInLayer DEF Layer3
<1>2. Disturbed(Evidence, Scalars) \subseteq Layer3
  <2>1. Scalars \in SUBSET Layer2
        BY ScalarsInLayer, LayersGrow
  <2> QED BY <2>1, ObjectsInLayer, DisturbedInLayer DEF Layer3
<1>3. {List(<<b>>) : b \in Balances} \subseteq Layer4
      BY BalancesInLayer, ListsInLayer DEF Layer4
<1>4. List(<<Object(FullBalance), Null>>) \in Layer4
  <2>1. Object(FullBalance) \in Layer3
        BY BalancesInLayer, ObjectsInLayer, ObjectInLayer DEF Layer3
  <2>2. Null \in Layer3
        BY ScalarsInLayer, LayersGrow
  <2> QED BY <2>1, <2>2, ListsInLayer DEF Layer4
<1>5. Scalars \cup Amounts \cup Lists \subseteq Layer4
      BY ScalarsInLayer, AmountsInLayer, ListsInLayers, LayersGrow
<1> QED BY <1>1, <1>2, <1>3, <1>4, <1>5, LayersGrow DEF Values

LEMMA LeastBodiesInLayer ==
    ASSUME NEW c \in Calls
    PROVE  \E K \in SUBSET Keys : K \subseteq FieldsOf(c) /\ LeastBody(c) \in [K -> Layer4]
<1>1. \A t \in Contents : Text(t) \in Layer4 /\ Number(t) \in Layer4 /\ Tokens(t) \in Layer4
      BY ScalarsInLayer, AmountsInLayer, LayersGrow
<1>2. List(<<>>) \in Layer4
      BY ListsInLayer DEF Layer4
<1>3. CASE c = "create"
  <2>1. LeastBody(c) \in [{"decision", "affected_scopes"} -> Layer4]
        BY <1>1, <1>2, <1>3 DEF LeastBody, Contents
  <2>2. {"decision", "affected_scopes"} \in SUBSET Keys
        /\ {"decision", "affected_scopes"} \subseteq FieldsOf(c)
        BY <1>3 DEF Keys, CREATE_RESPONSE_FIELDS, FieldsOf
  <2> QED BY <2>1, <2>2
<1>4. CASE c = "extend"
  <2>1. LeastBody(c) \in [{"status", "expires_at_ms"} -> Layer4]
        BY <1>1, <1>4 DEF LeastBody, Contents
  <2>2. {"status", "expires_at_ms"} \in SUBSET Keys
        /\ {"status", "expires_at_ms"} \subseteq FieldsOf(c)
        BY <1>4 DEF Keys, EXTEND_RESPONSE_FIELDS, FieldsOf
  <2> QED BY <2>1, <2>2
<1>5. CASE c = "commit"
  <2>1. LeastBody(c) \in [{"status", "charged"} -> Layer4]
        BY <1>1, <1>5 DEF LeastBody, Contents
  <2>2. {"status", "charged"} \in SUBSET Keys /\ {"status", "charged"} \subseteq FieldsOf(c)
        BY <1>5 DEF Keys, COMMIT_RESPONSE_FIELDS, FieldsOf
  <2> QED BY <2>1, <2>2
<1>6. CASE c = "event"
  <2>1. LeastBody(c) \in [{"status", "event_id"} -> Layer4]
        BY <1>1, <1>6 DEF LeastBody, Contents
  <2>2. {"status", "event_id"} \in SUBSET Keys /\ {"status", "event_id"} \subseteq FieldsOf(c)
        BY <1>6 DEF Keys, EVENT_RESPONSE_FIELDS, FieldsOf
  <2> QED BY <2>1, <2>2
<1> QED BY <1>3, <1>4, <1>5, <1>6 DEF Calls

LEMMA SoundInLayer == \A key : Sound(key) \in Layer4
<1>1. \A t \in Contents : Text(t) \in Layer4 /\ Number(t) \in Layer4 /\ Tokens(t) \in Layer4
      BY ScalarsInLayer, AmountsInLayer, LayersGrow
<1>2. Object(AllCaps) \in Layer4 /\ Object(Evidence) \in Layer4
      BY ObjectsInLayer, ObjectInLayer, LayersGrow DEF Layer3
<1>3. List(<<Object(FullBalance), Object(LeastBalance)>>) \in Layer4
  <2>1. Object(FullBalance) \in Layer3
        BY BalancesInLayer, ObjectsInLayer, ObjectInLayer DEF Layer3
  <2>2. DOMAIN LeastBalance = {"scope", "scope_path", "remaining"}
        BY DEF LeastBalance
  <2>3. Object(LeastBalance) \in Layer3
        BY <2>2, BalancesInLayer, ObjectsInLayer, ObjectInLayer DEF Layer3
  <2> QED BY <2>1, <2>3, ListsInLayer DEF Layer4
<1> QED BY <1>1, <1>2, <1>3 DEF Sound, Contents

LEMMA BodiesInLayer ==
    ASSUME NEW c \in Calls
    PROVE  Scalars \cup Disturbed(LeastBody(c), Values) \cup Disturbed(FullBody(c), Values)
               \subseteq Bodies
<1>1. PICK K \in SUBSET Keys : K \subseteq FieldsOf(c) /\ LeastBody(c) \in [K -> Layer4]
      BY LeastBodiesInLayer
<1>2. FieldsOf(c) \in SUBSET Keys
      BY DEF FieldsOf, Keys, Calls
<1>3. FullBody(c) \in [FieldsOf(c) -> Layer4]
      BY <1>1, SoundInLayer DEF FullBody
<1>4. Disturbed(LeastBody(c), Values) \subseteq Bodies
      BY <1>1, ValuesInLayer, DisturbedInLayer DEF Bodies
<1>5. Disturbed(FullBody(c), Values) \subseteq Bodies
      BY <1>2, <1>3, ValuesInLayer, DisturbedInLayer DEF Bodies
<1> QED BY <1>4, <1>5, ScalarsInLayer, LayersGrow

Answers == call \in Calls /\ body \in Bodies

LEMMA AnswersHold == Spec => []Answers
<1>1. Init => Answers
      BY ScalarsInLayer, LayersGrow DEF Init, Calls, Answers
<1>2. ASSUME Answers,
             [Next]_<<drawn, response, sample, throttle, answer, env>>
      PROVE  Answers'
  <2>1. CASE Answer
    <3>1. /\ call' \in Calls
          /\ body' \in Scalars \cup Disturbed(LeastBody(call'), Values)
                          \cup Disturbed(FullBody(call'), Values)
          BY <2>1 DEF Answer
    <3> QED BY <3>1, BodiesInLayer DEF Answers
  <2>2. CASE UNCHANGED answer
        BY <1>2, <2>2 DEF answer, Answers
  <2> QED BY <1>2, <2>1, <2>2 DEF Next, Receive, Sample, Throttle, Launch
<1> QED BY <1>1, <1>2, PTL DEF Spec

(* client.rs, the is_schema_valid_... predicates, against models/: no body *)
(* of the run is taken for a success and then decoded short.               *)
THEOREM AcceptedAlwaysLosesNothing == Spec => []AcceptedLosesNothing
<1>1. Answers => AcceptedLosesNothing
      BY AcceptedBodiesAreKept, BodiesAreJson DEF Answers, AcceptedLosesNothing
<1> QED BY <1>1, AnswersHold, PTL

(* guard.rs, response.rs: recovered_via_event is set by the fallback and   *)
(* never by a server.                                                      *)
THEOREM RecoveryIsAlwaysClientSide == Spec => []RecoveryIsClientSide
<1>1. Answers => RecoveryIsClientSide
      BY RecoveriesAreOurs, BodiesAreJson DEF Answers, RecoveryIsClientSide
<1> QED BY <1>1, AnswersHold, PTL

-----------------------------------------------------------------------------
(* The environment.                                                        *)

LEMMA OptionsAreFinite == IsFiniteSet(Options)
<1>1. \A S, x : IsFiniteSet(S) => IsFiniteSet(S \cup {x})
      BY FS_AddElement
<1>2. \A x, y, z : IsFiniteSet({x, y, z})
  <2> SUFFICES ASSUME NEW x, NEW y, NEW z PROVE IsFiniteSet({x, y, z})
      OBVIOUS
  <2>1. IsFiniteSet({x}) /\ {x, y, z} = ({x} \cup {y}) \cup {z}
        BY FS_Singleton
  <2>2. IsFiniteSet({x} \cup {y})
        BY <1>1, <2>1
  <2>3. IsFiniteSet(({x} \cup {y}) \cup {z})
        BY <1>1, <2>2
  <2> QED BY <2>1, <2>3
<1>3. Options = ((({"tenant", "workspace", "app"} \cup {"workflow", "agent", "toolset"})
                     \cup {"connect_timeout", "read_timeout", "retry_max_attempts"})
                    \cup {"retry_initial_delay", "retry_multiplier", "retry_max_delay"})
                   \cup {"journal_dir", "retry_enabled", "journal_enabled"}
      BY DEF Options, Texts, Subjects, Numbers, Flags
<1>4. \A S, x, y, z : IsFiniteSet(S) => IsFiniteSet(S \cup {x, y, z})
      BY <1>2, FS_Union
<1> QED BY <1>2, <1>3, <1>4

(* The setters, applied in any order, come to what they set.               *)
LEMMA SettersCommute ==
    ASSUME NEW e, NEW config, config = [o \in Options |-> config[o]],
           NEW options \in SUBSET Options
    PROVE  SetAll(e, config, options)
               = [o \in Options |-> IF o \in options THEN Setting(e, o) ELSE config[o]]
<1> DEFINE Form(left) == [o \in Options |-> IF o \in left THEN Setting(e, o) ELSE config[o]]
           Step(f, left) ==
               IF left = {} THEN config
               ELSE LET option == CHOOSE o \in left : TRUE
                    IN  set(f[left \ {option}], option, Setting(e, option))
           Apply == CHOOSE f : f = [left \in SUBSET options |-> Step(f, left)]
<1>1. SetAll(e, config, options) = Apply[options]
      BY DEF SetAll
<1>2. ASSUME NEW left \in SUBSET options, left # {}, NEW o \in left
      PROVE  set(Form(left \ {o}), o, Setting(e, o)) = Form(left)
      BY <1>2 DEF set
<1>3. Apply = [left \in SUBSET options |-> Step(Apply, left)]
  <2> DEFINE F == [left \in SUBSET options |-> Form(left)]
  <2>1. F = [left \in SUBSET options |-> Step(F, left)]
    <3> SUFFICES ASSUME NEW left \in SUBSET options
                 PROVE  Form(left) = Step(F, left)
        OBVIOUS
    <3>1. CASE left = {}
          BY <3>1
    <3>2. CASE left # {}
      <4> DEFINE option == CHOOSE o \in left : TRUE
      <4>1. option \in left
            BY <3>2
      <4>2. F[left \ {option}] = Form(left \ {option})
            BY <4>1
      <4>3. set(Form(left \ {option}), option, Setting(e, option)) = Form(left)
            BY <1>2, <3>2, <4>1
      <4> QED BY <3>2, <4>2, <4>3
    <3> QED BY <3>1, <3>2
  <2> HIDE DEF F, Step
  <2> QED BY <2>1
<1> HIDE DEF Apply
<1>4. Apply[options] = Form(options)
  <2> SUFFICES ASSUME Apply[options] # Form(options) PROVE FALSE
      OBVIOUS
  <2> DEFINE Bad == {left \in SUBSET options : Apply[left] # Form(left)}
             R == StrictSubsetOrdering(options)
  <2>1. IsFiniteSet(options)
        BY OptionsAreFinite, FS_Subset
  <2>2. FiniteSubsetsOf(options) = SUBSET options
        BY <2>1, FS_FiniteSubsetsOfFinite
  <2>3. IsWellFoundedOn(R, FiniteSubsetsOf(options))
        BY FS_StrictSubsetOrderingWellFounded
  <2>4. Bad \subseteq FiniteSubsetsOf(options) /\ Bad # {}
        BY <2>2
  <2> HIDE DEF Bad, R
  <2>5. PICK left \in Bad : \A smaller_one \in Bad : ~ (<<smaller_one, left>> \in R)
        BY <2>3, <2>4, WFMin
  <2>6. left \in SUBSET options /\ Apply[left] # Form(left) /\ Apply[left] = Step(Apply, left)
        BY <1>3, <2>5 DEF Bad
  <2>7. left # {}
        BY <2>6
  <2> DEFINE option == CHOOSE o \in left : TRUE
  <2>8. option \in left
        BY <2>7
  <2> HIDE DEF option
  <2>9. <<left \ {option}, left>> \in R
        BY <2>6, <2>8 DEF R, StrictSubsetOrdering
  <2>10. left \ {option} \notin Bad
        BY <2>5, <2>9
  <2>11. Apply[left \ {option}] = Form(left \ {option})
        BY <2>6, <2>10 DEF Bad
  <2>12. Step(Apply, left) = set(Apply[left \ {option}], option, Setting(e, option))
        BY <2>7 DEF option
  <2>13. Step(Apply, left) = Form(left)
        BY <1>2, <2>6, <2>7, <2>8, <2>11, <2>12
  <2> QED BY <2>6, <2>13
<1> QED BY <1>1, <1>4

(* config.rs: from_env is what the setters make of the defaults, in        *)
(* whatever order they are called.                                         *)
THEOREM EnvironmentIsABuilder ==
    ASSUME NEW e \in Environment
    PROVE  ActsAsBuilder(e)
<1> DEFINE on == TRUE
           default(o) ==
               CASE o \in Texts -> None
                 [] o \in Flags -> on
                 [] o = "connect_timeout" -> 2000
                 [] o = "read_timeout" -> 5000
                 [] o = "retry_max_attempts" -> 5
                 [] o = "retry_initial_delay" -> 500
                 [] o = "retry_multiplier" -> 2
                 [] o = "retry_max_delay" -> 30000
           read(o) ==
               CASE o \in Texts -> env_opt(e, o)
                 [] o \in Flags -> env_flag(e, o)
                 [] o = "connect_timeout" -> env_number(e, o, 2000)
                 [] o = "read_timeout" -> env_number(e, o, 5000)
                 [] o = "retry_max_attempts" -> env_number(e, o, 5)
                 [] o = "retry_initial_delay" -> env_number(e, o, 500)
                 [] o = "retry_multiplier" -> env_number(e, o, 2)
                 [] o = "retry_max_delay" -> env_number(e, o, 30000)
           said == {o \in Options : Says(e, o)}
           built == [o \in Options |-> IF o \in said THEN Setting(e, o) ELSE builder[o]]
<1>1. CASE \E o \in Required : e[o] = "unset"
      BY <1>1 DEF ActsAsBuilder, from_env
<1>2. CASE ~\E o \in Required : e[o] = "unset"
  <2>1. builder = [o \in Options |-> default(o)]
        BY DEF builder
  <2>2. from_env(e) = [o \in Options |-> read(o)]
    <3>1. from_env(e) = IF \E o \in Required : e[o] = "unset" THEN ConfigError
                        ELSE [o \in Options |-> read(o)]
          BY DEF from_env
    <3> HIDE DEF read
    <3> QED BY <1>2, <3>1
  <2>3. ASSUME NEW o \in Options
        PROVE  read(o) = IF o \in said THEN Setting(e, o) ELSE default(o)
    <3>1. CASE o \in Texts
      <4>0. /\ o \notin Flags
            /\ o # "connect_timeout" /\ o # "read_timeout" /\ o # "retry_max_attempts"
            /\ o # "retry_initial_delay" /\ o # "retry_multiplier" /\ o # "retry_max_delay"
            BY <3>1 DEF Flags, Texts, Subjects
      <4>1. read(o) = env_opt(e, o) /\ default(o) = None
            BY <3>1, <4>0
      <4>2. (Says(e, o) <=> e[o] # "unset") /\ Setting(e, o) = e[o]
            BY <3>1, <4>0, Zenon DEF Says, Setting
      <4> HIDE DEF read, default
      <4> QED BY <4>1, <4>2 DEF env_opt
    <3>2. CASE o \in Flags
      <4>1. /\ o \notin Texts
            /\ o # "connect_timeout" /\ o # "read_timeout" /\ o # "retry_max_attempts"
            /\ o # "retry_initial_delay" /\ o # "retry_multiplier" /\ o # "retry_max_delay"
            BY <3>2 DEF Flags, Texts, Subjects
      <4> HIDE DEF on
      <4>2. read(o) = env_flag(e, o) /\ default(o) = on
            BY <3>2, <4>1
      <4>3. (Says(e, o) <=> e[o] = "false") /\ Setting(e, o) = FALSE
            BY <3>2, <4>1, Zenon DEF Says, Setting
      <4>4. env_flag(e, o) = (e[o] # "false")
            BY DEF env_flag, env_opt, None
      <4> HIDE DEF read, default
      <4> QED BY <4>2, <4>3, <4>4 DEF on
    <3>3. CASE o \in Numbers
      <4>1. o \notin Texts /\ o \notin Flags
            BY <3>3 DEF Flags, Texts, Subjects, Numbers
      <4>2. read(o) = env_number(e, o, default(o))
            BY <3>3, <4>1 DEF Numbers
      <4>3. (Says(e, o) <=> e[o] = "number") /\ Setting(e, o) = Given
            BY <4>1 DEF Says, Setting
      <4> HIDE DEF read, default
      <4> QED BY <4>2, <4>3 DEF env_number
    <3> HIDE DEF read, default, said
    <3> QED BY <3>1, <3>2, <3>3 DEF Options
  <2> HIDE DEF default, read
  <2>4. /\ builder = [o \in Options |-> builder[o]]
        /\ \A o \in Options : builder[o] = default(o)
        BY <2>1
  <2>5. SetAll(e, builder, said) = built
        BY <2>4, SettersCommute
  <2>6. from_env(e) = built
        BY <2>2, <2>3, <2>4
  <2> QED BY <1>2, <2>5, <2>6 DEF ActsAsBuilder
<1> QED BY <1>1, <1>2

LEMMA StartIsAnEnvironment == Start \in Environment
<1>1. Unset \in Environment
      BY DEF Unset, Environment, Settings
<1>2. "other" \in Settings
      BY DEF Settings
<1> QED BY <1>1, <1>2 DEF Start, Environment

LEMMA EnvironmentHolds == Spec => [](env \in Environment)
<1>1. Init => env \in Environment
      BY StartIsAnEnvironment DEF Init
<1>2. ASSUME env \in Environment,
             [Next]_<<drawn, response, sample, throttle, answer, env>>
      PROVE  (env \in Environment)'
  <2>1. CASE Launch
        BY <2>1, StartIsAnEnvironment DEF Launch, Environment
  <2> QED BY <1>2, <2>1 DEF Next, Receive, Sample, Throttle, Answer
<1> QED BY <1>1, <1>2, PTL DEF Spec

(* config.rs, from_env: whatever the environment holds, the client it      *)
(* configures is the one the setters would.                                *)
THEOREM EnvironmentAlwaysActsAsBuilder == Spec => []EnvironmentActsAsBuilder
<1>1. env \in Environment => EnvironmentActsAsBuilder
      BY EnvironmentIsABuilder DEF EnvironmentActsAsBuilder
<1> QED BY <1>1, EnvironmentHolds, PTL
=============================================================================
