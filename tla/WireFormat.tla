----------------------------- MODULE WireFormat -----------------------------
(***************************************************************************)
(* The bodies of the answers the client acts on: which JSON values satisfy *)
(* the success schema of a call (client.rs, the is_... predicates), and    *)
(* what serde makes of them (models/).  The schema is checked on the       *)
(* untyped value and the decoding is done again from it, by types written  *)
(* in another file, so the two can drift apart.                            *)
(***************************************************************************)
EXTENDS Naturals, Sequences

(* A JSON value is a pair of its type and its content: a set of keys with  *)
(* their values, a sequence, and for scalars the class that some check can *)
(* tell apart.  "negative" and "int64" are the integers of either sign     *)
(* that fit 64 signed bits, "uint64" the larger ones that fit 64 unsigned  *)
(* bits, "fraction" any other number.  Texts are enumeration names, or     *)
(* "digest" (64 lower-case hex digits), "url" (an absolute one), "text"    *)
(* (short), "medium" (129 to 256 characters) and "long" (more than that).  *)
Null == <<"null", 0>>
Bool == <<"boolean", TRUE>>
Number(class) == <<"number", class>>
Text(content) == <<"string", content>>
List(items) == <<"array", items>>
Object(fields) == <<"object", fields>>

TypeOf(value) == value[1]
IsText(value) == TypeOf(value) = "string"

-----------------------------------------------------------------------------
(* The schema.                                                             *)

CREATE_RESPONSE_FIELDS ==
    {"decision", "reservation_id", "affected_scopes", "expires_at_ms",
     "remaining_ttl_ms", "scope_path", "reserved", "caps", "reason_code",
     "retry_after_ms", "balances", "cycles_evidence"}
EXTEND_RESPONSE_FIELDS == {"status", "expires_at_ms", "remaining_ttl_ms", "balances"}
COMMIT_RESPONSE_FIELDS == {"status", "charged", "released", "balances", "cycles_evidence"}
EVENT_RESPONSE_FIELDS == {"status", "event_id", "charged", "balances"}
AMOUNT_FIELDS == {"unit", "amount"}
CAPS_FIELDS == {"max_tokens", "max_steps_remaining", "tool_allowlist",
                "tool_denylist", "cooldown_ms"}
BALANCE_FIELDS ==
    {"scope", "scope_path", "remaining", "reserved", "spent", "allocated",
     "debt", "overdraft_limit", "is_over_limit"}
EVIDENCE_FIELDS == {"evidence_id", "cycles_evidence_url"}

Units == {"USD_MICROCENTS", "TOKENS", "CREDITS", "RISK_POINTS"}

has_exact_or_optional_fields(fields, allowed) == DOMAIN fields \subseteq allowed

(* object.get(key).is_some_and(P) and object.get(key).is_none_or(P).       *)
Some(fields, key, P(_)) == key \in DOMAIN fields /\ P(fields[key])
NoneOr(fields, key, P(_)) == key \in DOMAIN fields => P(fields[key])

IsObject(value, P(_)) == TypeOf(value) = "object" /\ P(value[2])

as_u64(value) == value \in {Number("int64"), Number("uint64")}
as_i64(value) == value \in {Number("negative"), Number("int64")}

is_known_unit(value) == IsText(value) /\ value[2] \in Units
is_nonnegative_int64(value) == value = Number("int64")

Over128 == {Text("medium"), Text("long")}
Over256 == {Text("long")}
is_string_array(value, too_long) ==
    /\ TypeOf(value) = "array"
    /\ \A i \in DOMAIN value[2] : IsText(value[2][i]) /\ value[2][i] \notin too_long

is_amount(value, signed) ==
    LET Check(fields) ==
            /\ has_exact_or_optional_fields(fields, AMOUNT_FIELDS)
            /\ DOMAIN fields = AMOUNT_FIELDS
            /\ Some(fields, "unit", is_known_unit)
            /\ Some(fields, "amount",
                    LAMBDA n : as_i64(n) /\ (signed \/ n # Number("negative")))
    IN  IsObject(value, Check)

UnsignedAmount(value) == is_amount(value, FALSE)
SignedAmount(value) == is_amount(value, TRUE)

is_caps(value) ==
    LET Check(fields) ==
            /\ has_exact_or_optional_fields(fields, CAPS_FIELDS)
            /\ \A key \in {"max_tokens", "max_steps_remaining", "cooldown_ms"} :
                   NoneOr(fields, key, is_nonnegative_int64)
            /\ \A key \in {"tool_allowlist", "tool_denylist"} :
                   NoneOr(fields, key, LAMBDA v : is_string_array(v, Over256))
    IN  IsObject(value, Check)

is_balance(value) ==
    LET Check(fields) ==
            /\ has_exact_or_optional_fields(fields, BALANCE_FIELDS)
            /\ Some(fields, "scope", IsText)
            /\ Some(fields, "scope_path", IsText)
            /\ Some(fields, "remaining", SignedAmount)
            /\ \A key \in {"reserved", "spent", "allocated", "debt", "overdraft_limit"} :
                   NoneOr(fields, key, UnsignedAmount)
            /\ NoneOr(fields, "is_over_limit", LAMBDA v : TypeOf(v) = "boolean")
    IN  IsObject(value, Check)

is_balances(value) ==
    TypeOf(value) = "array" /\ \A i \in DOMAIN value[2] : is_balance(value[2][i])

is_evidence_ref(value) ==
    LET Check(fields) ==
            /\ DOMAIN fields = EVIDENCE_FIELDS
            /\ Some(fields, "evidence_id", LAMBDA v : v = Text("digest"))
            /\ Some(fields, "cycles_evidence_url", LAMBDA v : v = Text("url"))
    IN  IsObject(value, Check)

is_schema_valid_create_body(value) ==
    LET Check(fields) ==
            /\ has_exact_or_optional_fields(fields, CREATE_RESPONSE_FIELDS)
            /\ Some(fields, "decision",
                    LAMBDA v : v \in {Text("ALLOW"), Text("ALLOW_WITH_CAPS"), Text("DENY")})
            /\ Some(fields, "affected_scopes", LAMBDA v : is_string_array(v, {}))
            /\ NoneOr(fields, "reservation_id", IsText)
            /\ NoneOr(fields, "expires_at_ms", is_nonnegative_int64)
            /\ NoneOr(fields, "remaining_ttl_ms", is_nonnegative_int64)
            /\ NoneOr(fields, "scope_path", IsText)
            /\ NoneOr(fields, "reserved", UnsignedAmount)
            /\ NoneOr(fields, "caps", is_caps)
            /\ NoneOr(fields, "reason_code", LAMBDA v : IsText(v) /\ v \notin Over128)
            /\ NoneOr(fields, "retry_after_ms", as_u64)
            /\ NoneOr(fields, "balances", is_balances)
            /\ NoneOr(fields, "cycles_evidence", is_evidence_ref)
    IN  IsObject(value, Check)

is_schema_valid_extend_body(value) ==
    LET Check(fields) ==
            /\ has_exact_or_optional_fields(fields, EXTEND_RESPONSE_FIELDS)
            /\ Some(fields, "status", LAMBDA v : v = Text("ACTIVE"))
            /\ Some(fields, "expires_at_ms", is_nonnegative_int64)
            /\ NoneOr(fields, "remaining_ttl_ms", is_nonnegative_int64)
            /\ NoneOr(fields, "balances", is_balances)
    IN  IsObject(value, Check)

is_schema_valid_commit_body(value) ==
    LET Check(fields) ==
            /\ has_exact_or_optional_fields(fields, COMMIT_RESPONSE_FIELDS)
            /\ Some(fields, "status", LAMBDA v : v = Text("COMMITTED"))
            /\ Some(fields, "charged", UnsignedAmount)
            /\ NoneOr(fields, "released", UnsignedAmount)
            /\ NoneOr(fields, "balances", is_balances)
            /\ NoneOr(fields, "cycles_evidence", is_evidence_ref)
    IN  IsObject(value, Check)

(* Mutant: the check of the event's identifier treats it as optional.      *)
event_id_may_be_absent(value) ==
    LET Check(fields) ==
            /\ has_exact_or_optional_fields(fields, EVENT_RESPONSE_FIELDS)
            /\ Some(fields, "status", LAMBDA v : v = Text("APPLIED"))
            /\ NoneOr(fields, "event_id", IsText)
            /\ NoneOr(fields, "charged", UnsignedAmount)
            /\ NoneOr(fields, "balances", is_balances)
    IN  IsObject(value, Check)

is_schema_valid_event_body(value) ==
    LET Check(fields) ==
            /\ has_exact_or_optional_fields(fields, EVENT_RESPONSE_FIELDS)
            /\ Some(fields, "status", LAMBDA v : v = Text("APPLIED"))
            /\ Some(fields, "event_id", IsText)
            /\ NoneOr(fields, "charged", UnsignedAmount)
            /\ NoneOr(fields, "balances", is_balances)
    IN  IsObject(value, Check)

-----------------------------------------------------------------------------
(* The typed decoding.  A decoded value is written as the JSON it stands   *)
(* for: an object without its unknown and its empty fields, a text a       *)
(* forward-compatible enumeration does not know as "UNKNOWN".              *)

Failed == <<"failed", 0>>
Missing == <<"missing", 0>>

Decoded(value, accepted) == IF accepted THEN value ELSE Failed

I64(value) == Decoded(value, as_i64(value))
U64Value(value) == Decoded(value, as_u64(value))
String(value) == Decoded(value, IsText(value))
Boolean(value) == Decoded(value, TypeOf(value) = "boolean")

(* A derived enumeration with #[serde(other)] Unknown.                     *)
Enum(value, names) ==
    IF IsText(value) /\ value[2] \notin names THEN Text("UNKNOWN") ELSE String(value)

Vec(value, Item(_)) ==
    IF TypeOf(value) # "array" THEN Failed
    ELSE LET items == [i \in DOMAIN value[2] |-> Item(value[2][i])]
         IN  Decoded(List(items), \A i \in DOMAIN items : items[i] # Failed)

(* A derived struct: unknown keys are ignored, an Option may be missing or *)
(* null, everything else must decode.                                      *)
Struct(value, plain, option, Field(_, _)) ==
    IF TypeOf(value) # "object" THEN Failed
    ELSE LET given == {key \in DOMAIN value[2] : value[2][key] # Null}
             present == plain \cup (option \cap given)
             fields ==
                 [key \in present |->
                     Field(key, IF key \in DOMAIN value[2] THEN value[2][key] ELSE Missing)]
         IN  Decoded(Object(fields), \A key \in present : fields[key] # Failed)

Unit(value) == Enum(value, Units)

(* Amount and SignedAmount are the same pair.                              *)
Amount(value) ==
    Struct(value, {"unit", "amount"}, {},
           LAMBDA key, v : IF key = "unit" THEN Unit(v) ELSE I64(v))

Caps(value) ==
    Struct(value, {},
           {"max_tokens", "max_steps_remaining", "tool_allowlist", "tool_denylist",
            "cooldown_ms"},
           LAMBDA key, v : IF key \in {"tool_allowlist", "tool_denylist"}
                           THEN Vec(v, String) ELSE I64(v))

Balance(value) ==
    Struct(value, {"scope", "scope_path", "remaining"},
           {"reserved", "spent", "allocated", "debt", "overdraft_limit", "is_over_limit"},
           LAMBDA key, v : CASE key \in {"scope", "scope_path"} -> String(v)
                             [] key = "is_over_limit" -> Boolean(v)
                             [] OTHER -> Amount(v))

CyclesEvidenceRef(value) ==
    Struct(value, {"evidence_id", "cycles_evidence_url"}, {}, LAMBDA key, v : String(v))

ReservationCreateResponse(value) ==
    Struct(value, {"decision", "affected_scopes"},
           {"reservation_id", "expires_at_ms", "remaining_ttl_ms", "scope_path", "reserved",
            "caps", "reason_code", "retry_after_ms", "balances", "cycles_evidence"},
           LAMBDA key, v :
               CASE key = "decision" -> Enum(v, {"ALLOW", "ALLOW_WITH_CAPS", "DENY"})
                 [] key = "affected_scopes" ->
                        IF v = Missing THEN List(<<>>) ELSE Vec(v, String)
                 [] key \in {"expires_at_ms", "remaining_ttl_ms", "retry_after_ms"} -> U64Value(v)
                 [] key = "reserved" -> Amount(v)
                 [] key = "caps" -> Caps(v)
                 [] key = "balances" -> Vec(v, Balance)
                 [] key = "cycles_evidence" -> CyclesEvidenceRef(v)
                 [] OTHER -> String(v))

ExtendResponse(value) ==
    Struct(value, {"status", "expires_at_ms"}, {"remaining_ttl_ms", "balances"},
           LAMBDA key, v : CASE key = "status" -> Enum(v, {"ACTIVE"})
                             [] key = "balances" -> Vec(v, Balance)
                             [] OTHER -> U64Value(v))

(* Mutant: the decoding is derived, as for every other enumeration.        *)
derived_commit_status(value) == Enum(value, {"COMMITTED", "RECOVERED_VIA_EVENT"})

CommitStatus(value) == Enum(value, {"COMMITTED"})

(* recovered_via_event is never decoded.                                   *)
CommitResponse(value) ==
    Struct(value, {"status", "charged"}, {"released", "balances"},
           LAMBDA key, v : CASE key = "status" -> CommitStatus(v)
                             [] key = "balances" -> Vec(v, Balance)
                             [] OTHER -> Amount(v))

EventCreateResponse(value) ==
    Struct(value, {"status", "event_id"}, {"charged", "balances"},
           LAMBDA key, v : CASE key = "status" -> Enum(v, {"APPLIED"})
                             [] key = "event_id" -> String(v)
                             [] key = "charged" -> Amount(v)
                             [] OTHER -> Vec(v, Balance))

-----------------------------------------------------------------------------
(* The commit fallback: an expired commit whose event was applied.         *)

Recovered(event, actual) ==
    LET charged == IF "charged" \in DOMAIN event[2] THEN event[2]["charged"] ELSE actual
        known == {"status", "charged", "recovered_via_event"}
                     \cup ({"balances"} \cap DOMAIN event[2])
    IN  Object([key \in known |->
            CASE key = "status" -> Text("RECOVERED_VIA_EVENT")
              [] key = "charged" -> charged
              [] key = "recovered_via_event" -> event[2]["event_id"]
              [] OTHER -> event[2][key]])

-----------------------------------------------------------------------------
(* What the two descriptions of a body owe each other.                     *)

Calls == {"create", "extend", "commit", "event"}

SchemaValid(call, value) ==
    CASE call = "create" -> is_schema_valid_create_body(value)
      [] call = "extend" -> is_schema_valid_extend_body(value)
      [] call = "commit" -> is_schema_valid_commit_body(value)
      [] OTHER -> is_schema_valid_event_body(value)

TypedResponse(call, value) ==
    CASE call = "create" -> ReservationCreateResponse(value)
      [] call = "extend" -> ExtendResponse(value)
      [] call = "commit" -> CommitResponse(value)
      [] OTHER -> EventCreateResponse(value)

(* The one field the schema of a call admits and its type has no place     *)
(* for: the evidence reference of a commit.                                *)
Untyped(call) == IF call = "commit" THEN {"cycles_evidence"} ELSE {}

(* An accepted body is decoded, and everything it says is in the typed     *)
(* response: no second, later failure, no Unknown, nothing dropped but     *)
(* what Untyped names.                                                     *)
LosesNothing(call, value) ==
    SchemaValid(call, value) =>
        TypedResponse(call, value) =
            Object([key \in DOMAIN value[2] \ Untyped(call) |-> value[2][key]])

ClaimsRecovery(response) ==
    /\ response # Failed
    /\ "status" \in DOMAIN response[2]
    /\ response[2]["status"] = Text("RECOVERED_VIA_EVENT")

NamesEvent(response) == response # Failed /\ "recovered_via_event" \in DOMAIN response[2]

(* Whatever a server answers to a commit, the response does not claim a    *)
(* recovery; a recovery claims it and names the event that charged.        *)
RecoveryIsOurs(call, value, actual) ==
    /\ call = "commit" =>
           ~ClaimsRecovery(CommitResponse(value)) /\ ~NamesEvent(CommitResponse(value))
    /\ call = "event" /\ is_schema_valid_event_body(value) =>
           LET response == Recovered(EventCreateResponse(value), actual)
           IN  /\ ClaimsRecovery(response) /\ NamesEvent(response)
               /\ "charged" \in DOMAIN value[2] =>
                      response[2]["charged"] = value[2]["charged"]
=============================================================================
