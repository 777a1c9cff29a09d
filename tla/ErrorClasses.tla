---------------------------- MODULE ErrorClasses ----------------------------
(***************************************************************************)
(* How the client classifies the outcome of one settlement request: from  *)
(* the HTTP response (or its absence) to a typed Error, and from the Error *)
(* to the three questions the commit path asks of it: is it retried       *)
(* inline, does it switch to the event fallback, does it keep the journal *)
(* record.                                                                *)
(***************************************************************************)
EXTENDS Integers

(* models::ErrorCode, in the wire form.  serde maps every code it does not *)
(* know to "UNKNOWN".                                                      *)
ErrorCode ==
    { "INVALID_REQUEST", "UNAUTHORIZED", "FORBIDDEN", "NOT_FOUND",
      "BUDGET_EXCEEDED", "BUDGET_FROZEN", "BUDGET_CLOSED",
      "RESERVATION_EXPIRED", "RESERVATION_FINALIZED", "IDEMPOTENCY_MISMATCH",
      "UNIT_MISMATCH", "OVERDRAFT_LIMIT_EXCEEDED", "DEBT_OUTSTANDING",
      "MAX_EXTENSIONS_EXCEEDED", "LIMIT_EXCEEDED", "TENANT_CLOSED",
      "INTERNAL_ERROR", "UNKNOWN" }

NoCode == "none"          \* Option<ErrorCode>::None
NoStatus == 0             \* Option<u16>::None
NoDelay == -1             \* Option<Duration>::None

(* What comes back for a request.  body is "valid" when it satisfies the   *)
(* success schema of the call, an error code when it is an ErrorResponse   *)
(* carrying it, and "malformed" otherwise.  Lost is no response at all:    *)
(* a timeout or a connection failure.                                      *)
HttpResponse ==
    [status : 200 .. 599, body : {"valid", "malformed"} \cup ErrorCode,
     retry_after : {NoDelay} \cup Nat]
Lost == [status |-> NoStatus, body |-> "malformed", retry_after |-> NoDelay]
Response == HttpResponse \cup {Lost}

(* No request at all: the API key is not a valid header value, and the     *)
(* call returns before anything is sent.                                   *)
Unsent == [status |-> NoStatus, body |-> "unsent", retry_after |-> NoDelay]

(* error::Error, the fields the classification reads.  kind "Ok" stands    *)
(* for the Ok side of the Result.  CommitPending and CommitRecoveryFailed  *)
(* are made of these by commit and come back from no request.              *)
ErrorKind ==
    {"Transport", "Deserialization", "Api", "BudgetExceeded", "Validation", "Config"}
Result ==
    [kind : {"Ok"} \cup ErrorKind, status : {NoStatus} \cup 200 .. 599,
     code : {NoCode} \cup ErrorCode, retry_after : {NoDelay} \cup Nat]

Bare(kind) == [kind |-> kind, status |-> NoStatus, code |-> NoCode,
               retry_after |-> NoDelay]

parse_error_response(resp) ==
    LET code == IF resp.body \in ErrorCode THEN resp.body ELSE NoCode
    IN  IF resp.status = 409
           /\ code \in {"BUDGET_EXCEEDED", "OVERDRAFT_LIMIT_EXCEEDED",
                        "DEBT_OUTSTANDING"}
        THEN [kind |-> "BudgetExceeded", status |-> 409,
              code |-> "BUDGET_EXCEEDED", retry_after |-> resp.retry_after]
        ELSE [kind |-> "Api", status |-> resp.status, code |-> code,
              retry_after |-> resp.retry_after]

(* Mutant: any 2xx with a readable body is taken for a success.            *)
any_2xx_is_success(expected_status, resp) ==
    IF resp = Unsent THEN Bare("Config")
    ELSE IF resp = Lost THEN Bare("Transport")
    ELSE IF resp.status \in 200 .. 299
    THEN IF resp.body = "valid" THEN Bare("Ok") ELSE Bare("Deserialization")
    ELSE parse_error_response(resp)

(* Only the expected status with a schema-valid body is a success; any     *)
(* other 2xx is ambiguous.  A key that is no header value is an error      *)
(* before there is a request.                                              *)
post_json_strict(expected_status, resp) ==
    IF resp = Unsent THEN Bare("Config")
    ELSE IF resp = Lost THEN Bare("Transport")
    ELSE IF resp.status = expected_status
    THEN IF resp.body = "valid" THEN Bare("Ok") ELSE Bare("Deserialization")
    ELSE IF resp.status \in 200 .. 299 THEN Bare("Deserialization")
    ELSE parse_error_response(resp)

code_is_retryable(code) == code \in {"INTERNAL_ERROR", "UNKNOWN", "LIMIT_EXCEEDED"}

is_retryable(e) ==
    \/ e.kind = "Transport"
    \/ /\ e.kind = "Api"
       /\ \/ e.status >= 500
          \/ e.status = 429
          \/ code_is_retryable(e.code)
    \/ /\ e.kind = "BudgetExceeded"
       /\ e.retry_after # NoDelay
       /\ e.status = 429

is_auth_error(e) ==
    /\ e.kind = "Api"
    /\ e.status \in {401, 403} \/ e.code \in {"UNAUTHORIZED", "FORBIDDEN"}

is_settlement_retryable(e) == is_retryable(e) \/ e.kind = "Deserialization"

(* Mutants: the status alone is not believed; a conflict counts as expiry. *)
expired_by_code_only(e) == e.code = "RESERVATION_EXPIRED"
expired_or_conflict(e) == e.code = "RESERVATION_EXPIRED" \/ e.status \in {409, 410}

is_expired_commit(e) == e.code = "RESERVATION_EXPIRED" \/ e.status = 410

(* Mutant: an unreadable success is final.                                 *)
ambiguous_is_final(e) ==
    \/ e.kind = "Transport"
    \/ /\ e.kind = "Api"
       /\ is_retryable(e) \/ is_auth_error(e) \/ e.code \in {NoCode, "UNKNOWN"}

(* CommitRecoveryFailed asks the question of the event error it carries,   *)
(* so callers here pass that error.  Validation cannot come back from a    *)
(* settlement request, since the schema check of create_event already      *)
(* insists on APPLIED.  Config can: not to a guard, whose client has made  *)
(* a reservation with the key, but to a replay.                            *)
requires_durable_replay(e) ==
    \/ e.kind \in {"Transport", "Deserialization", "Validation"}
    \/ /\ e.kind = "Api"
       /\ is_retryable(e) \/ is_auth_error(e) \/ e.code \in {NoCode, "UNKNOWN"}
    \/ e.kind = "BudgetExceeded" /\ is_retryable(e)

-----------------------------------------------------------------------------
(* The protocol's own reading of a response, independent of the client:    *)
(* what the server has told us about the spend.                            *)

(* The server refused the spend and said why, in a way the client is       *)
(* expected to understand: an error status other than 401, 403, 410, 429   *)
(* and 5xx, with a recognised code that is neither transient, an           *)
(* authentication failure, nor the expiry of the reservation.              *)
IsRefusal(resp) ==
    /\ resp.status \in (300 .. 499) \ {401, 403, 410, 429}
    /\ resp.body \in ErrorCode \ {"UNKNOWN", "INTERNAL_ERROR", "LIMIT_EXCEEDED",
                                  "UNAUTHORIZED", "FORBIDDEN",
                                  "RESERVATION_EXPIRED"}

(* The reservation is gone: 410 whatever the body, or the typed code on    *)
(* any error status but 429.                                               *)
IsExpiry(resp) ==
    /\ resp.status \in (300 .. 599) \ {429}
    /\ resp.status = 410 \/ resp.body = "RESERVATION_EXPIRED"

(* The request was carried out, in the form the endpoint promises.         *)
IsReceipt(expected_status, resp) ==
    resp.status = expected_status /\ resp.body = "valid"

(* Says nothing about the spend: no answer, throttling, a server fault, a  *)
(* failure of the credentials, a body nobody can read, any other 2xx.      *)
IsNoVerdict(expected_status, resp) ==
    /\ resp \in Response
    /\ ~IsReceipt(expected_status, resp)
    /\ ~IsRefusal(resp)
    /\ resp.status \notin 200 .. 299 =>
           resp.status # 410 /\ resp.body # "RESERVATION_EXPIRED"

(* The client reads every response the way the protocol means it: a        *)
(* receipt is success, a refusal ends the matter at once, an expiry leads  *)
(* to the event fallback, and what says nothing about the spend keeps the  *)
(* record and never starts the fallback.                                   *)
ReadsVerdict(expected_status, resp) ==
    LET e == post_json_strict(expected_status, resp)
    IN  /\ IsReceipt(expected_status, resp) <=> e.kind = "Ok"
        /\ IsRefusal(resp) =>
               /\ ~is_settlement_retryable(e)
               /\ ~requires_durable_replay(e)
               /\ ~is_expired_commit(e)
        /\ IsExpiry(resp) => is_expired_commit(e)
        /\ IsNoVerdict(expected_status, resp) =>
               requires_durable_replay(e) /\ ~is_expired_commit(e)

(* Whatever is retried inline is also kept when the retries run out.       *)
RetriedIsKept(expected_status, resp) ==
    LET e == post_json_strict(expected_status, resp)
    IN  is_settlement_retryable(e) => requires_durable_replay(e)
=============================================================================
