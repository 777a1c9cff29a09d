------------------------- MODULE ErrorClassesProofs -------------------------
(* The classification of responses, for every status, code and delay.      *)
EXTENDS ErrorClasses, TLAPS

(* A response is read by its status and body: something was sent.          *)
LEMMA ReadsWhatCame ==
    ASSUME NEW expected_status, NEW resp \in Response
    PROVE  /\ resp # Unsent
           /\ post_json_strict(expected_status, resp) =
                 IF resp = Lost THEN Bare("Transport")
                 ELSE IF resp.status = expected_status
                 THEN IF resp.body = "valid" THEN Bare("Ok") ELSE Bare("Deserialization")
                 ELSE IF resp.status \in 200 .. 299 THEN Bare("Deserialization")
                 ELSE parse_error_response(resp)
<1>1. resp # Unsent
  <2>1. CASE resp = Lost
        BY <2>1 DEF Lost, Unsent
  <2>2. CASE resp \in HttpResponse
        BY <2>2 DEF HttpResponse, Unsent, NoStatus
  <2> QED BY <2>1, <2>2 DEF Response
<1> QED BY <1>1 DEF post_json_strict

(* What a settlement call returns is one of the Results the handlers know. *)
LEMMA ResultType ==
    ASSUME NEW expected_status \in {200, 201}, NEW resp \in Response \cup {Unsent}
    PROVE  post_json_strict(expected_status, resp) \in Result
<1>1. CASE resp = Unsent
      BY <1>1 DEF post_json_strict, Bare, Result, ErrorKind, NoStatus, NoDelay, NoCode
<1>2. CASE resp \in Response
      BY <1>2, ReadsWhatCame DEF Response, HttpResponse, Lost, Result, ErrorKind, Bare,
         parse_error_response, NoStatus, NoDelay, NoCode, ErrorCode
<1> QED BY <1>1, <1>2

(* The client reads every response the way the protocol means it.          *)
THEOREM VerdictsAreRead ==
    ASSUME NEW expected_status \in {200, 201}, NEW resp \in Response
    PROVE  ReadsVerdict(expected_status, resp)
<1> DEFINE e == post_json_strict(expected_status, resp)
<1>1. /\ resp.status \in Int
      /\ resp = Lost => resp.status = 0
      /\ resp # Lost => 200 <= resp.status /\ resp.status <= 599
      BY DEF Response, HttpResponse, Lost, NoStatus
<1>2. IsReceipt(expected_status, resp) <=> e.kind = "Ok"
      BY <1>1, ReadsWhatCame DEF IsReceipt, Bare, parse_error_response, Lost, NoStatus
<1>3. ASSUME IsRefusal(resp)
      PROVE  ~is_settlement_retryable(e) /\ ~requires_durable_replay(e) /\ ~is_expired_commit(e)
  <2>1. resp # Lost /\ e = parse_error_response(resp)
        BY <1>1, <1>3, ReadsWhatCame DEF IsRefusal
  <2>2. /\ resp.status \notin {401, 403, 410, 429} /\ ~(resp.status >= 500)
        /\ resp.body \in ErrorCode
        /\ resp.body \notin {"UNKNOWN", "INTERNAL_ERROR", "LIMIT_EXCEEDED",
                            "UNAUTHORIZED", "FORBIDDEN", "RESERVATION_EXPIRED"}
        BY <1>1, <1>3 DEF IsRefusal
  <2>3. \/ /\ e.kind = "BudgetExceeded" /\ e.status = 409
           /\ e.code = "BUDGET_EXCEEDED"
        \/ e.kind = "Api" /\ e.status = resp.status /\ e.code = resp.body
        BY <2>1, <2>2 DEF parse_error_response
  <2>4. resp.body # NoCode
        BY <2>2 DEF ErrorCode, NoCode
  <2> QED
      BY <2>2, <2>3, <2>4 DEF is_settlement_retryable, is_retryable,
         code_is_retryable, is_auth_error, requires_durable_replay, is_expired_commit
<1>4. ASSUME IsExpiry(resp)
      PROVE  is_expired_commit(e)
      BY <1>1, <1>4, ReadsWhatCame DEF IsExpiry, parse_error_response, NoCode,
         is_expired_commit, ErrorCode
<1>5. ASSUME IsNoVerdict(expected_status, resp)
      PROVE  requires_durable_replay(e) /\ ~is_expired_commit(e)
  <2>1. CASE resp = Lost
        BY <2>1, ReadsWhatCame DEF Bare, requires_durable_replay,
           is_expired_commit, NoCode, NoStatus
  <2>2. CASE resp.status \in 200 .. 299
        BY <1>1, <1>5, <2>2, ReadsWhatCame DEF IsNoVerdict, IsReceipt, Bare,
           requires_durable_replay, is_expired_commit, NoCode, NoStatus
  <2>3. CASE resp.status \in 300 .. 599
    <3>1. resp # Lost /\ e = parse_error_response(resp)
          BY <1>1, <2>3, ReadsWhatCame
    <3>2. resp.status # 410 /\ resp.body # "RESERVATION_EXPIRED"
          BY <1>1, <1>5, <2>3 DEF IsNoVerdict
    <3>3. \/ resp.status \in {401, 403, 429} \cup 500 .. 599
          \/ resp.body \notin ErrorCode
          \/ resp.body \in {"UNKNOWN", "INTERNAL_ERROR", "LIMIT_EXCEEDED",
                            "UNAUTHORIZED", "FORBIDDEN"}
          BY <1>1, <1>5, <2>3, <3>2 DEF IsNoVerdict, IsRefusal
    <3>4. e.kind = "Api" /\ e.status = resp.status
          /\ e.code = IF resp.body \in ErrorCode THEN resp.body ELSE NoCode
          BY <3>1, <3>3, <2>3 DEF parse_error_response, NoCode
    <3> QED
        BY <3>2, <3>3, <3>4, <2>3 DEF requires_durable_replay, is_retryable,
           code_is_retryable, is_auth_error, is_expired_commit, NoCode
  <2> QED BY <1>1, <2>1, <2>2, <2>3
<1> QED BY <1>2, <1>3, <1>4, <1>5 DEF ReadsVerdict

(* Whatever is retried inline keeps its record when the retries run out;   *)
(* what is not even sent is neither.                                       *)
THEOREM RetriesAreKept ==
    ASSUME NEW expected_status \in {200, 201}, NEW resp \in Response \cup {Unsent}
    PROVE  RetriedIsKept(expected_status, resp)
<1> DEFINE e == post_json_strict(expected_status, resp)
<1>1. e.kind \in {"Ok"} \cup ErrorKind
      BY ResultType DEF Result
<1> QED
    BY <1>1 DEF RetriedIsKept, is_settlement_retryable, is_retryable,
       requires_durable_replay, ErrorKind
=============================================================================
