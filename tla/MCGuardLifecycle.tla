-------------------------- MODULE MCGuardLifecycle --------------------------
(* GuardLifecycle with one response of every class a create may meet.      *)
EXTENDS GuardLifecycle

Resp(status, body) == [status |-> status, body |-> body, retry_after |-> NoDelay]

(* An accepted but unfinished request, an unreadable success, a proxy's    *)
(* failure, a throttle, an understood refusal.                             *)
OtherResponses ==
    { Resp(202, "valid"), Resp(200, "malformed"), Resp(502, "malformed"),
      Resp(429, "LIMIT_EXCEEDED"), Resp(409, "BUDGET_EXCEEDED") }
=============================================================================
