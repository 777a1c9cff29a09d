---------------------------- MODULE MCSettlement ----------------------------
(* Settlement on small instances: one guard, one or two replays.           *)
EXTENDS Settlement

MCBackoff == [attempt \in 0 .. MaxAttempts |-> IF attempt = 0 THEN 0 ELSE 1]

Resp(status, body, retry_after) ==
    [status |-> status, body |-> body, retry_after |-> retry_after]

(* One response of every class the client tells apart.                     *)
AllResponses ==
    { Resp(200, "valid", NoDelay),            \* commit done; for an event, ambiguous
      Resp(201, "valid", NoDelay),            \* event done; for a commit, ambiguous
      Resp(200, "malformed", NoDelay),
      Resp(503, "malformed", 1),
      Resp(429, "LIMIT_EXCEEDED", 3),         \* beyond the cap
      Resp(429, "malformed", 1),
      Resp(401, "UNAUTHORIZED", NoDelay),
      Resp(400, "UNKNOWN", NoDelay),
      Resp(404, "malformed", NoDelay),
      Resp(410, "malformed", NoDelay),
      Resp(409, "RESERVATION_EXPIRED", NoDelay),
      Resp(409, "BUDGET_EXCEEDED", 1),
      Resp(409, "RESERVATION_FINALIZED", NoDelay) }

(* For the larger instances: the classes whose handling differs, once.     *)
FewResponses ==
    { Resp(200, "valid", NoDelay), Resp(201, "valid", NoDelay),
      Resp(429, "LIMIT_EXCEEDED", 1),
      Resp(410, "malformed", NoDelay), Resp(409, "RESERVATION_FINALIZED", NoDelay) }
=============================================================================
