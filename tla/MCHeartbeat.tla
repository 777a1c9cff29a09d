---------------------------- MODULE MCHeartbeat ----------------------------
(* Heartbeat on small instances; the unit is one second, or half of one.   *)
EXTENDS Heartbeat

Resp(status, body, retry_after) ==
    [status |-> status, body |-> body, retry_after |-> retry_after]

Create(expires, remaining, rtt, setup) ==
    [expiry |-> expires, known |-> TRUE, remaining |-> remaining,
     rtt |-> rtt, setup |-> setup]

(* The field is there: ample and slow, short, shorter than any reserve.    *)
FieldCreates == { Create(6, 8, 1, 1), Create(4, 4, 0, 0), Create(2, 2, 0, 0) }

(* One response of every class the loop tells apart: throttled without     *)
(* delay, with one that may fit the window, and with none; a server fault; *)
(* an ambiguous 2xx; a rejection; a permanent failure.                     *)
AllFailures ==
    { Resp(429, "LIMIT_EXCEEDED", 0), Resp(429, "malformed", 2),
      Resp(429, "malformed", NoDelay), Resp(503, "malformed", NoDelay),
      Resp(204, "malformed", NoDelay), Resp(400, "INVALID_REQUEST", NoDelay),
      Resp(409, "MAX_EXTENSIONS_EXCEEDED", NoDelay) }

(* For the larger instances: transient, throttled, permanent.              *)
FewFailures == { Resp(429, "LIMIT_EXCEEDED", 0), Resp(503, "malformed", NoDelay),
                 Resp(410, "malformed", NoDelay) }

(* The last one without expires_at_ms, which the protocol requires.        *)
MixedCreates == { Create(4, 4, 0, 0), Create(2, NoField, 0, 0),
                  [Create(2, NoField, 0, 0) EXCEPT !.known = FALSE] }

AllCreates == FieldCreates \cup MixedCreates

(* Whole and partly used leases of a server that says no more.            *)
FullLease == { Create(4, NoField, 0, 0), Create(2, NoField, 1, 1) }
SmallLease == { Create(4, NoField, 0, 0) }
=============================================================================
