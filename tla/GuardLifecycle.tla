--------------------------- MODULE GuardLifecycle ---------------------------
(***************************************************************************)
(* One use of the client: a reservation is created, a guard holds it while *)
(* the caller's operation runs, and commit, release or the guard's drop    *)
(* ends it.  Any of these futures may be dropped by the caller, and the    *)
(* process may die, at any moment.                                         *)
(*                                                                         *)
(* Of the heartbeat only its task is kept (Heartbeat has the rest): it     *)
(* runs, has an extension under way, or has stopped.  Of the settlement    *)
(* only that its commit may be sent, lost and repeated, and that it may    *)
(* turn to an event (Settlement has the rest).  Time is reduced to what    *)
(* the server does with a lease nobody extends.                            *)
(***************************************************************************)
EXTENDS ErrorClasses, FiniteSets

CONSTANT Ambiguous     \* responses that prove nothing, and refusals

ASSUME AmbiguousAssumption ==
    /\ Ambiguous \subseteq HttpResponse
    /\ \A resp \in Ambiguous : ~IsReceipt(200, resp)

Keys == {"callers", "fresh"}    \* idempotency keys of create requests
NoId == "none"

VARIABLES
    pc,            \* where the caller's future is suspended
    attempt,       \* of create_reservation_with_metadata_strict
    reply,         \* the create response, once there
    id,            \* the reservation the guard holds, by its create key
    ran,           \* what the operation returned: "no", "ok" or "err"
    finalized,     \* the guard's flag
    cancelled,     \* its CancellationToken
    beat,          \* the heartbeat task: "none", "sleep", "extend", "stopped"
    sweep,         \* the release task a drop has spawned is at work
    late,          \* requests whose sender has stopped waiting
    rsv,           \* the server's reservations
    verdict        \* the server's decisions, by key

callerVars == <<pc, attempt, reply, ran>>
guardVars == <<id, finalized, cancelled, sweep>>
serverVars == <<rsv, verdict>>
vars == <<callerVars, guardVars, beat, late, serverVars>>

Request == [kind : {"create", "commit", "release"}, key : Keys]
Reply == [resp : Response, granted : BOOLEAN]
NoReply == [resp |-> Lost, granted |-> TRUE]
LostReply == [resp |-> Lost, granted |-> FALSE]
Received == [status |-> 200, body |-> "valid", retry_after |-> NoDelay]

TypeOK ==
    /\ pc \in {"idle", "create", "run", "commit", "event", "release", "done"}
    /\ attempt \in 0 .. 1
    /\ reply \in Reply
    /\ id \in {NoId} \cup Keys
    /\ ran \in {"no", "ok", "err"}
    /\ {finalized, cancelled, sweep} \subseteq BOOLEAN
    /\ beat \in {"none", "sleep", "extend", "stopped"}
    /\ late \subseteq Request
    /\ rsv \in [Keys -> {"none", "live", "expired", "committed", "released"}]
    /\ verdict \in [Keys -> {"open", "granted", "denied"}]

Init ==
    /\ pc = "idle" /\ attempt = 0 /\ reply = NoReply /\ ran = "no"
    /\ id = NoId /\ finalized = FALSE /\ cancelled = FALSE /\ sweep = FALSE
    /\ beat = "none"
    /\ late = {}
    /\ rsv = [k \in Keys |-> "none"]
    /\ verdict = [k \in Keys |-> "open"]

-----------------------------------------------------------------------------
(* Creating the reservation.                                               *)

(* Mutant: the recovery request is a new one.                              *)
key_per_attempt(n) == IF n = 0 THEN "callers" ELSE "fresh"

create_key(n) == "callers"

Asked == [kind |-> "create", key |-> create_key(attempt)]

(* A request that fails validation, or whose API key is no header value, is *)
(* never sent.                                                             *)
Reserve ==
    /\ pc = "idle"
    /\ pc' \in {"create", "done"}
    /\ UNCHANGED <<attempt, reply, ran, guardVars, beat, late, serverVars>>

created == post_json_strict(200, reply.resp)
CreateAnswered == pc = "create" /\ reply # NoReply

(* Mutant: the recovery is not limited to one.                             *)
recovers_again(e) == e.kind # "Ok"

recoverable(e) ==
    /\ attempt = 0
    /\ \/ e.kind \in {"Transport", "Deserialization"}
       \/ e.kind = "Api" /\ e.status >= 500

RetryCreate ==
    /\ CreateAnswered /\ created.kind # "Ok" /\ recoverable(created)
    /\ attempt' = attempt + 1
    /\ reply' = NoReply
    /\ UNCHANGED <<pc, ran, guardVars, beat, late, serverVars>>

(* An error, a denial, or an allowance that names no reservation.          *)
CreateFails ==
    /\ CreateAnswered
    /\ \/ created.kind # "Ok" /\ ~recoverable(created)
       \/ created.kind = "Ok" /\ ~reply.granted
    /\ pc' = "done"
    /\ UNCHANGED <<attempt, reply, ran, guardVars, beat, late, serverVars>>

(* ReservationGuard::new starts the heartbeat; the operation runs.         *)
Guard ==
    /\ CreateAnswered /\ created.kind = "Ok" /\ reply.granted
    /\ pc' = "run"
    /\ id' = create_key(attempt)
    /\ beat' = "sleep"
    /\ UNCHANGED <<attempt, reply, ran, finalized, cancelled, sweep, late, serverVars>>

-----------------------------------------------------------------------------
(* Ending it.  The guard is consumed: every end runs its Drop.             *)

(* Mutant: the heartbeat is left to itself.                                *)
DropGuardOnly ==
    /\ IF finalized THEN UNCHANGED sweep ELSE sweep' \in BOOLEAN
    /\ UNCHANGED <<id, finalized, cancelled>>

(* Without a runtime at hand no release task is spawned.                   *)
DropGuard ==
    /\ cancelled' = TRUE
    /\ IF finalized THEN UNCHANGED sweep ELSE sweep' \in BOOLEAN
    /\ UNCHANGED <<id, finalized>>

Outstanding == IF pc \in {"commit", "release"} THEN {[kind |-> pc, key |-> id]} ELSE {}
Sweeping == IF sweep THEN {[kind |-> "release", key |-> id]} ELSE {}
Creating == IF pc = "create" /\ reply = NoReply THEN {Asked} ELSE {}

(* Mutant: commit leaves the flag to its end.                              *)
CommitUnflagged ==
    /\ pc = "run"
    /\ pc' = "commit" /\ ran' = "ok"
    /\ UNCHANGED <<attempt, reply, guardVars, beat, late, serverVars>>

(* The operation has returned its cost.                                    *)
Commit ==
    /\ pc = "run"
    /\ pc' = "commit" /\ ran' = "ok"
    /\ finalized' = TRUE
    /\ UNCHANGED <<attempt, reply, id, cancelled, sweep, beat, late, serverVars>>

(* The operation has failed.                                               *)
Release ==
    /\ pc = "run"
    /\ pc' = "release" /\ ran' = "err"
    /\ finalized' = TRUE /\ cancelled' = TRUE
    /\ UNCHANGED <<attempt, reply, id, sweep, beat, late, serverVars>>

CommitSucceeds ==
    /\ pc = "commit" /\ rsv[id] \in {"live", "committed"}
    /\ rsv' = [rsv EXCEPT ![id] = "committed"]
    /\ pc' = "done"
    /\ DropGuard
    /\ UNCHANGED <<attempt, reply, ran, beat, late, verdict>>

(* No verdict: the request may yet be carried out, and is repeated.        *)
CommitRepeats ==
    /\ pc = "commit"
    /\ late' = late \cup Outstanding
    /\ UNCHANGED <<callerVars, guardVars, beat, serverVars>>

(* The heartbeat is stopped before the fallback.                           *)
CommitExpires ==
    /\ pc = "commit" /\ rsv[id] = "expired"
    /\ pc' = "event"
    /\ cancelled' = TRUE
    /\ UNCHANGED <<attempt, reply, ran, id, finalized, sweep, beat, late, serverVars>>

(* Pending, rejected, or recorded as an event.                             *)
SettlementEnds ==
    /\ pc \in {"commit", "event"}
    /\ pc' = "done"
    /\ late' \in {late, late \cup Outstanding}
    /\ DropGuard
    /\ UNCHANGED <<attempt, reply, ran, beat, serverVars>>

released(r, k) == IF r[k] = "live" THEN [r EXCEPT ![k] = "released"] ELSE r
recorded(r, k) == IF r[k] = "live" THEN [r EXCEPT ![k] = "committed"] ELSE r

ReleaseEnds ==
    /\ pc = "release"
    /\ \/ rsv' = released(rsv, id) /\ UNCHANGED late
       \/ late' = late \cup Outstanding /\ UNCHANGED rsv
    /\ pc' = "done"
    /\ DropGuard
    /\ UNCHANGED <<attempt, reply, ran, beat, verdict>>

(* The caller drops the guard, or the future that holds it: cancellation   *)
(* or a panic.                                                             *)
Drop ==
    /\ pc \in {"run", "commit", "event", "release"}
    /\ pc' = "done"
    /\ late' = late \cup Outstanding
    /\ DropGuard
    /\ UNCHANGED <<attempt, reply, ran, beat, serverVars>>

(* Before there is a guard, there is nothing to drop.                      *)
AbandonCreate ==
    /\ pc = "create"
    /\ pc' = "done"
    /\ late' = late \cup Creating
    /\ UNCHANGED <<attempt, reply, ran, guardVars, beat, serverVars>>

(* The spawned task: its request is carried out, or lost.                  *)
Sweep ==
    /\ sweep /\ sweep' = FALSE
    /\ \/ rsv' = released(rsv, id) /\ UNCHANGED late
       \/ late' = late \cup Sweeping /\ UNCHANGED rsv
    /\ UNCHANGED <<callerVars, id, finalized, cancelled, beat, verdict>>

-----------------------------------------------------------------------------
(* The heartbeat task.                                                     *)

(* A due beat may win against a cancelled token (select! is random).       *)
BeatDue ==
    /\ beat = "sleep"
    /\ beat' = "extend"
    /\ UNCHANGED <<callerVars, guardVars, late, serverVars>>

(* An answer, no answer, or a reason to give up.                           *)
BeatEnds ==
    /\ beat = "extend"
    /\ beat' \in {"sleep", "stopped"}
    /\ UNCHANGED <<callerVars, guardVars, late, serverVars>>

BeatCancelled ==
    /\ beat = "sleep" /\ cancelled
    /\ beat' = "stopped"
    /\ UNCHANGED <<callerVars, guardVars, late, serverVars>>

-----------------------------------------------------------------------------
(* The server, the network, and the end of the process.                    *)

(* A decision is made once per key.                                        *)
Decide(k) ==
    IF verdict[k] # "open" THEN UNCHANGED serverVars
    ELSE \/ /\ verdict' = [verdict EXCEPT ![k] = "granted"]
            /\ rsv' = [rsv EXCEPT ![k] = "live"]
         \/ /\ verdict' = [verdict EXCEPT ![k] = "denied"]
            /\ UNCHANGED rsv

Awaited == pc = "create" /\ reply = NoReply

Answer ==
    /\ Awaited
    /\ Decide(Asked.key)
    /\ reply' = [resp |-> Received, granted |-> verdict'[Asked.key] = "granted"]
    /\ UNCHANGED <<pc, attempt, ran, guardVars, beat, late>>

(* Carried out or not, the response proves nothing.                        *)
Blur ==
    /\ Awaited
    /\ Decide(Asked.key) \/ UNCHANGED serverVars
    /\ \E resp \in Ambiguous, granted \in BOOLEAN :
          reply' = [resp |-> resp, granted |-> granted]
    /\ UNCHANGED <<pc, attempt, ran, guardVars, beat, late>>

Lose ==
    /\ Awaited
    /\ late' = late \cup {Asked}
    /\ reply' = LostReply
    /\ UNCHANGED <<pc, attempt, ran, guardVars, beat, serverVars>>

ServeLate ==
    /\ \E req \in late :
          /\ late' = late \ {req}
          /\ \/ req.kind = "create" /\ Decide(req.key)
             \/ /\ req.kind = "commit" /\ rsv' = recorded(rsv, req.key)
                /\ UNCHANGED verdict
             \/ /\ req.kind = "release" /\ rsv' = released(rsv, req.key)
                /\ UNCHANGED verdict
    /\ UNCHANGED <<callerVars, guardVars, beat>>

(* A lease may run out under a heartbeat that does not get through ...     *)
Attended(k) == k = id /\ beat \in {"sleep", "extend"}

Expire(k) ==
    /\ rsv[k] = "live"
    /\ rsv' = [rsv EXCEPT ![k] = "expired"]
    /\ UNCHANGED <<callerVars, guardVars, beat, late, verdict>>

ExpireAttended == \E k \in Keys : Attended(k) /\ Expire(k)

(* ... and does run out when there is none.                                *)
ExpireUnattended == \E k \in Keys : ~Attended(k) /\ Expire(k)

Exit ==
    /\ pc # "done" \/ beat \in {"sleep", "extend"} \/ sweep
    /\ pc' = "done" /\ beat' = "stopped" /\ sweep' = FALSE
    /\ late' = late \cup Outstanding \cup Sweeping \cup Creating
    /\ UNCHANGED <<attempt, reply, ran, id, finalized, cancelled, serverVars>>

Next ==
    \/ Reserve \/ RetryCreate \/ CreateFails \/ Guard \/ AbandonCreate
    \/ Commit \/ Release \/ Drop
    \/ CommitSucceeds \/ CommitRepeats \/ CommitExpires \/ SettlementEnds \/ ReleaseEnds
    \/ Sweep
    \/ BeatDue \/ BeatEnds \/ BeatCancelled
    \/ Answer \/ Blur \/ Lose \/ ServeLate
    \/ ExpireAttended \/ ExpireUnattended
    \/ Exit

Spec == Init /\ [][Next]_vars

(* An extension ends, select! looks at the token now and then, and a lease *)
(* nobody extends runs out.  Nothing is assumed of the caller.             *)
FairSpec ==
    /\ Spec
    /\ WF_vars(BeatEnds) /\ SF_vars(BeatCancelled)
    /\ WF_vars(ExpireUnattended)

-----------------------------------------------------------------------------
(* The recovery of a create, a late first request and a cancelled caller   *)
(* together reserve at most once (client.rs,                               *)
(* create_reservation_with_metadata_strict).                               *)
ReservesAtMostOnce == Cardinality({k \in Keys : rsv[k] # "none"}) <= 1

(* The operation runs only under a reservation the server has made         *)
(* (client.rs, reserve: strict success and positive allowance).            *)
RunsOnlyWhenGranted == id # NoId => rsv[id] # "none"

(* Budget that has been spent is not given back: from the moment the cost  *)
(* is known no drop, cancellation or late request releases the reservation *)
(* (guard.rs, finalized).                                                  *)
SpentIsNotReleased == ran = "ok" => rsv[id] # "released"

(* Whatever becomes of the caller, the budget is not held for ever         *)
(* (guard.rs, Drop: the token is always cancelled).                        *)
BudgetComesBack == pc = "done" ~> \A k \in Keys : rsv[k] # "live"

-----------------------------------------------------------------------------
(* The inductive invariant behind the safety properties.                   *)

(* Every create carries the caller's key.                                  *)
OneKey ==
    /\ rsv["fresh"] = "none" /\ verdict["fresh"] = "open"
    /\ id \in {NoId, "callers"}
    /\ \A req \in late : req.key = "callers"

(* Reservations, readable grants and guards come from the server.          *)
GrantsAreReal ==
    /\ rsv["callers"] # "none" <=> verdict["callers"] = "granted"
    /\ CreateAnswered /\ IsReceipt(200, reply.resp) /\ reply.granted
           => rsv["callers"] # "none"
    /\ id # NoId => rsv["callers"] # "none"

PhasesFit ==
    /\ pc = "idle" => reply = NoReply
    /\ pc \in {"idle", "create", "run"} => ran = "no"
    /\ pc \in {"idle", "create"} => id = NoId
    /\ pc \in {"run", "commit", "event", "release"} => id # NoId
    /\ pc \in {"commit", "event"} => ran = "ok"
    /\ pc = "release" => ran = "err"
    /\ ran # "no" => finalized /\ id # NoId
    /\ sweep => id # NoId

(* No release is under way while the operation runs, or once it has cost.  *)
NoReleaseYet ==
    ran = "ok" \/ pc \in {"idle", "create", "run"} =>
        /\ ~sweep
        /\ \A req \in late : req.kind # "release"
        /\ rsv["callers"] # "released"

LifecycleInv == TypeOK /\ OneKey /\ GrantsAreReal /\ PhasesFit /\ NoReleaseYet
=============================================================================
