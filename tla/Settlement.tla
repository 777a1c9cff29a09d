----------------------------- MODULE Settlement -----------------------------
(***************************************************************************)
(* One spend on its way from the application to the budget ledger.         *)
(*                                                                         *)
(* The application hands the actual amount to ReservationGuard::commit,    *)
(* which journals it, posts the commit, retries it, turns to the event     *)
(* fallback once the reservation has expired, and keeps or removes the     *)
(* journal record.  Replays (flush_pending_commits, of this process or of  *)
(* another one that shares the directory) pick the record up and do the    *)
(* same.  The server is the environment: it may answer late, twice, with a *)
(* fault, or not at all, and a request whose sender has given up may still *)
(* be carried out.  A replay may belong to a client whose API key is no    *)
(* header value: the directory is the tenant's, whatever the key, and such *)
(* a client finds the records and can send nothing.                        *)
(*                                                                         *)
(* The bodies of the commit and of the event fallback, and with them the   *)
(* idempotency key, never change once the record is built, so a record     *)
(* keeps only its mode and its not_before.  Times are what is left of a    *)
(* delay: 0 stands for a deadline that has passed or was never set.        *)
(***************************************************************************)
EXTENDS ErrorClasses, FiniteSets

CONSTANTS
    Guard,            \* the ReservationGuard whose commit is called
    Replays,          \* replay tasks, each run any number of times
    BadKey,           \* those of clients whose API key is no header value; a
                      \* guard's client has reserved with its key
    IdemKey,          \* the idempotency key of the commit request
    Responses,        \* the HTTP responses the server may give
    MaxAttempts,      \* config.retry_max_attempts
    RetryEnabled,     \* config.retry_enabled
    Backoff,          \* backoff_delay, a function of the attempt
    RetryAfterCap,    \* retry::RETRY_AFTER_CAP
    JournalEnabled,   \* config.journal_enabled
    WriteFaults,      \* may writing a journal record fail?
    DiscardFaults,    \* may removing one fail?
    Overlap           \* may a replay load the record while another actor is
                      \* still settling it?

ASSUME ActorAssumption == Guard \notin Replays /\ BadKey \subseteq Replays
ASSUME ResponseAssumption == Responses \subseteq HttpResponse
ASSUME ConfigAssumption ==
    /\ MaxAttempts \in Nat
    /\ RetryAfterCap \in Nat
    /\ Backoff \in [0 .. MaxAttempts -> Nat]
    /\ {RetryEnabled, JournalEnabled, WriteFaults, DiscardFaults, Overlap}
          \subseteq BOOLEAN

VARIABLES
    rsv,        \* the reservation, as the server has it
    ledger,     \* the settlement requests the server has recorded
    late,       \* requests whose sender stopped waiting
    disk,       \* the journal record of the reservation
    pc,         \* per actor: where it is
    mode,       \* per actor: the mode of its copy of the record
    retries,    \* per actor: attempts the retry loop has spent
    wake,       \* per actor: what is left of its sleep
    reply,      \* per actor: the response to its outstanding request
    journaled,  \* commit's local of that name
    result,     \* what commit returned
    refused,    \* history: the server has refused the spend
    forsaken,   \* history: a client that could not send gave the spend up
    floor       \* history: what is left of the latest 429's Retry-After

serverVars == <<rsv, ledger, late, refused>>
actorVars == <<pc, mode, retries, wake, reply>>
vars == <<rsv, ledger, late, disk, pc, mode, retries, wake, reply, journaled,
          result, refused, forsaken, floor>>

Actors == {Guard} \cup Replays
JournalMode == {"Commit", "Event"}
Record == [mode : JournalMode, not_before : Nat]
NoRecord == [mode |-> "none", not_before |-> 0]
NoReply == [status |-> -1, body |-> "none", retry_after |-> NoDelay]
Request == [mode : JournalMode, key : {IdemKey}]
ResultKind == {"none", "ok", "pending", "err", "recovery_failed"}

TypeOK ==
    /\ rsv \in {"active", "committed", "expired"}
    /\ ledger \subseteq Request
    /\ late \subseteq Request
    /\ disk \in Record \cup {NoRecord}
    /\ pc \in [Actors -> {"idle", "sleep", "wait", "done"}]
    /\ mode \in [Actors -> JournalMode]
    /\ retries \in [Actors -> 0 .. MaxAttempts]
    /\ wake \in [Actors -> Nat]
    /\ reply \in [Actors -> Responses \cup {Lost, Unsent, NoReply}]
    /\ journaled \in BOOLEAN
    /\ result \in ResultKind
    /\ refused \in BOOLEAN
    /\ forsaken \in BOOLEAN
    /\ floor \in Nat

Init ==
    /\ rsv = "active"
    /\ ledger = {}
    /\ late = {}
    /\ disk = NoRecord
    /\ pc = [a \in Actors |-> "idle"]
    /\ mode = [a \in Actors |-> "Commit"]
    /\ retries = [a \in Actors |-> 0]
    /\ wake = [a \in Actors |-> 0]
    /\ reply = [a \in Actors |-> NoReply]
    /\ journaled = FALSE
    /\ result = "none"
    /\ refused = FALSE
    /\ forsaken = FALSE
    /\ floor = 0

-----------------------------------------------------------------------------
(* The pieces the handlers share.                                          *)

larger(x, y) == IF x >= y THEN x ELSE y
smaller(x, y) == IF x <= y THEN x ELSE y

(* Mutant: the server's delay is not journaled.                            *)
no_deadline(retry_after) == 0

(* What retry_deadline_ms leaves in not_before; None leaves no deadline.   *)
retry_deadline_ms(retry_after) ==
    IF retry_after = NoDelay THEN 0 ELSE smaller(retry_after, RetryAfterCap)

delay_for(attempt, e) ==
    IF e.retry_after = NoDelay THEN Backoff[attempt]
    ELSE larger(Backoff[attempt], smaller(e.retry_after, RetryAfterCap))

(* Mutant: every attempt has a key of its own.                             *)
fresh_key(a) == <<IdemKey, a, retries[a]>>

(* event_fallback_request reuses the commit's key, and the retries and the *)
(* replays reuse the request.                                              *)
idempotency_key(a) == IdemKey

RequestOf(a) == [mode |-> mode[a], key |-> idempotency_key(a)]

ExpectedStatus(m) == IF m = "Commit" THEN 200 ELSE 201

(* The Result of the call a is waiting in.                                 *)
Outcome(a) == post_json_strict(ExpectedStatus(mode[a]), reply[a])

(* Mutant: the attempts are not counted.                                   *)
retry_for_ever(a, e) == is_settlement_retryable(e) /\ RetryEnabled

(* The retry loop has another attempt for this error.                      *)
RetryOn(a, e) ==
    /\ is_settlement_retryable(e)
    /\ RetryEnabled
    /\ retries[a] < MaxAttempts

(* journal_pending returns whether the record reached the disk.            *)
journal_pending(entry, written) ==
    \/ written /\ JournalEnabled /\ disk' = entry
    \/ ~written /\ (~JournalEnabled \/ WriteFaults) /\ disk' = disk

discard_pending ==
    \/ JournalEnabled /\ disk' = NoRecord
    \/ (~JournalEnabled \/ DiscardFaults) /\ disk' = disk

BestEffortWrite(entry) == \E written \in BOOLEAN : journal_pending(entry, written)

Entry(m, not_before) == [mode |-> m, not_before |-> not_before]

(* a posts the request of mode m, with n attempts of its loop spent.  With *)
(* a key that is no header value the call returns without a request.       *)
Post(a, m, n) ==
    /\ pc' = [pc EXCEPT ![a] = "wait"]
    /\ mode' = [mode EXCEPT ![a] = m]
    /\ retries' = [retries EXCEPT ![a] = n]
    /\ wake' = [wake EXCEPT ![a] = 0]
    /\ reply' = [reply EXCEPT ![a] = IF a \in BadKey THEN Unsent ELSE NoReply]

(* a's future is over, its locals with it.                                 *)
Stop(a) ==
    /\ pc' = [pc EXCEPT ![a] = IF a = Guard THEN "done" ELSE "idle"]
    /\ mode' = [mode EXCEPT ![a] = "Commit"]
    /\ retries' = [retries EXCEPT ![a] = 0]
    /\ wake' = [wake EXCEPT ![a] = 0]
    /\ reply' = [reply EXCEPT ![a] = NoReply]

Return(a, kind) == result' = IF a = Guard THEN kind ELSE result

(* History: a 429 with Retry-After has been read; what it orders, up to the *)
(* cap, is not over before the floor is.                                   *)
NoteThrottling(a) ==
    floor' = IF reply[a].status = 429 /\ reply[a].retry_after # NoDelay
             THEN larger(floor, smaller(reply[a].retry_after, RetryAfterCap))
             ELSE floor

Answered(a) == pc[a] = "wait" /\ reply[a] # NoReply

-----------------------------------------------------------------------------
(* The client.                                                             *)

(* ReservationGuard::commit up to its first request: the record is written *)
(* first, and the request goes out whether or not that worked.             *)
Commit ==
    /\ pc[Guard] = "idle"
    /\ \E written \in BOOLEAN :
          /\ journal_pending(Entry("Commit", 0), written)
          /\ journaled' = written
    /\ Post(Guard, "Commit", 0)
    /\ UNCHANGED <<serverVars, result, forsaken, floor>>

(* flush_pending_commits finds the record; replay_pending_record sleeps    *)
(* until its not_before.                                                   *)
Load(a) ==
    /\ a \in Replays
    /\ pc[a] = "idle"
    /\ disk # NoRecord
    /\ Overlap \/ \A b \in Actors : pc[b] \in {"idle", "done"}
    /\ pc' = [pc EXCEPT ![a] = "sleep"]
    /\ mode' = [mode EXCEPT ![a] = disk.mode]
    /\ wake' = [wake EXCEPT ![a] = disk.not_before]
    /\ UNCHANGED <<serverVars, disk, retries, reply, journaled, result, forsaken, floor>>

(* The sleep before a replay's first request or before a retry ends.       *)
Wake(a) ==
    /\ pc[a] = "sleep"
    /\ wake[a] = 0
    /\ Post(a, mode[a], retries[a])
    /\ UNCHANGED <<serverVars, disk, journaled, result, forsaken, floor>>

(* Mutant: the record is removed only after a commit, not after an event.  *)
discard_commits_only(a) ==
    /\ Answered(a)
    /\ Outcome(a).kind = "Ok"
    /\ IF mode[a] = "Event" \/ (a = Guard /\ ~journaled)
       THEN disk' = disk ELSE discard_pending
    /\ Return(a, "ok")
    /\ Stop(a)
    /\ UNCHANGED <<serverVars, journaled, forsaken, floor>>

(* The call returns Ok: the record goes, if the guard thinks there is one. *)
Succeed(a) ==
    /\ Answered(a)
    /\ Outcome(a).kind = "Ok"
    /\ IF a = Guard /\ ~journaled THEN disk' = disk ELSE discard_pending
    /\ Return(a, "ok")
    /\ Stop(a)
    /\ UNCHANGED <<serverVars, journaled, forsaken, floor>>

(* Mutant: the observer writes the record as commit() first built it.      *)
event_observer_keeps_mode(e) ==
    IF e.retry_after # NoDelay
    THEN BestEffortWrite(Entry("Commit", retry_deadline_ms(e.retry_after)))
    ELSE disk' = disk

(* The observers handed to retry_observed and retry_event_observed.  The   *)
(* guard's commit observer looks at journaled; its event observer at       *)
(* whether there is a Retry-After, and not at journaled; a replay writes   *)
(* in any case.                                                            *)
guard_commit_observer(e) ==
    IF journaled THEN BestEffortWrite(Entry("Commit", retry_deadline_ms(e.retry_after)))
    ELSE disk' = disk

guard_event_observer(e) ==
    IF e.retry_after # NoDelay
    THEN BestEffortWrite(Entry("Event", retry_deadline_ms(e.retry_after)))
    ELSE disk' = disk

replay_observer(m, e) == BestEffortWrite(Entry(m, retry_deadline_ms(e.retry_after)))

observe(a, e) ==
    IF a # Guard THEN replay_observer(mode[a], e)
    ELSE IF mode[a] = "Commit" THEN guard_commit_observer(e)
    ELSE guard_event_observer(e)

(* One turn of the retry loop: observe, then sleep.                        *)
Retry(a) ==
    /\ Answered(a)
    /\ RetryOn(a, Outcome(a))
    /\ observe(a, Outcome(a))
    /\ NoteThrottling(a)
    /\ pc' = [pc EXCEPT ![a] = "sleep"]
    /\ wake' = [wake EXCEPT ![a] = delay_for(retries[a], Outcome(a))]
    /\ retries' = [retries EXCEPT ![a] = @ + 1]
    /\ reply' = [reply EXCEPT ![a] = NoReply]
    /\ UNCHANGED <<serverVars, mode, journaled, result, forsaken>>

(* The error is final for this call.                                       *)
Failed(a) ==
    /\ Answered(a)
    /\ Outcome(a).kind # "Ok"
    /\ ~RetryOn(a, Outcome(a))

Expired(a) == mode[a] = "Commit" /\ is_expired_commit(Outcome(a))

(* The commit came too late: the record turns to event mode and the event  *)
(* is posted.  The guard goes on whatever became of the write; a replay    *)
(* that could not write ends and leaves the record as it was.              *)
SwitchToEvent(a) ==
    /\ Failed(a)
    /\ Expired(a)
    /\ \/ a = Guard /\ ~journaled /\ disk' = disk /\ Post(a, "Event", 0)
       \/ \E written \in BOOLEAN :
             /\ a = Guard => journaled
             /\ journal_pending(Entry("Event", 0), written)
             /\ IF a = Guard \/ written THEN Post(a, "Event", 0) ELSE Stop(a)
    /\ UNCHANGED <<serverVars, journaled, result, forsaken, floor>>

(* Mutant: a replay drops what it could not settle.                        *)
durable_for_the_guard(a) ==
    requires_durable_replay(Outcome(a)) /\ a = Guard /\ journaled

Durable(a) ==
    requires_durable_replay(Outcome(a)) /\ (a = Guard => journaled)

(* The outcome is unknown or may still change: the record stays, with the  *)
(* server's delay in it.                                                   *)
Retain(a) ==
    /\ Failed(a)
    /\ ~Expired(a)
    /\ Durable(a)
    /\ BestEffortWrite(Entry(mode[a], retry_deadline_ms(Outcome(a).retry_after)))
    /\ Return(a, "pending")
    /\ NoteThrottling(a)
    /\ Stop(a)
    /\ UNCHANGED <<serverVars, journaled, forsaken>>

(* The error is handed to the caller and the record, if any, goes: the     *)
(* server has refused the spend, or nothing could be sent.                 *)
GiveUp(a) ==
    /\ Failed(a)
    /\ ~Expired(a)
    /\ ~Durable(a)
    /\ IF a = Guard /\ ~journaled THEN disk' = disk ELSE discard_pending
    /\ Return(a, IF mode[a] = "Commit" THEN "err" ELSE "recovery_failed")
    /\ forsaken' = (forsaken \/ Outcome(a).kind = "Config")
    /\ NoteThrottling(a)
    /\ Stop(a)
    /\ UNCHANGED <<serverVars, journaled>>

(* The caller drops the future, a flush reaches its timeout, or the        *)
(* process dies.  Handlers do one disk operation and then at most one      *)
(* send, so dying between the two is dying after both with the request     *)
(* never carried out.                                                      *)
Abort(a) ==
    /\ pc[a] \in {"sleep", "wait"}
    /\ late' = IF pc[a] = "wait" /\ reply[a] = NoReply
               THEN late \cup {RequestOf(a)} ELSE late
    /\ Stop(a)
    /\ UNCHANGED <<rsv, ledger, refused, disk, journaled, result, forsaken, floor>>

Handle(a) == Succeed(a) \/ Retry(a) \/ SwitchToEvent(a) \/ Retain(a) \/ GiveUp(a)

-----------------------------------------------------------------------------
(* The server and the network, as the client relies on them.               *)

Outstanding(a) == pc[a] = "wait" /\ reply[a] = NoReply

Respond(a, resp) == reply' = [reply EXCEPT ![a] = resp]

clientVars == <<disk, pc, mode, retries, wake, journaled, result, forsaken, floor>>

(* An event is always recordable; a commit while the reservation is live,  *)
(* or again under the key it was recorded under.  Recording is idempotent  *)
(* per endpoint and key.                                                   *)
Accepts(rq) == rq.mode = "Event" \/ rsv = "active" \/ rq \in ledger

Apply(rq) ==
    /\ Accepts(rq)
    /\ ledger' = ledger \cup {rq}
    /\ rsv' = IF rq.mode = "Commit" THEN "committed" ELSE rsv

Grant(a) ==
    /\ Outstanding(a)
    /\ Apply(RequestOf(a))
    /\ \E resp \in Responses :
          IsReceipt(ExpectedStatus(mode[a]), resp) /\ Respond(a, resp)
    /\ UNCHANGED <<clientVars, late, refused>>

Gone(a) ==
    /\ Outstanding(a)
    /\ mode[a] = "Commit"
    /\ rsv = "expired"
    /\ \E resp \in Responses : IsExpiry(resp) /\ Respond(a, resp)
    /\ UNCHANGED <<clientVars, serverVars>>

Refuse(a) ==
    /\ Outstanding(a)
    /\ \E resp \in Responses : IsRefusal(resp) /\ Respond(a, resp)
    /\ refused' = TRUE
    /\ UNCHANGED <<clientVars, rsv, ledger, late>>

(* An answer that tells nothing, with or without the effect.               *)
Blur(a) ==
    /\ Outstanding(a)
    /\ \E resp \in Responses :
          IsNoVerdict(ExpectedStatus(mode[a]), resp) /\ Respond(a, resp)
    /\ Apply(RequestOf(a)) \/ UNCHANGED <<ledger, rsv>>
    /\ UNCHANGED <<clientVars, late, refused>>

(* attempt_timeout passes or the connection breaks.                        *)
Timeout(a) ==
    /\ Outstanding(a)
    /\ Respond(a, Lost)
    /\ late' = late \cup {RequestOf(a)}
    /\ UNCHANGED <<clientVars, rsv, ledger, refused>>

ServeLate ==
    /\ \E rq \in late \ ledger : Apply(rq)
    /\ UNCHANGED <<clientVars, reply, late, refused>>

(* The reservation's TTL and grace period pass, whatever the heartbeat did. *)
Expire ==
    /\ rsv = "active"
    /\ rsv' = "expired"
    /\ UNCHANGED <<clientVars, reply, ledger, late, refused>>

elapse(t) == IF t > 0 THEN t - 1 ELSE 0

Tick ==
    /\ floor > 0 \/ disk.not_before > 0 \/ \E a \in Actors : wake[a] > 0
    /\ floor' = elapse(floor)
    /\ disk' = [disk EXCEPT !.not_before = elapse(@)]
    /\ wake' = [a \in Actors |-> elapse(wake[a])]
    /\ UNCHANGED <<serverVars, pc, mode, retries, reply, journaled, result, forsaken>>

-----------------------------------------------------------------------------
Client(a) == Load(a) \/ Wake(a) \/ Handle(a) \/ Abort(a)
Server(a) == Grant(a) \/ Gone(a) \/ Refuse(a) \/ Blur(a) \/ Timeout(a)

Next ==
    \/ Commit
    \/ \E a \in Actors : Client(a) \/ Server(a)
    \/ ServeLate
    \/ Expire
    \/ Tick

Spec == Init /\ [][Next]_vars

(* Time passes and sleepers wake.  A client that can send runs a flush as  *)
(* often as it takes, whatever another client does in between, and is not  *)
(* aborted every time it gets somewhere.  The server does not withhold its *)
(* verdict for ever.                                                       *)
Verdict(a) == Grant(a) \/ Gone(a)
TakeVerdict(a) == Succeed(a) \/ SwitchToEvent(a)

Fairness ==
    /\ WF_vars(Tick)
    /\ \A a \in Actors :
          /\ WF_vars(Handle(a))
          /\ SF_vars(Wake(a))
          /\ SF_vars(Verdict(a))
          /\ SF_vars(TakeVerdict(a))
    /\ \A a \in Replays \ BadKey : SF_vars(Load(a))

FairSpec == Spec /\ Fairness

-----------------------------------------------------------------------------
(* No spend is charged twice: whatever the retries, the replays, the late  *)
(* requests and the expiry, the server records at most one settlement of   *)
(* the reservation (guard.rs, commit: same key, event only after expiry).  *)
AtMostOnce == \A x, y \in ledger : x = y

(* An event is posted, pending, or journaled only for a reservation the    *)
(* server has let expire; a commit can then no longer be recorded beside   *)
(* it (guard.rs and client.rs, is_expired_commit).                         *)
EventNeedsExpiry ==
    rsv # "expired" =>
        /\ disk.mode # "Event"
        /\ \A a \in Actors : mode[a] # "Event"
        /\ \A rq \in ledger \cup late : rq.mode # "Event"

(* Once the first write has succeeded, the spend is on disk until the      *)
(* server has recorded it or refused it; commit's answer CommitPending     *)
(* therefore always has a record, or a settled spend, behind it.  README,  *)
(* durable commit recovery: success or an understood rejection removes the *)
(* record, and exhaustion, authentication failures and ambiguous answers   *)
(* retain it.                                                              *)
KeptUntilSettled == journaled => disk # NoRecord \/ ledger # {} \/ refused

(* The same but for what the code does when a key is no header value       *)
(* (client.rs, replay_pending_record: Config is Terminal): nothing else    *)
(* that goes wrong, at any actor, makes a journaled spend disappear.       *)
NeverForgotten ==
    journaled => disk # NoRecord \/ ledger # {} \/ refused \/ forsaken

(* commit's answers mean what they say: Ok that the spend is recorded, an  *)
(* ordinary error that the server refused it, unless there was no journal  *)
(* to fall back on.                                                        *)
OutcomeIsTruthful ==
    /\ result = "ok" => ledger # {}
    /\ result \in {"err", "recovery_failed"} /\ journaled => refused

(* Why AtMostOnce holds: a recorded commit has closed the reservation for  *)
(* good, an answer being read is true of the server, and so an event needs *)
(* the expiry that shuts commits out.                                      *)
CommitClosesReservation ==
    \A rq \in ledger : rq.mode = "Commit" => rsv = "committed"

AnswersAreTrue ==
    \A a \in Actors : Answered(a) =>
        \/ IsReceipt(ExpectedStatus(mode[a]), reply[a]) /\ ledger # {}
        \/ IsExpiry(reply[a]) /\ mode[a] = "Commit" /\ rsv = "expired"
        \/ IsRefusal(reply[a]) /\ refused
        \/ IsNoVerdict(ExpectedStatus(mode[a]), reply[a])
        \/ reply[a] = Unsent /\ a \in BadKey

(* Only a client with such a key gives up what is not settled.             *)
ForsakenByBadKey == forsaken => BadKey # {}

NothingReturnedYet == pc[Guard] = "idle" => result = "none"

SettlementInv ==
    /\ TypeOK
    /\ EventNeedsExpiry
    /\ CommitClosesReservation
    /\ AnswersAreTrue
    /\ NeverForgotten
    /\ ForsakenByBadKey
    /\ NothingReturnedYet
    /\ OutcomeIsTruthful

(* One actor at a time and a working disk: a proven success or an          *)
(* understood terminal rejection leaves no record behind.                  *)
SettledLeavesNoRecord == result \in {"ok", "err", "recovery_failed"} => disk = NoRecord

Sends(a) == Outstanding(a)' /\ ~Outstanding(a)

(* One actor at a time and a working disk: no request leaves before the    *)
(* Retry-After of the latest 429 is over, across retries, CommitPending,   *)
(* aborts and restarts (CHANGELOG 0.3.2).                                  *)
HonoursRetryAfter == [][\A a \in Actors : Sends(a) => floor = 0]_vars

(* One actor at a time: a record in event mode is never put back to commit *)
(* mode, so no restart retries a commit known to be lost (README, expired- *)
(* commit event fallback).                                                 *)
NeverBackToCommit == [][disk.mode = "Event" => disk'.mode # "Commit"]_vars

(* A journaled spend is in the end recorded or refused, unless a client    *)
(* that cannot send has dropped it.                                        *)
EventuallySettled == journaled ~> (ledger # {} \/ refused \/ forsaken)

(* A journaled spend does not stay in the journal for ever.                *)
JournalDrains == journaled ~> disk = NoRecord

(* The whole commit path, guard, replays, journal and server, keeps the    *)
(* promise of SpendObligation: the spend is owed while there is a record.  *)
Obligation == INSTANCE SpendObligation WITH owed <- disk # NoRecord

(* Removing the record is always backed by a recorded or refused spend, or *)
(* is the removal by a client that cannot send, and no step records a      *)
(* second settlement.                                                      *)
KeepsObligation == Obligation!Spec
=============================================================================
