# Verification of the Cycles Rust client

TLA+ models, TLC runs and TLAPS proofs for `cycles-client-rust`: a client that
reserves budget before an operation, keeps the reservation alive while the
operation runs, and records what was actually spent. The interesting promise is
the last one: **a spend that has happened is recorded exactly once**, through
timeouts, throttling, expiry of the reservation, process death and several
processes sharing one journal directory.

## Inventory of the system

| Component | State | Operations | Interacts with | What is hard | What makes it correct |
|---|---|---|---|---|---|
| Settlement (`guard.rs` `commit`, `recover_via_event`) | the pending record, `journaled`, the call's error | commit, retry, switch to the event, keep or remove the record | retry engine, journal, server, heartbeat | crash or cancellation at every await; late requests; expiry between two attempts | one charge; nothing forgotten; answers that mean what they say |
| Retry engine (`retry.rs`) | attempt, last error | observe, sleep, resend | settlement, replay | `Retry-After` against backoff; exhaustion | same request each time; never before the server's delay |
| Journal record (`journal.rs` `PendingCommitRecord`) | mode, bodies, `not_before_ms` | write, rewrite, remove, load | settlement, replay | several writers, each with its own copy | removed only when an attempt on it has ended for good |
| Journal files (`journal.rs` `CommitJournal`) | one file per reservation, legacy names, quarantine | publish by rename, remove, load, migrate | other processes | check-then-act on file names; read errors; power failure | no valid record lost, none half written |
| Replay (`client.rs` `flush_pending_commits`, `replay_pending_record`) | the loaded records, the once-only flag | load, wait, settle, keep or remove | settlement, journal, server | races with guards and other flushes; aborted flushes | as for settlement; the automatic pass runs once |
| Response classification (`client.rs`, `error.rs`, `enums.rs`) | none | strict success, error parsing, retryable, durable, expired | everything | a class that falls between two questions | agrees with the protocol on every response |
| Heartbeat (`heartbeat.rs`) | next beat, lead sample, pending key, grant ledger | beat, skip, recover, stop | server, guard (cancellation) | same-key retry, recovery window, zero-delay loops | never retries without room; never rotates an unresolved key |
| Guard lifecycle (`guard.rs`, `lifecycle.rs`) | `finalized`, the cancellation token | new, commit, release, drop, `with_cycles` | heartbeat, server | drop at any await | released exactly when unused; heartbeat ends |
| Reservation creation (`client.rs` `reserve`) | the request and its key | create, one same-key recovery, decision gate | server, guard | ambiguous first answer | at most one reservation |
| Fingerprint cache (`journal.rs` `auth_fingerprint`) | a bounded map shared by all threads | look up, compute outside the lock, clear, insert | journal directories | check and use under separate locks | one directory per server and principal; bounded |
| Retry-After (`client.rs`, `retry.rs`) | none | header to delay, delay to sleep, delay to journaled floor | retry engine, journal record, heartbeat | overflow, saturation, the cap | the server's delay is waited for, never more than an hour |
| Wire format (`client.rs` predicates, `models/`) | none | validate a body, decode it | response classification | two descriptions of one schema | what is accepted is decoded, and nothing of it is lost |
| Configuration (`config.rs`) | none | environment, builder, setters | everything | two lists of defaults; unreadable variables | both ways give one configuration |
| Blocking client (`blocking.rs`) | its runtime | the async client's calls | replay | the runtime goes with the client | its replay starts without blocking the constructor |
| Validation, request types, metadata, library root | none that lives between calls | - | - | - | - |

Guards and replays interact only through the journal and the server; the guard
and its heartbeat through a cancellation token and the server's view of the
reservation.

## Modules

| Module | What it is |
|---|---|
| `ErrorClasses` | responses, errors, and the client's questions about them; the protocol's own reading beside it |
| `SpendObligation` | the abstract promise: owed until recorded or refused, or forsaken by a client that cannot send; recorded at most once |
| `Settlement` | guard, replays, retry loops, journal record, time, server and network for one spend |
| `HeartbeatSchedule` | the heartbeat's arithmetic: cadence, reserve, window, ledger, on saturating words |
| `Heartbeat` | the heartbeat's loop, the lease on the server, and the network between |
| `GuardLifecycle` | one reservation from its create to its end: caller, guard, heartbeat task, spawned release, server |
| `JournalStore` | the abstract journal: one record per reservation, gone only once an attempt on it has ended Terminal; a power failure may undo the last write |
| `JournalFiles` | the journal's directory: `record`, `discard`, `load_pending` and the migration as file operations of several processes |
| `ClientStart` | construction of clients by several threads: the fingerprint cache, the once-only flag, the automatic replay and its runtime |
| `RetryAfter` | a `Retry-After` header from its text to a sleep or a journaled floor |
| `WireFormat` | JSON bodies: the schema predicates, the typed decoding, and what they owe each other |
| `Configuration` | environment and builder |
| `ErrorClassesProofs`, `SettlementProofs`, `HeartbeatScheduleProofs`, `HeartbeatProofs`, `GuardLifecycleProofs`, `JournalFilesProofs`, `ClientStartProofs`, `FunctionsProofs` | theorems and proofs |
| `MCFunctions`, `MCSettlement`, `MCHeartbeat`, `MCGuardLifecycle`, `MCJournalFiles`, `MCClientStart` | instances for TLC |

The modules meet where the components do. `Settlement` takes from `JournalFiles` that
one write or removal of a record is one step and that a load finds the last write:
`JournalStore` says so, and `JournalFiles` is shown to implement it. A power failure is
in `JournalFiles` and `JournalStore` only; `Settlement` is about a machine whose power
stays. It takes from
`ClientStart` that a replay may start at any time, and from `RetryAfter` the two
functions that make a delay of a header, there on words that saturate.

`GuardLifecycle` sees the other two from outside: of `Settlement` it keeps that a
commit is sent, repeated, refused or turned into an event, of `Heartbeat` that the
task sleeps, extends or has stopped.

### Settlement and the code

One reservation and one spend, since records of different reservations live in
different files and nothing else connects them. An *actor* is a running
settlement: the guard whose `commit` was called, or a replay task. The replays in
`BadKey` belong to clients whose API key is no header value. A guard's client has
reserved with its key, so it is never such a client; but a journal directory goes by
the tenant and not by the key, so the client of a replay may be.

| Model | Code |
|---|---|
| `disk` | the record's file: `mode` and `not_before_ms`; the bodies, and with them the idempotency key, never change after `PendingCommitRecord::commit`, so they are not carried along |
| `mode[a]`, `retries[a]`, `wake[a]` | the actor's own copy of the record's mode, the loop's attempt, what is left of its sleep |
| `reply[a]`, `pc[a] = "wait"` | an outstanding request and, once served, its response |
| `journaled`, `result` | `commit`'s local and what it returned |
| `rsv`, `ledger`, `late` | the server's reservation, what it recorded, and requests whose sender has stopped waiting but which may yet be carried out, once, several times or never |
| `Unsent` | `post_json_strict` has returned `Error::Config` and sent nothing (`client.rs:1080-1081`) |
| `refused`, `forsaken`, `floor` | history: the server has refused the spend; a client that cannot send has given it up; what is left of the last 429's `Retry-After` |
| `Commit` | `commit` up to the first request: journal write, then send, whatever the write did |
| `Load`, `Wake` | a flush picks the record up; the sleep before a first or repeated attempt ends |
| `Succeed`, `Retry`, `SwitchToEvent`, `Retain`, `GiveUp` | what the code does with the `Result` of a call, from the call's return to its next await or its end |
| `Abort` | the future is dropped: caller cancellation, flush timeout, process death |
| `Grant`, `Gone`, `Refuse`, `Blur`, `Timeout`, `ServeLate`, `Expire` | the server and the network |
| `Tick` | time: every remaining delay shrinks by one |

A handler contains at most one disk operation followed by at most one send, so
cutting it in two (a crash in between) gives nothing that `Abort` after it, with
the request never carried out, does not give already. Journal writes are atomic
because `CommitJournal::record` publishes by rename. `WriteFaults` and
`DiscardFaults` let them fail; `Overlap` lets a replay load the record while
another actor is at work (two processes of one principal, or a public flush
beside a running guard).

What is assumed of the server, which is not in this repository: it records a
settlement once per endpoint and key and answers a repetition of it with a
receipt; it takes a commit only while the reservation is live; it says 410 or
`RESERVATION_EXPIRED` only of an expired reservation (and not on a 429); it never
says so of an event. Everything else about it is free: it may refuse, fail,
throttle or stay silent at any time, with or without having acted.

### Heartbeat and the code

One task, from its anchor to its end. `HeartbeatSchedule` translates the pure
functions of `heartbeat.rs` one to one; `U64_MAX` is the word's maximum, so that
saturation is part of the model. `Heartbeat` keeps the loop's locals under their
names.

| Model | Code |
|---|---|
| `next_beat`, `delay`, `normative`, `max_rtt_ms`, `lead_sample`, `zero_delay_streak`, `zero_window_retried`, `prev_expiry`, `grants_sum_ms`, `last_grant_ms`, `last_success`, `pending_key` | the locals of those names; an `Instant` is a count from the anchor |
| `last_recovery` | the window and instant of the previous failure, a set of at most one |
| `pc = "select"` | `select!`: `Cancelled` and a due beat are both enabled, and either may win, since `select!` polls in random order |
| `Skip`, `Send` | the skip in fallback mode; the request under the pending or a fresh key |
| `ScheduleByField`, `ScheduleByLedger` | the `Ok` arm with and without `remaining_ttl_ms` |
| `GiveUp`, `Recover`, `RetryAtCadence` | the `Err` arms: the breaks, the normative retry, the fallback retry |
| `Extend`, `Refuse`, `Lose`, `ServeLate` | server and network: an extension carried out, a failure with or without effect, no answer, a late request |
| `Tick` | the clock; a request does not outlive its timeout, a sleeper wakes at most `Slip` late |

Client and server instants are written in one time frame. That gives the client
no knowledge: it only ever uses differences of two server instants or of two of its
own. The clocks are assumed to run at one rate, which the code assumes too. The unit
is one second, or half of one where the held cadence of half a small grant has to be
told from it; rounding up to milliseconds therefore has nothing to do.

The server extends once per key, repeats its answer for the key, and either adds a
grant to the expiry or stamps it with a maximum lead; it never shortens a lease. What
it reports as `remaining_ttl_ms` was true when it handled the request. Nothing is
assumed of what it grants.

### Guard lifecycle and the code

One call of `reserve` or `with_cycles` and everything it starts.

| Model | Code |
|---|---|
| `pc`, `attempt`, `reply` | the await at which the caller's future stands; the loop of `create_reservation_with_metadata_strict` |
| `id`, `finalized`, `cancelled`, `sweep` | the guard, its token, and the release task a drop has spawned |
| `beat` | the heartbeat task |
| `rsv`, `verdict`, `late` | the server's reservations and decisions, by idempotency key of the create; requests whose sender has gone |
| `Reserve`, `RetryCreate`, `CreateFails`, `Guard`, `AbandonCreate` | `reserve`: the first request or a validation error; the one recovery; every early return; the guard; the dropped future |
| `Commit`, `Release`, `Drop` | the operation's two ends in `with_cycles`, and a drop of guard or future at any await |
| `CommitSucceeds`, `CommitRepeats`, `CommitExpires`, `SettlementEnds`, `ReleaseEnds` | what becomes of `commit` and `release`; each end runs the guard's `Drop` (`DropGuard`) |
| `Sweep` | the spawned release |
| `Exit` | the end of the process, whatever was under way |

`DropGuard` cancels the token always and spawns a release only when the guard is not
finalized and a runtime is at hand. `commit` and `release` set the flag before their
first await; a `commit` future that is dropped without ever being polled is a plain
`Drop`, which is what the code does with it.

Of the create's response only the class matters. An unknown decision never reaches
the decision gate of `reserve`: the schema check turns it into an ambiguous answer
first, which is retried once. The guard's manual `extend` has no action: all it does
is move an expiry, and the model leaves the moment of expiry open.

### Journal files and the code

One directory, shared by every process of one server and principal, without a lock.

| Model | Code |
|---|---|
| `files` | the directory: the record under each name that ends in `.json`, or a file that does not parse or validate. Temporary and `.corrupt` files are not looked at by the code and not kept here |
| `path_for`, `legacy_path_for` | the functions of those names; standard names differ, legacy names may collide (the tests' `rsv/a` and `rsv_a`) |
| `op[p]` | the file operation process `p` does next, with the locals it does it with |
| `todo[p]`, `got[p]` | the names `read_dir` returned and not yet visited; `records` |
| `held[p]` | the records a process has loaded, or has written for a guard, and is not done with: what the callers of `journal_pending` and `discard_pending` have in hand |
| `StartRecord`, `Persist` | `record` up to the rename, with the temporary file written and synced; the rename |
| `StartDiscard`, `DropStandard`, `ReadLegacy`, `DropLegacy` | `discard`: called after a `Terminal` outcome; the standard file; the legacy file's identity; its removal |
| `StartLoad`, `Read`, `Quarantine`, `EndLoad` | `load_pending`: the names, one file at a time, the rename to `.corrupt`, the return |
| `Migrate`, `Compare`, `Dedupe`, `Move` | `migrate_legacy_path`: `exists`, the read of the standard file, the removal of a duplicate, the rename |
| `Crash`, `PowerFailure` | the end of a process between any two operations; the end of all, with the directory as the disk had it |
| `Conclude` | an attempt on a record in somebody's hands ends `Terminal`, whatever for: that the outcome justifies it is `Settlement`'s matter |
| `terminal`, `latest`, `undone`, `failed` | history: the reservations for which that has happened, the last record `record` has published of each, those of which a power failure took that record back, the failures there have been |

Every read of a file and every change of a name is a step, so another process may act
between `exists` and `rename`, or between the read of a file and its quarantine.
`Faults` says which operations may fail. A rename is seen at once and reaches the disk
later: `past` holds the directories a power failure may bring back, and a file that
was renamed without having been synced comes back unreadable. What `record` has
reported stays in `latest`, whatever the power does. `Lost` is the one exception the
properties make: the record whose publishing rename was the very last change of the
directory, and which the disk therefore need not have. Several `.corrupt`
files of one name replace each other, which loses nothing a load would look at.

`StoredIn` is what a load makes of a directory for one reservation: the standard file,
or else the legacy one. It is the refinement mapping to `JournalStore`. The initial
directories are what earlier processes and releases can have left: any choice of
standard, legacy and unreadable files in which the legacy copy is not the newer one.

### Client start and the code

| Model | Code |
|---|---|
| `pc[t]`, `client[t]` | where thread `t` stands in `from_builder`, `auth_fingerprint`, `start_journal_replay` or a flush, and for which client |
| `cache` | the map behind `CACHE`; a step is what one lock of it covers |
| `directory[c]` | the name of the client's journal directory; two digests do not collide |
| `started[c]` | `journal_replay_started`; a step is one atomic access |
| `task[c]`, `up` | the spawned replay; the runtime, which takes its tasks with it |
| `Construct`, `Lookup`, `Insert` | `from_builder` with `for_config`: hit, or computation outside the lock and insertion |
| `Request`, `StartFlush`, `Load` | a request, which starts the replay first; `flush_pending_commits`, which sets the flag without a look |
| `Swap`, `Spawn` | `start_journal_replay`: the swap; the spawn, or the reset of the flag where there is no runtime |
| `TaskFlush`, `TaskLoad` | the spawned task's own flush |

Threads outside the runtime only construct clients, since everything else needs the
runtime's reactor. A client is shared once its constructor has returned.

### The functions without state

`WireFormat` writes a JSON value as its type and the class of its content that some
check tells apart: integers by sign and by whether they fit `i64` and `u64`, texts by
what they spell or how long they are. The schema predicates of `client.rs` and the
derived decoding of `models/` are translated apart from each other, as they are
written apart. `RetryAfter` keeps the width of the words: `U64_MAX` is the largest,
`SECOND` the factor between header and delay, and the backoff's floating-point product
is any number or none. `Configuration` reduces a variable to unset, a number, the word
*false*, or something else, which is all `from_env` distinguishes.

## Runs

| Run | Instance | What it shows |
|---|---|---|
| `functions` | 14 statuses x 20 bodies x 3 delays x 2 endpoints; heartbeat samples, headers and clocks on a word of 13 values; the least and the fullest body of four calls with one field set to any value, taken away or added; environments with two variables set to anything | receipts, refusals, expiries and empty answers are read as such; what is retried is also kept; delays leave the reserve, one failure leaves a retry, allowed retries fit; the server's delay is waited for, inline and across a restart, never longer than the cap; an accepted body is decoded whole; no server fabricates a recovery; the environment acts as the builder |
| `settle_alone` | guard, a replay, a replay that cannot send, 13 response classes, 2 attempts, cap 2, no overlap, working disk, fairness | `Retry-After` is honoured across retries, `CommitPending` and restarts; event mode is never undone; a settled spend leaves no record; a journaled spend is settled or forsaken by the client that cannot send, and its record goes |
| `settle_overlap` | guard, a replay, a replay that cannot send, 5 response classes, 1 attempt, faults on, overlap on | at most one charge, events only after expiry, nothing forgotten but by the client that cannot send, truthful answers, refinement of `SpendObligation` |
| `stale_writer` | guard, one replay, 5 response classes, overlap on, working disk | expected violation: event mode can be overwritten |
| `unusable_key` | guard, and a replay that cannot send | expected violation: the record of an unsettled spend is removed |
| `beat_mixed` | field there or not, grants 0 and 8 or lead 6, 7 failure classes, losses, slip 2, 5 half seconds | the lead estimate is never too high; a scheduled or repeated request has its whole timeout left; one extension per beat, at most four requests at one instant, an honest ledger |
| `beat_ledger` | no field, full grants, failures, losses, cancellation, 16 s, fairness | bounded drift, an unbroken lease while nothing fails, and a cancelled task ends |
| `small_grant` | no field, grants of a tenth, nothing fails | expected violation: the cadence does not recover |
| `guard_life` | one call, five classes of unhelpful responses, fairness | one reservation at most, no operation without budget, spent budget stays spent, unspent budget comes back |
| `journal` | two processes, two reservations with one legacy name, failing writes, removals and renames, deaths, one power failure | a published record is kept until an attempt on it ends `Terminal`, but for one whose rename the power took back; none is half written; one task per spend and flush; refinement of `JournalStore`, which includes that no migration brings an older copy back |
| `unread_record` | one process, and a read that fails | expected violation: a valid record is quarantined for good |
| `client_start` | three threads, one outside the runtime; three clients of one tenant, two of them on one server with different keys; a cache of one; fairness | one automatic replay per client and none lost; a directory per principal |

Bounds of the settlement. One guard is all there is per reservation, because
`commit` consumes it. Two replays give every pair of stale copies plus the guard's
own; one of them cannot send, and only ever waits and removes, so two that send meet
as guard and replay. The proofs cover any number of either kind. One
retry attempt already has a first, a middle and an exhausted call; `settle_alone` has
two so that two backoffs differ. Delays of 0, 1 and beyond the cap are the cases
`delay_for` and `retry_deadline_ms` distinguish. Replays may load the record again
and again, so the number of restarts is not bounded. Time is kept as remaining
delays, so it is not bounded either.

Bounds of the heartbeat. `MaxTime` ends the clock: in `beat_mixed` 5 half seconds,
enough for a first beat of each short lease, its failure, recoveries and the next
schedule; in `beat_ledger` 16 s, eight cadences of the fallback, among them several
skips. `HELD_CADENCE_CAP_MS` and
`RECOVERY_CAP_MS` are scaled down with the leases so that both are reached.
`U64_MAX = 100` is out of reach in the loop; saturation is what `functions` checks
with a maximum of 12. The proofs bound neither the clock nor the word.

Bounds of the lifecycle: none but the single call; requests that are late, extensions
and commit repetitions are not counted.

Bounds of the journal. Files of different reservations meet only in a legacy name, so
two reservations are enough; the second one is another server's, so that in the run
nothing writes it and only its legacy file is at stake. Two processes give every pair
of interleaved operations. The disk is at most one change behind and the power fails
once; loads, writes and deaths are not counted. The proofs cover any number of
processes and reservations. In `client_start` a cache of one is full at every second
principal; constructions are as many as there are clients, requests and flushes are
not counted. A blank tenant, which counts as none, and clients without one are left to
`DirectoriesFollowPrincipals`, since a fourth client takes the run out of reach.

Bounds of the bodies: one field is wrong at a time, since the predicates and the
decoding look at one field at a time; nested objects are disturbed the same way, one
level down. Two variables of an environment are enough for the same reason.

Deadlock is not checked because a settled spend, a stopped heartbeat, a returned
caller, an empty journal and a runtime that has gone are ends.

Fairness of the settlement. Time passes and a sleeping actor wakes unless it is
aborted each time. A client that can send runs a flush as often as needed, whatever
another client does in between (strong fairness of `Load`, since each of them takes the
record out of the other's reach for a while): the code starts one per client and offers
`flush_pending_commits` for the rest. Nothing is assumed of a client that cannot send. The server does not withhold its
verdict for ever, and an actor is not aborted each and every time it holds one. These
are properties of the environment, not of the code; without them nothing can drain a
journal. No fairness is assumed of retries succeeding, of the reservation expiring,
or of the guard surviving. Liveness is checked without overlap and with a working disk:
when writes may fail for ever, or a stale copy may for ever be written back, no
fairness of the environment makes the journal drain.

Fairness of the heartbeat: the clock runs, a request ends (the code sets a timeout
on every one), its result is handled, and `select!`, which polls in random order, does
not overlook a cancelled token for ever. In `guard_life` an extension ends, the token
is seen now and then, and a lease nobody extends runs out; nothing is assumed of the
caller or of the release requests. In `client_start` the operating system runs every
thread and a runtime polls every task while it is there; no caller has to call, and
the runtime may go at any time.

## Proofs

Every safety property that a passing run checks is a theorem: the run shows it on an
instance, the theorem for all constants that the modules' assumptions allow, or, where
it needs more than those, under a hypothesis that is named and explained below.

`ErrorClassesProofs` shows for every status, code and delay that a response is read as
it is meant and that what is retried is kept.

`SettlementProofs` proves, for any set of replays, any number of attempts, any
backoff and cap, any set of responses, faults or not, overlap or not:

- `TypeCorrect`: types;
- `SettlementInvariant`: `SettlementInv` is inductive. `AtMostOnce` is not
  inductive by itself; the argument is that an accepted commit closes the
  reservation for good (`CommitClosesReservation`), that an answer stays true of
  the server until it is read (`AnswersAreTrue`), and that therefore the client
  touches event mode only once commits are shut out (`EventNeedsExpiry`);
- `ChargedAtMostOnce`, `EventsFollowExpiry`, `OutcomesAreTruthful`: from that invariant;
- `JournaledIsNeverForgotten`: a journaled spend keeps its record until it is recorded,
  refused, or forsaken by a client that cannot send; and
  `JournaledIsKeptUntilSettled`: where every client can send (`BadKey = {}`), until it is
  recorded or refused, without exception. `unusable_key` shows that the hypothesis is
  needed;
- `ImplementsObligation`: each step is a step of `SpendObligation` or a stutter,
  with the spend owed while the record exists. `Forsake`, the code's exception, is an
  action of the abstract promise and the only one by which an unsettled spend goes.

Its second part is what holds of actors that do not overlap on a disk that
works (`Isolated`), for the same constants and with or without a journal. `AloneInv` is
the inductive invariant: one actor at work at most, on the record that is on the disk and
in its mode (`RecordIsCurrent`); a journaled deadline and a sleep are never shorter than
what the server asked for, and an actor that waits for an answer has nothing left to wait
for (`FloorIsKept`); `commit` knows whether there is a record (`JournaledIsEnabled`). From
it follow `SettledSpendLeavesNoRecord`, `RetryAfterOutlived` (every send finds the floor
down) and `EventRecordStaysEvent`. The runs `stale_writer` and, for a failing first
write, the note on `README.md:246-247` below show why the hypothesis is there.

`HeartbeatScheduleProofs` proves the arithmetic for every word size and constant:
`DelaysLeaveReserve`, `AllowedRetriesFit`, `FailuresAffordRetry`. The saturating
operators agree with the exact ones wherever a result is acted upon.

`HeartbeatProofs` is about the loop, for every server, every set of failures, any
slowness of wake-ups and unbounded time:

- `HeartbeatTypeCorrect`, `ExtendsOncePerBeat` and `SampleIsHonest`, from `BaseInv`.
  The keys are the argument of the second: a fresh one is drawn only when the last is
  resolved (`KeysInOrder`), and the server acts once per key. For the third, an answer
  on its way was evaluated after the request was sent (`AnswerIsALowerBound`), so
  taking off the round trip gives a floor that ends before the lease does
  (`FloorIsALowerBound`);
- `LedgerNeverOverestimates`: `LedgerIsALowerBound`, from `LedgerInv`. The ledger sums
  differences of successive expiries; the sum telescopes as long as the last expiry the
  client knows is not beyond the server's, and an answer on its way lies between the two;
- `NeverLoopsBusily`: `NoBusyLoop`, from `BurstInv`. `RequestsLeft` says how many
  requests a due beat may still lead to at the same instant: it depends on the mode, on
  whether the beat lies in the past (a realigned beat is due at most now, and the next is
  later), on `zero_delay_streak` and on whether a recovery was made at this instant. Each
  request uses up at least one of them, and four is the most there is;
- `RequestsFitLease`: `LeaseCoversAttempt`, under the further assumption
  `Slip <= SECOND`. The beat is scheduled with a whole timeout and the least margin
  to spare (`ScheduleLeavesRoom`); waking up may use the margin and no more. Without
  the assumption it is false: a machine that sleeps through the lease loses it;
- `LeaseOutlivesHeartbeat`: `LeaseNeverLapses`, with and without the field, under
  `Favourable`: the server adds at least what is asked for, wake-ups use no more than
  the least margin, and a late wake-up with a whole request fits in the requested
  lease and, after the first delay, in the first one. `PaceInv` is the argument: as long
  as no request has failed, the next beat, its slip and its request end before the
  lease. A skip keeps that because it needs a lead of one and a half grants, a success because
  it adds a lease, and the cadence is at most half of one. `small_grant` shows what becomes
  of it on a server that adds less, and a lead-clamping server is left out for the same
  reason: without the field the client cannot tell one from the other;
- `ExpiryStaysClose`: `BoundedDrift`, under `LedgerOnly`: no field, and no grant or lead
  beyond the lease asked for. `DriftInv` bounds the ledger, which is what a skip looks
  at, and the expiry by the ledger: what the ledger does not know of is one extension at
  most, the outstanding one (`Ahead`). With the field the client schedules by what the
  server says and no such bound is meant.

`GuardLifecycleProofs` proves `LifecycleInv` inductive for every set of responses
that are no receipts, and from it `LifecycleTypeCorrect`, `CallReservesOnce` (every
create, late ones included, carries the caller's key), `GuardsAreReal` (a receipt that
grants is only ever an answer to the one decision) and `SpendStaysSpent`. The last
needs the strengthening `NoReleaseYet`: while the operation runs, and ever after it
has returned a cost, no release exists anywhere, neither in a task nor in the network.

`JournalFilesProofs` proves, for any number of processes, reservations, names and
collisions, with failing writes, removals and renames, deaths and a power failure, and
under the hypothesis that no read fails (the run `unread_record` shows why it is there):

- `FilesInvariant`: `FilesInv` is inductive. `KeptUntilTerminal` alone is not; the
  argument is what a process may rely on between two operations (`OperationInv`): a
  discard comes only after a `Terminal` outcome; a file about to be quarantined is unreadable, or
  its reservation has no record any more; a legacy file is removed or moved only while
  the name holds the record that was read from it, and as a duplicate only when the
  standard file exists or the record is terminal. `OwnName` keeps records under their own
  two names. `PastInv` says the same of what a power failure may bring back, and that
  such a directory lacks no record the present one has but the one just renamed
  (`Lost`);
- `TypeCorrect`, `RecordsAreKept`, `NoTornRecord`: from that invariant. A power failure
  leaves `latest` alone, so the last two speak of every record that was ever published.
  `RecordsAreKept` excepts the records in `undone`, one at most;
- `LastInvariant`, which adds `MigrationInv` (until a rename fails, whoever may write a
  record has it under its standard name, so a legacy file moves only to a free one),
  and from it `LastWriteIsFound`;
- `OneTaskPerSpend`: `OncePerFlush`, from `FlushInv`. A load visits a name once, so a
  record could be found twice only under its two names. Once a spend that is not terminal has been
  found, its standard name is not visited any more, and if it was found there, the
  standard file is still there, so that a legacy file visited later is seen to be a
  duplicate; a legacy file is moved only for a spend not found yet (`OnceInv`). Other
  processes cannot disturb that, since nobody takes the standard file of such a
  spend away (`StandardStays`). The property itself excepts the case in which a removal
  has failed;
- `DirectoryImplementsStore`: every file operation is a step of `JournalStore` or a
  stutter.

`ClientStartProofs` proves for any threads, clients and limit `TypeCorrect`,
`ReplayStartsOnce` (the flag is set from the swap on until it is reset, and only one
thread stands between the two), `DirectoriesFollowPrincipals` (an entry of the cache is
the fingerprint of its key, whoever computed it) and `CacheKeepsItsBound`.

`FunctionsProofs` proves what `functions` checks on bounded inputs:

- `VerdictsAreAlwaysRead`, `RetriesAlwaysStayDurable` for every set of statuses,
  `ReserveAlwaysSuffices` for every word size;
- `InlineWaits`, `FloorsHold` for every header, backoff, cap, pair of clock readings and
  word size, and with them `RetryAfterIsAlwaysHonoured`;
- `AcceptedBodiesAreKept` and `RecoveriesAreOurs` for JSON values of any size and depth:
  all they ask of the values is a set that holds the components of its members
  (`IsJson`). For each type the proof follows the schema predicate field by field and
  shows that the decoding gives the field back. The bodies the model draws are in such a
  set (`BodiesAreJson`), which gives `AcceptedAlwaysLosesNothing` and
  `RecoveryIsAlwaysClientSide`;
- `EnvironmentIsABuilder` for every assignment of settings to variables, and
  `EnvironmentAlwaysActsAsBuilder` for those the model draws. The setters are folded over
  the set of variables by a recursive function; that it comes to one closed form
  whatever variable is taken first (`SettersCommute`) is shown by a least counterexample
  among the subsets of `Options`, which are well-founded.

The proofs rest on the constants' assumptions in the modules (the guard is not a
replay, responses are HTTP responses, the create response's lease was true at some
moment of its round trip, numbers have their types) and on the server as modelled.

Only model-checked: liveness, which is beyond the prover (`EventuallySettled`,
`JournalDrains`, `CancelStops`, `BudgetComesBack`, `StartLeadsToReplay`). The four
expected violations are counterexamples and have nothing to prove.

## What the models disagree with

Four statements of the documentation are stronger than the code; each has a run
that exhibits the difference and an entry under `findings`: the event mode of a
record can be undone by a stale writer, a replay that cannot send its API key removes
the record of a spend nobody has settled, a record that cannot be read once is never
retried, and the fallback's cadence does not recover from a small real grant. None of
them charges a spend twice; the second and the third can lose one; the last lets a lease
lapse under a server that grants little and does not report the remaining lease.

The second in full: a client whose key is no header value, one with a trailing newline
after a rotation, say, has the tenant's directory (`journal.rs:276-279`). Its flush loads
the tenant's records, each request returns `Error::Config` before anything is sent
(`client.rs:1080-1081`), `requires_durable_replay` is false for that error, so the outcome
is `Terminal` (`client.rs:606`), and the record is removed and counted as settled
(`client.rs:618-622`).

Further places where the prose says more than the code does, met while modelling and
not given a run:

- `heartbeat.rs:128` says that `lead_min` never over-estimates. A backward move of
  the expiry is clamped to a grant of zero, so it does for a server that shortens a
  lease; `LedgerIsALowerBound` is for servers that do not.
- `heartbeat.rs:84` and `189-192` describe the fallback as taking any 2xx for an
  applied extension; both modes use the strict predicate, as the comment in the loop
  (564-566) says.
- An abandoned or twice failed create can leave a live reservation without a guard,
  and a release that is dropped before it is sent leaves one too; both end with the
  lease (`BudgetComesBack`), not with a request.
- `README.md:246-247` says that a proven success removes the record. When the first
  journal write fails, `journaled` stays false; the event retry observer
  (`guard.rs:344`) writes a record all the same, and the success that follows does not
  remove it. `SettledLeavesNoRecord` is therefore checked with a working disk. The
  record is replayed under the same key, so nothing is charged twice.
- `README.md:243` says that the spend is written to a durable journal before the first
  request. `record` syncs the file and not the directory it is renamed in, so a power
  failure can take the rename back after `record` has returned and `commit` has sent its
  request. `PowerFailure` does that; the record is then in `undone`, and excepted from
  `KeptUntilTerminal`, which without the exception fails within four steps.
- `error.rs:48-49` says of `CommitRecoveryFailed` that the spend is not recorded. Without
  a journal it is also returned when every answer to the event was lost
  (`guard.rs:382-393`), and the server may have recorded the event. `OutcomeIsTruthful`
  claims nothing for a commit without a record.
- `journal_replay_started` stays set when the spawned replay dies with its runtime, so a
  client used again in another runtime does not replay by itself.
- A commit's `cycles_evidence` is validated and then dropped: `CommitResponse` has no
  field for it (`Untyped` in `WireFormat`).
- `common.rs:188-190` says that a tool must be in the allowlist if there is one and must
  not be in the denylist if there is one; with a nonempty allowlist the denylist is not
  looked at (`is_tool_allowed`).
- `not_before_ms` is a wall-clock time. When the clock is set back after it was written,
  the replay waits longer by as much (`client.rs:565`), beyond the hour that
  `RetryAfterIsHonoured` finds for a clock that does not go back.
- `build_blocking` (`config.rs:261`) ignores a client given with `http_client`.

## Not modelled, and the plan

Left for later, in this order:

1. An abstract lease (kept, or known to be lost) that `Heartbeat` under the field is
   shown to implement, and `GuardLifecycle` composed with it in place of `beat`.
2. Theorems: `GuardLifecycle` as an implementation of one reservation that is held, then
   spent, released or expired; the directory without the hypothesis on reads, for the
   reservations none of whose files has failed to be read.

Left out for good:

- the argument checks of `validation.rs` and the request types: they refuse a call before
  anything has happened, and have no state;
- the lenient calls (`post_json`, `get_json`: decide, balances, listings) and the types
  only they use: one request, one answer, nothing kept;
- `enrich_budget_not_found`, which changes only a message, response metadata, which
  nothing depends on, and the library's re-exports;
- the guard's manual `extend`, whose only effect is an expiry the models leave open;
- of the blocking client everything but its runtime: each call is the async one;
- file permissions, the choice of the home directory, CI scripts and examples.
