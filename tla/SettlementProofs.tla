-------------------------- MODULE SettlementProofs --------------------------
(* Settlement for every set of replays, every configuration and every set  *)
(* of responses: types, at most one charge, no forgotten spend, and the    *)
(* refinement of SpendObligation; and, for actors that do not overlap on a *)
(* disk that works, records that go when they are settled, delays that are *)
(* waited out, and modes that do not go back.                              *)
EXTENDS Settlement, ErrorClassesProofs

-----------------------------------------------------------------------------
(* Types.                                                                  *)

(* NoReply is neither a response nor the lack of one.                      *)
LEMMA Replies ==
    /\ NoReply \notin Response \cup {Unsent}
    /\ Lost \in Response
    /\ Responses \subseteq Response
BY ResponseAssumption DEF NoReply, Response, HttpResponse, Lost, Unsent, NoStatus

LEMMA OutcomeType ==
    ASSUME TypeOK, NEW a \in Actors, Answered(a)
    PROVE  Outcome(a) \in Result
<1>1. reply[a] \in Response \cup {Unsent}
      BY Replies DEF TypeOK, Answered
<1>2. ExpectedStatus(mode[a]) \in {200, 201}
      BY DEF ExpectedStatus
<1> QED BY <1>1, <1>2, ResultType DEF Outcome

(* Deadlines are natural numbers.                                          *)
LEMMA DelayType ==
    ASSUME NEW e \in Result, NEW n \in 0 .. MaxAttempts
    PROVE  retry_deadline_ms(e.retry_after) \in Nat /\ delay_for(n, e) \in Nat
<1>1. e.retry_after \in {NoDelay} \cup Nat
      BY DEF Result
<1> QED
    BY <1>1, ConfigAssumption
    DEF retry_deadline_ms, delay_for, larger, smaller, NoDelay

(* What an actor's own variables are after it posts and after it stops.    *)
ActorTypes ==
    /\ pc \in [Actors -> {"idle", "sleep", "wait", "done"}]
    /\ mode \in [Actors -> JournalMode]
    /\ retries \in [Actors -> 0 .. MaxAttempts]
    /\ wake \in [Actors -> Nat]
    /\ reply \in [Actors -> Responses \cup {Lost, Unsent, NoReply}]

LEMMA PostType ==
    ASSUME ActorTypes, NEW a \in Actors, NEW m \in JournalMode,
           NEW n \in 0 .. MaxAttempts, Post(a, m, n)
    PROVE  ActorTypes'
BY DEF ActorTypes, Post

LEMMA StopType ==
    ASSUME ActorTypes, NEW a \in Actors, Stop(a)
    PROVE  ActorTypes'
<1>1. 0 \in 0 .. MaxAttempts
      BY ConfigAssumption
<1> QED BY <1>1 DEF ActorTypes, Stop, JournalMode

LEMMA WriteType ==
    ASSUME disk \in Record \cup {NoRecord}, NEW m \in JournalMode, NEW d \in Nat
    PROVE  /\ \A w \in BOOLEAN : journal_pending(Entry(m, d), w) =>
                 disk' \in Record \cup {NoRecord}
           /\ BestEffortWrite(Entry(m, d)) => disk' \in Record \cup {NoRecord}
BY DEF journal_pending, BestEffortWrite, Entry, Record

(* An observer leaves the record alone or rewrites it in its own mode.     *)
LEMMA ObserveWrites ==
    ASSUME TypeOK, NEW a \in Actors, NEW e, observe(a, e)
    PROVE  \/ BestEffortWrite(Entry(mode[a], retry_deadline_ms(e.retry_after)))
           \/ disk' = disk
<1>1. mode[a] \in {"Commit", "Event"}
      BY DEF TypeOK, JournalMode
<1> QED BY <1>1 DEF observe, guard_commit_observer, guard_event_observer, replay_observer

LEMMA DiscardType ==
    ASSUME disk \in Record \cup {NoRecord}, discard_pending
    PROVE  disk' \in Record \cup {NoRecord}
BY DEF discard_pending

LEMMA ThrottlingType ==
    ASSUME TypeOK, NEW a \in Actors, Answered(a), NoteThrottling(a)
    PROVE  floor' \in Nat
<1>1. reply[a].retry_after \in {NoDelay} \cup Nat
      BY Replies DEF TypeOK, Answered, Response, HttpResponse, Lost, Unsent
<1> QED
    BY <1>1, ConfigAssumption DEF NoteThrottling, larger, smaller, TypeOK, NoDelay

(* Each operation, handler and server step keeps every type.               *)
LEMMA InitType ==
    ASSUME Init
    PROVE  TypeOK
<1>1. ActorTypes
      BY ConfigAssumption DEF Init, ActorTypes, JournalMode
<1> QED BY <1>1 DEF Init, TypeOK, ActorTypes, ResultKind

LEMMA TypeStep ==
    ASSUME TypeOK, [Next]_vars
    PROVE  TypeOK'
<1>a. ActorTypes /\ disk \in Record \cup {NoRecord}
    BY DEF TypeOK, ActorTypes
<1>z. 0 \in 0 .. MaxAttempts /\ 0 \in Nat /\ "Commit" \in JournalMode
      /\ "Event" \in JournalMode /\ Guard \in Actors
    BY ConfigAssumption DEF JournalMode, Actors
<1>1. CASE Commit
  <2>1. ActorTypes'
        BY <1>1, <1>a, <1>z, PostType DEF Commit
  <2>2. disk' \in Record \cup {NoRecord} /\ journaled' \in BOOLEAN
        BY <1>1, <1>a, <1>z, WriteType DEF Commit
  <2> QED BY <1>1, <2>1, <2>2 DEF TypeOK, ActorTypes, Commit, serverVars
<1>2. ASSUME NEW a \in Actors, Load(a) PROVE TypeOK'
  <2>1. disk \in Record
        BY <1>2, <1>a DEF Load
  <2> QED BY <1>2, <2>1 DEF TypeOK, Load, serverVars, Record
<1>3. ASSUME NEW a \in Actors, Wake(a) PROVE TypeOK'
  <2>1. mode[a] \in JournalMode /\ retries[a] \in 0 .. MaxAttempts
        BY DEF TypeOK
  <2>2. ActorTypes'
        BY <1>3, <1>a, <2>1, PostType DEF Wake
  <2> QED BY <1>3, <2>2 DEF TypeOK, ActorTypes, Wake, serverVars
<1>4. ASSUME NEW a \in Actors, Succeed(a) PROVE TypeOK'
  <2>1. ActorTypes' /\ disk' \in Record \cup {NoRecord}
        BY <1>4, <1>a, StopType, DiscardType DEF Succeed
  <2>2. result' \in ResultKind
        BY <1>4 DEF Succeed, Return, TypeOK, ResultKind
  <2> QED BY <1>4, <2>1, <2>2 DEF TypeOK, ActorTypes, Succeed, serverVars
<1>5. ASSUME NEW a \in Actors, Retry(a) PROVE TypeOK'
  <2>1. Answered(a) /\ Outcome(a) \in Result
        BY <1>5, OutcomeType DEF Retry
  <2>2. retries[a] \in 0 .. MaxAttempts /\ retries[a] + 1 \in 0 .. MaxAttempts
        BY <1>5, ConfigAssumption DEF TypeOK, Retry, RetryOn
  <2>3. /\ retry_deadline_ms(Outcome(a).retry_after) \in Nat
        /\ delay_for(retries[a], Outcome(a)) \in Nat
        BY <2>1, <2>2, DelayType
  <2>4. mode[a] \in JournalMode
        BY DEF TypeOK
  <2>5. disk' \in Record \cup {NoRecord}
        BY <1>5, <1>a, <2>3, <2>4, WriteType, ObserveWrites DEF Retry
  <2>6. floor' \in Nat
        BY <1>5, <2>1, ThrottlingType DEF Retry
  <2> QED BY <1>5, <2>2, <2>3, <2>5, <2>6 DEF TypeOK, Retry, serverVars
<1>6. ASSUME NEW a \in Actors, SwitchToEvent(a) PROVE TypeOK'
  <2>1. ActorTypes'
        BY <1>6, <1>a, <1>z, PostType, StopType DEF SwitchToEvent
  <2>2. disk' \in Record \cup {NoRecord}
        BY <1>6, <1>a, <1>z, WriteType DEF SwitchToEvent
  <2> QED BY <1>6, <2>1, <2>2 DEF TypeOK, ActorTypes, SwitchToEvent, serverVars
<1>7. ASSUME NEW a \in Actors, Retain(a) PROVE TypeOK'
  <2>1. Answered(a) /\ Outcome(a) \in Result /\ mode[a] \in JournalMode
        BY <1>7, OutcomeType DEF Retain, Failed, TypeOK
  <2>2. retry_deadline_ms(Outcome(a).retry_after) \in Nat
        BY <2>1, <1>z, DelayType
  <2>3. disk' \in Record \cup {NoRecord}
        BY <1>7, <1>a, <2>1, <2>2, WriteType DEF Retain
  <2>4. ActorTypes' /\ floor' \in Nat
        BY <1>7, <1>a, <2>1, StopType, ThrottlingType DEF Retain
  <2>5. result' \in ResultKind
        BY <1>7 DEF Retain, Return, TypeOK, ResultKind
  <2> QED BY <1>7, <2>3, <2>4, <2>5 DEF TypeOK, ActorTypes, Retain, serverVars
<1>8. ASSUME NEW a \in Actors, GiveUp(a) PROVE TypeOK'
  <2>1. ActorTypes' /\ disk' \in Record \cup {NoRecord}
        BY <1>8, <1>a, StopType, DiscardType DEF GiveUp
  <2>2. floor' \in Nat
        BY <1>8, ThrottlingType DEF GiveUp, Failed
  <2>3. result' \in ResultKind
        BY <1>8 DEF GiveUp, Return, TypeOK, ResultKind
  <2> QED BY <1>8, <2>1, <2>2, <2>3 DEF TypeOK, ActorTypes, GiveUp, serverVars
<1>9. ASSUME NEW a \in Actors, Abort(a) PROVE TypeOK'
  <2>1. ActorTypes'
        BY <1>9, <1>a, StopType DEF Abort
  <2>2. late' \subseteq Request
        BY <1>9 DEF Abort, TypeOK, Request, RequestOf, idempotency_key
  <2> QED BY <1>9, <2>1, <2>2 DEF TypeOK, ActorTypes, Abort
<1>10. ASSUME NEW a \in Actors, Server(a) PROVE TypeOK'
  <2>1. RequestOf(a) \in Request
        BY DEF TypeOK, Request, RequestOf, idempotency_key
  <2> QED
      BY <1>10, <2>1 DEF TypeOK, Server, Grant, Gone, Refuse, Blur, Timeout,
         Respond, Apply, clientVars, serverVars
<1>11. CASE ServeLate
      BY <1>11 DEF TypeOK, ServeLate, Apply, clientVars
<1>12. CASE Expire
      BY <1>12 DEF TypeOK, Expire, clientVars
<1>13. CASE Tick
  <2>1. \A t \in Nat : elapse(t) \in Nat
        BY DEF elapse
  <2>2. disk' \in Record \cup {NoRecord}
        BY <1>13, <1>a, <2>1 DEF Tick, Record, NoRecord, elapse
  <2> QED BY <1>13, <2>1, <2>2 DEF TypeOK, Tick, serverVars
<1>14. CASE UNCHANGED vars
      BY <1>14 DEF TypeOK, vars
<1> QED
    BY <1>1, <1>2, <1>3, <1>4, <1>5, <1>6, <1>7, <1>8, <1>9, <1>10, <1>11,
       <1>12, <1>13, <1>14 DEF Next, Client, Handle

(* Every variable keeps its type in every behaviour.                       *)
THEOREM TypeCorrect == Spec => []TypeOK
BY InitType, TypeStep, PTL DEF Spec

-----------------------------------------------------------------------------
(* What the answer an actor reads says about the server.                   *)

LEMMA AnswerRead ==
    ASSUME TypeOK, NEW a \in Actors, Answered(a)
    PROVE  /\ ExpectedStatus(mode[a]) \in {200, 201}
           /\ reply[a] \in Response \cup {Unsent}
           /\ reply[a] \in Response =>
                 ReadsVerdict(ExpectedStatus(mode[a]), reply[a])
<1>1. reply[a] \in Response \cup {Unsent}
      BY Replies DEF TypeOK, Answered
<1>2. ExpectedStatus(mode[a]) \in {200, 201}
      BY DEF ExpectedStatus
<1> QED BY <1>1, <1>2, VerdictsAreRead

(* Config is what comes of a request that was never sent, and nothing else *)
(* is; only a client with a key that is no header value sends nothing.     *)
LEMMA ConfigIsUnsent ==
    ASSUME TypeOK, NEW a \in Actors, Answered(a)
    PROVE  /\ reply[a] = Unsent => Outcome(a) = Bare("Config")
           /\ Outcome(a).kind = "Config" => reply[a] = Unsent
           /\ AnswersAreTrue /\ reply[a] = Unsent => a \in BadKey
<1>1. reply[a] = Unsent => Outcome(a) = Bare("Config")
      BY DEF Outcome, post_json_strict
<1>2. Outcome(a).kind = "Config" => reply[a] = Unsent
  <2> SUFFICES ASSUME reply[a] \in Response PROVE Outcome(a).kind # "Config"
      BY AnswerRead
  <2> QED BY ReadsWhatCame DEF Outcome, Bare, parse_error_response
<1>3. ASSUME AnswersAreTrue, reply[a] = Unsent
      PROVE  a \in BadKey
  <2>1. Unsent \notin Response
        BY ReadsWhatCame
  <2>2. reply[a].status = 0
        BY <1>3 DEF Unsent, NoStatus
  <2> QED
      BY <1>3, <2>1, <2>2, AnswerRead
      DEF AnswersAreTrue, IsReceipt, IsExpiry, IsRefusal, IsNoVerdict
<1> QED BY <1>1, <1>2, <1>3

(* A success is a recorded spend.                                          *)
LEMMA OkIsRecorded ==
    ASSUME TypeOK, AnswersAreTrue, NEW a \in Actors, Answered(a),
           Outcome(a).kind = "Ok"
    PROVE  ledger # {}
<1>0. reply[a] \in Response /\ reply[a] # Unsent
      BY AnswerRead, ConfigIsUnsent, ReadsWhatCame DEF Bare
<1>1. IsReceipt(ExpectedStatus(mode[a]), reply[a])
      BY <1>0, AnswerRead DEF ReadsVerdict, Outcome
<1>2. reply[a].status \in {200, 201}
      BY <1>1, AnswerRead DEF IsReceipt
<1>3. ~IsExpiry(reply[a]) /\ ~IsRefusal(reply[a])
      BY <1>2 DEF IsExpiry, IsRefusal
<1> QED BY <1>0, <1>1, <1>3 DEF AnswersAreTrue, IsNoVerdict

(* The commit path turns to the event only when the reservation expired.   *)
LEMMA ExpiredIsExpired ==
    ASSUME TypeOK, AnswersAreTrue, NEW a \in Actors, Answered(a), Expired(a)
    PROVE  rsv = "expired"
<1>0. reply[a] \in Response /\ reply[a] # Unsent
      BY AnswerRead, ConfigIsUnsent, ReadsWhatCame
      DEF Expired, is_expired_commit, Bare, NoCode, NoStatus
<1>1. ~IsReceipt(ExpectedStatus(mode[a]), reply[a])
  <2> SUFFICES ASSUME IsReceipt(ExpectedStatus(mode[a]), reply[a]) PROVE FALSE
      OBVIOUS
  <2>1. reply[a].status # NoStatus /\ reply[a] # Lost
        BY AnswerRead DEF IsReceipt, Lost, NoStatus
  <2>2. Outcome(a) = Bare("Ok")
        BY <1>0, <2>1, ReadsWhatCame DEF Outcome, IsReceipt
  <2> QED BY <2>2 DEF Expired, is_expired_commit, Bare, NoCode, NoStatus
<1>2. ~IsRefusal(reply[a]) /\ ~IsNoVerdict(ExpectedStatus(mode[a]), reply[a])
      BY <1>0, AnswerRead DEF ReadsVerdict, Expired, Outcome
<1> QED BY <1>0, <1>1, <1>2 DEF AnswersAreTrue

(* An error that neither keeps the record nor starts the fallback is the   *)
(* server's refusal, or that of a client which cannot send.                *)
LEMMA FinalIsRefused ==
    ASSUME TypeOK, AnswersAreTrue, NEW a \in Actors, Answered(a),
           Outcome(a).kind # "Ok", ~Expired(a),
           ~requires_durable_replay(Outcome(a))
    PROVE  refused \/ (a \in BadKey /\ Outcome(a).kind = "Config")
<1>1. CASE reply[a] = Unsent
      BY <1>1, ConfigIsUnsent DEF Bare
<1>2. CASE reply[a] # Unsent
      BY <1>2, AnswerRead DEF AnswersAreTrue, ReadsVerdict, Outcome, Expired
<1> QED BY <1>1, <1>2

-----------------------------------------------------------------------------
(* The steps of SettlementInv.                                             *)

(* What the server has settled stays settled.                              *)
LEMMA ServerOnlyGrows ==
    ASSUME SettlementInv, [Next]_vars
    PROVE  /\ ledger \subseteq ledger'
           /\ refused => refused'
           /\ forsaken => forsaken'
           /\ rsv = "expired" => rsv' = "expired"
<1>0. forsaken => forsaken'
      BY DEF Next, Client, Handle, Server, Commit, Load, Wake, Succeed, Retry,
         SwitchToEvent, Retain, GiveUp, Abort, Grant, Gone, Refuse, Blur, Timeout,
         ServeLate, Expire, Tick, clientVars, vars
<1>1. ASSUME NEW rq \in Request, Apply(rq), rsv = "expired"
      PROVE  rsv' = "expired"
      BY <1>1 DEF Apply, Accepts, SettlementInv, CommitClosesReservation, Request, JournalMode
<1>2. \A a \in Actors : RequestOf(a) \in Request
      BY DEF SettlementInv, TypeOK, Request, RequestOf, idempotency_key
<1>3. ASSUME NEW a \in Actors, Server(a)
      PROVE  /\ ledger \subseteq ledger'
             /\ refused => refused'
             /\ rsv = "expired" => rsv' = "expired"
  <2>1. CASE Grant(a)
        BY <1>1, <1>2, <2>1 DEF Grant, Apply
  <2>2. CASE Blur(a)
        BY <1>1, <1>2, <2>2 DEF Blur, Apply
  <2>3. CASE Gone(a) \/ Refuse(a) \/ Timeout(a)
        BY <2>3 DEF Gone, Refuse, Timeout, serverVars
  <2> QED BY <1>3, <2>1, <2>2, <2>3 DEF Server
<1>4. ASSUME NEW a \in Actors, Client(a)
      PROVE  UNCHANGED <<rsv, ledger, refused>>
      BY <1>4 DEF Client, Load, Wake, Handle, Succeed, Retry, SwitchToEvent,
         Retain, GiveUp, Abort, serverVars
<1>5. CASE ServeLate
      BY <1>0, <1>1, <1>5 DEF ServeLate, Apply, SettlementInv, TypeOK
<1>6. CASE Commit \/ Expire \/ Tick \/ UNCHANGED vars
      BY <1>0, <1>6 DEF Commit, Expire, Tick, vars, serverVars
<1> QED BY <1>0, <1>3, <1>4, <1>5, <1>6 DEF Next

(* No step posts, journals or records an event before the expiry.          *)
LEMMA EventStep ==
    ASSUME SettlementInv, [Next]_vars
    PROVE  EventNeedsExpiry'
<1> SUFFICES ASSUME rsv' # "expired"
    PROVE  /\ disk'.mode # "Event"
           /\ \A b \in Actors : mode'[b] # "Event"
           /\ \A rq \in ledger' \cup late' : rq.mode # "Event"
    BY DEF EventNeedsExpiry
<1>a. TypeOK /\ AnswersAreTrue
      BY DEF SettlementInv
<1>b. /\ rsv # "expired"
      /\ disk.mode # "Event"
      /\ \A b \in Actors : mode[b] # "Event"
      /\ \A rq \in ledger \cup late : rq.mode # "Event"
      BY ServerOnlyGrows DEF SettlementInv, EventNeedsExpiry
<1>c. ASSUME NEW a \in Actors
      PROVE  RequestOf(a).mode # "Event"
      BY <1>b DEF RequestOf
<1>1. CASE Commit
      BY <1>1, <1>a, <1>b DEF Commit, journal_pending, Entry, Post, serverVars, TypeOK
<1>2. ASSUME NEW a \in Actors, Load(a)
      PROVE  EventNeedsExpiry'
      BY <1>2, <1>a, <1>b DEF Load, serverVars, TypeOK, EventNeedsExpiry
<1>3. ASSUME NEW a \in Actors, Wake(a)
      PROVE  EventNeedsExpiry'
      BY <1>3, <1>a, <1>b DEF Wake, Post, serverVars, TypeOK, EventNeedsExpiry
<1>4. ASSUME NEW a \in Actors, Succeed(a) \/ GiveUp(a)
      PROVE  EventNeedsExpiry'
      BY <1>4, <1>a, <1>b DEF Succeed, GiveUp, discard_pending, NoRecord, Stop,
         serverVars, TypeOK, EventNeedsExpiry
<1>5. ASSUME NEW a \in Actors, Retry(a)
      PROVE  EventNeedsExpiry'
      BY <1>5, <1>a, <1>b, ObserveWrites DEF Retry, BestEffortWrite, journal_pending, Entry,
         serverVars, EventNeedsExpiry
<1>6. ASSUME NEW a \in Actors, SwitchToEvent(a)
      PROVE  EventNeedsExpiry'
      BY <1>6, <1>a, <1>b, ExpiredIsExpired DEF SwitchToEvent, Failed
<1>7. ASSUME NEW a \in Actors, Retain(a)
      PROVE  EventNeedsExpiry'
      BY <1>7, <1>a, <1>b DEF Retain, BestEffortWrite, journal_pending, Entry,
         Stop, serverVars, TypeOK, EventNeedsExpiry
<1>8. ASSUME NEW a \in Actors, Abort(a)
      PROVE  EventNeedsExpiry'
      BY <1>8, <1>a, <1>b, <1>c DEF Abort, Stop, TypeOK, EventNeedsExpiry
<1>9. ASSUME NEW a \in Actors, Server(a)
      PROVE  EventNeedsExpiry'
  <2>1. disk' = disk /\ mode' = mode
        BY <1>9 DEF Server, Grant, Gone, Refuse, Blur, Timeout, clientVars
  <2>2. ledger' \cup late' \subseteq ledger \cup late \cup {RequestOf(a)}
        BY <1>9 DEF Server, Grant, Gone, Refuse, Blur, Timeout, Apply, serverVars
  <2> QED BY <2>1, <2>2, <1>b, <1>c DEF EventNeedsExpiry
<1>10. CASE ServeLate
      BY <1>10, <1>b DEF ServeLate, Apply, clientVars
<1>11. CASE Expire
      BY <1>11 DEF Expire
<1>12. CASE Tick
      BY <1>12, <1>a, <1>b DEF Tick, serverVars, TypeOK, Record, NoRecord
<1>13. CASE UNCHANGED vars
      BY <1>13, <1>b DEF vars
<1> QED
    BY <1>1, <1>2, <1>3, <1>4, <1>5, <1>6, <1>7, <1>8, <1>9, <1>10, <1>11,
       <1>12, <1>13 DEF Next, Client, Handle, EventNeedsExpiry

(* Only an accepted commit enters the ledger, and it closes the            *)
(* reservation; nothing reopens it.                                        *)
LEMMA CloseStep ==
    ASSUME SettlementInv, [Next]_vars
    PROVE  CommitClosesReservation'
<1>a. CommitClosesReservation /\ TypeOK
      BY DEF SettlementInv
<1>1. ASSUME NEW rq \in Request, Apply(rq)
      PROVE  CommitClosesReservation'
      BY <1>1, <1>a DEF Apply, CommitClosesReservation
<1>2. ASSUME UNCHANGED <<rsv, ledger>>
      PROVE  CommitClosesReservation'
      BY <1>2, <1>a DEF CommitClosesReservation
<1>3. ASSUME NEW a \in Actors, Server(a)
      PROVE  CommitClosesReservation'
  <2>1. RequestOf(a) \in Request
        BY <1>a DEF TypeOK, Request, RequestOf, idempotency_key
  <2> QED BY <1>1, <1>2, <1>3, <2>1 DEF Server, Grant, Gone, Refuse, Blur, Timeout, serverVars
<1>4. ASSUME NEW a \in Actors, Client(a)
      PROVE  CommitClosesReservation'
      BY <1>2, <1>4 DEF Client, Load, Wake, Handle, Succeed, Retry, SwitchToEvent,
         Retain, GiveUp, Abort, serverVars
<1>5. CASE ServeLate
      BY <1>1, <1>5, <1>a DEF ServeLate, TypeOK
<1>6. CASE Expire
      BY <1>6, <1>a DEF Expire, CommitClosesReservation
<1>7. CASE Commit \/ Tick \/ UNCHANGED vars
      BY <1>2, <1>7 DEF Commit, Tick, vars, serverVars
<1> QED BY <1>3, <1>4, <1>5, <1>6, <1>7 DEF Next

(* An answer keeps being true of the server until it is read.              *)
LEMMA AnswerStep ==
    ASSUME SettlementInv, [Next]_vars
    PROVE  AnswersAreTrue'
<1> DEFINE True(b) ==
        \/ IsReceipt(ExpectedStatus(mode[b]), reply[b]) /\ ledger # {}
        \/ IsExpiry(reply[b]) /\ mode[b] = "Commit" /\ rsv = "expired"
        \/ IsRefusal(reply[b]) /\ refused
        \/ IsNoVerdict(ExpectedStatus(mode[b]), reply[b])
        \/ reply[b] = Unsent /\ b \in BadKey
<1>a. TypeOK /\ \A b \in Actors : Answered(b) => True(b)
      BY DEF SettlementInv, AnswersAreTrue
<1>b. ASSUME NEW b \in Actors, Answered(b)',
             pc'[b] = pc[b], mode'[b] = mode[b], reply'[b] = reply[b]
      PROVE  True(b)'
      BY <1>a, <1>b, ServerOnlyGrows DEF Answered, ExpectedStatus
<1>c. ASSUME NEW a \in Actors, ~Answered(a)' \/ True(a)',
             \A b \in Actors \ {a} : /\ pc'[b] = pc[b] /\ mode'[b] = mode[b]
                                     /\ reply'[b] = reply[b]
      PROVE  AnswersAreTrue'
      BY <1>b, <1>c DEF AnswersAreTrue
<1>d. ASSUME NEW a \in Actors, NEW m, NEW n, Post(a, m, n)
      PROVE  AnswersAreTrue'
  <2>1. IF a \in BadKey THEN reply'[a] = Unsent ELSE reply'[a] = NoReply
        BY <1>a, <1>d DEF Post, TypeOK
  <2>2. ~Answered(a)' \/ True(a)'
        BY <2>1 DEF Answered
  <2>3. \A b \in Actors \ {a} : /\ pc'[b] = pc[b] /\ mode'[b] = mode[b]
                                /\ reply'[b] = reply[b]
        BY <1>a, <1>d DEF Post, TypeOK
  <2> QED BY <1>c, <2>2, <2>3
<1>e. ASSUME NEW a \in Actors, Stop(a)
      PROVE  AnswersAreTrue'
  <2>1. ~Answered(a)'
        BY <1>a, <1>e DEF Stop, Answered, TypeOK
  <2>2. \A b \in Actors \ {a} : /\ pc'[b] = pc[b] /\ mode'[b] = mode[b]
                                /\ reply'[b] = reply[b]
        BY <1>a, <1>e DEF Stop, TypeOK
  <2> QED BY <1>c, <2>1, <2>2
<1>1. CASE Commit
  <2>1. Guard \in Actors
        BY DEF Actors
  <2> QED BY <1>1, <1>d, <2>1 DEF Commit
<1>2. ASSUME NEW a \in Actors, Load(a)
      PROVE  AnswersAreTrue'
      BY <1>2, <1>a, <1>b DEF Load, TypeOK, AnswersAreTrue, Answered
<1>3. ASSUME NEW a \in Actors, Wake(a) \/ SwitchToEvent(a)
      PROVE  AnswersAreTrue'
      BY <1>3, <1>d, <1>e DEF Wake, SwitchToEvent
<1>4. ASSUME NEW a \in Actors, Succeed(a) \/ Retain(a) \/ GiveUp(a) \/ Abort(a)
      PROVE  AnswersAreTrue'
      BY <1>4, <1>e DEF Succeed, Retain, GiveUp, Abort
<1>5. ASSUME NEW a \in Actors, Retry(a)
      PROVE  AnswersAreTrue'
  <2>1. ~Answered(a)'
        BY <1>5, <1>a DEF Retry, Answered, TypeOK
  <2>2. \A b \in Actors \ {a} : /\ pc'[b] = pc[b] /\ mode'[b] = mode[b]
                                /\ reply'[b] = reply[b]
        BY <1>5, <1>a DEF Retry, TypeOK
  <2> QED BY <1>c, <2>1, <2>2
<1>6. ASSUME NEW a \in Actors, Server(a)
      PROVE  AnswersAreTrue'
  <2>1. /\ pc' = pc /\ mode' = mode
        /\ \A b \in Actors \ {a} : reply'[b] = reply[b]
        BY <1>6, <1>a DEF Server, Grant, Gone, Refuse, Blur, Timeout, Respond,
           clientVars, TypeOK
  <2>2. True(a)'
    <3>1. CASE Grant(a)
          BY <3>1, <1>a DEF Grant, Respond, Apply, TypeOK, clientVars
    <3>2. CASE Gone(a)
          BY <3>2, <1>a DEF Gone, Respond, TypeOK, clientVars, serverVars
    <3>3. CASE Refuse(a)
          BY <3>3, <1>a DEF Refuse, Respond, TypeOK, clientVars
    <3>4. CASE Blur(a)
          BY <3>4, <1>a DEF Blur, Respond, TypeOK, clientVars
    <3>5. CASE Timeout(a)
      <4>1. IsNoVerdict(ExpectedStatus(mode[a]), Lost)
            BY Replies DEF IsNoVerdict, IsReceipt, IsRefusal, Lost, ExpectedStatus, NoStatus
      <4>2. reply'[a] = Lost /\ mode' = mode
            BY <3>5, <1>a DEF Timeout, Respond, TypeOK, clientVars
      <4> QED BY <4>1, <4>2 DEF ExpectedStatus
    <3> QED BY <1>6, <3>1, <3>2, <3>3, <3>4, <3>5 DEF Server
  <2> QED BY <1>b, <2>1, <2>2 DEF AnswersAreTrue
<1>7. CASE ServeLate \/ Expire \/ Tick \/ UNCHANGED vars
      BY <1>7, <1>b DEF ServeLate, Expire, Tick, vars, clientVars, AnswersAreTrue
<1> QED
    BY <1>1, <1>2, <1>3, <1>4, <1>5, <1>6, <1>7 DEF Next, Client, Handle

(* Only a recorded, refused or forsaken spend loses its record.            *)
LEMMA RemovalIsBacked ==
    ASSUME SettlementInv, [Next]_vars, disk # NoRecord, disk' = NoRecord
    PROVE  ledger # {} \/ refused \/ forsaken'
<1>a. TypeOK /\ AnswersAreTrue
      BY DEF SettlementInv
<1>b. \A m \in JournalMode, d \in Nat : Entry(m, d) # NoRecord
      BY DEF JournalMode, Entry, NoRecord
<1>c. ASSUME NEW e, BestEffortWrite(e) \/ \E w \in BOOLEAN : journal_pending(e, w)
      PROVE  e = NoRecord
      BY <1>c DEF BestEffortWrite, journal_pending
<1>d. \A m, d : Entry(m, d).mode = m
      BY DEF Entry
<1>e. \A a \in Actors : mode[a] # "none"
      BY <1>a DEF TypeOK, JournalMode
<1>1. ASSUME NEW a \in Actors, Succeed(a)
      PROVE  ledger # {}
      BY <1>1, <1>a, OkIsRecorded DEF Succeed
<1>2. ASSUME NEW a \in Actors, GiveUp(a)
      PROVE  refused \/ forsaken'
  <2>1. ~(a = Guard /\ ~journaled)
        BY <1>2 DEF GiveUp
  <2>2. ~requires_durable_replay(Outcome(a))
        BY <1>2, <2>1 DEF GiveUp, Durable
  <2> QED BY <1>2, <2>2, <1>a, FinalIsRefused DEF GiveUp, Failed
<1>3. ~Commit
      BY <1>c, <1>d DEF Commit, NoRecord
<1>4. ASSUME NEW a \in Actors
      PROVE  ~Retry(a) /\ ~SwitchToEvent(a) /\ ~Retain(a)
      BY <1>a, <1>c, <1>d, <1>e, ObserveWrites DEF Retry, SwitchToEvent, Retain, NoRecord
<1>5. ASSUME NEW a \in Actors
      PROVE  ~Load(a) /\ ~Wake(a) /\ ~Abort(a) /\ ~Server(a)
      BY DEF Load, Wake, Abort, Server, Grant, Gone, Refuse, Blur, Timeout, clientVars
<1>6. ~ServeLate /\ ~Expire /\ ~UNCHANGED vars
      BY DEF ServeLate, Expire, vars, clientVars
<1>7. ~Tick
      BY <1>a DEF Tick, TypeOK, Record, NoRecord, JournalMode
<1> QED
    BY <1>1, <1>2, <1>3, <1>4, <1>5, <1>6, <1>7 DEF Next, Client, Handle

(* journaled is set by a write that succeeded, and from then on the record *)
(* goes only when it may.                                                  *)
LEMMA ForgetStep ==
    ASSUME SettlementInv, [Next]_vars
    PROVE  NeverForgotten'
<1>1. CASE Commit
      BY <1>1 DEF Commit, journal_pending, Entry, NoRecord, NeverForgotten
<1>2. CASE ~Commit
  <2>1. journaled' = journaled
        BY <1>2 DEF Next, Client, Handle, Server, Load, Wake, Succeed, Retry,
           SwitchToEvent, Retain, GiveUp, Abort, Grant, Gone, Refuse, Blur, Timeout,
           ServeLate, Expire, Tick, clientVars, vars
  <2> QED BY <2>1, RemovalIsBacked, ServerOnlyGrows DEF SettlementInv, NeverForgotten
<1> QED BY <1>1, <1>2

(* A spend is forsaken only by a client that cannot send.                  *)
LEMMA ForsakeStep ==
    ASSUME SettlementInv, [Next]_vars
    PROVE  ForsakenByBadKey'
<1>a. TypeOK /\ AnswersAreTrue /\ ForsakenByBadKey
      BY DEF SettlementInv
<1>1. ASSUME NEW a \in Actors, GiveUp(a)
      PROVE  ForsakenByBadKey'
  <2>1. CASE Outcome(a).kind = "Config"
    <3>1. a \in BadKey
          BY <1>1, <1>a, <2>1, ConfigIsUnsent DEF GiveUp, Failed
    <3> QED BY <3>1 DEF ForsakenByBadKey
  <2>2. CASE Outcome(a).kind # "Config"
        BY <1>1, <1>a, <2>2 DEF GiveUp, ForsakenByBadKey
  <2> QED BY <2>1, <2>2
<1>2. CASE \A a \in Actors : ~GiveUp(a)
  <2>1. forsaken' = forsaken
        BY <1>2 DEF Next, Client, Handle, Server, Commit, Load, Wake, Succeed,
           Retry, SwitchToEvent, Retain, Abort, Grant, Gone, Refuse, Blur, Timeout,
           ServeLate, Expire, Tick, clientVars, vars
  <2> QED BY <1>a, <2>1 DEF ForsakenByBadKey
<1> QED BY <1>1, <1>2

(* The guard stops being idle when commit starts, for good.                *)
LEMMA ReturnStep ==
    ASSUME SettlementInv, [Next]_vars
    PROVE  NothingReturnedYet'
<1>a. Guard \in Actors /\ Guard \notin Replays /\ TypeOK /\ NothingReturnedYet
      BY ActorAssumption DEF Actors, SettlementInv
<1>1. CASE Commit
      BY <1>1, <1>a DEF Commit, Post, TypeOK, NothingReturnedYet
<1>2. ASSUME NEW a \in Actors, Load(a)
      PROVE  NothingReturnedYet'
      BY <1>2, <1>a DEF Load, TypeOK, NothingReturnedYet
<1>3. ASSUME NEW a \in Actors, Wake(a) \/ Handle(a) \/ Abort(a)
      PROVE  NothingReturnedYet'
  <2>1. pc[a] # "idle"
        BY <1>3 DEF Wake, Handle, Succeed, Retry, SwitchToEvent, Retain, GiveUp,
           Failed, Answered, Abort
  <2>2. /\ pc'[Guard] = "idle" => a # Guard /\ pc[Guard] = "idle"
        /\ a # Guard => result' = result
        BY <1>3, <1>a, <2>1 DEF Wake, Handle, Succeed, Retry, SwitchToEvent, Retain,
           GiveUp, Abort, Post, Stop, Return, TypeOK
  <2> QED BY <1>a, <2>2 DEF NothingReturnedYet
<1>4. ASSUME pc' = pc, result' = result
      PROVE  NothingReturnedYet'
      BY <1>4, <1>a DEF NothingReturnedYet
<1>5. ASSUME NEW a \in Actors, Server(a)
      PROVE  NothingReturnedYet'
      BY <1>4, <1>5 DEF Server, Grant, Gone, Refuse, Blur, Timeout, clientVars
<1>6. CASE ServeLate \/ Expire \/ Tick \/ UNCHANGED vars
      BY <1>4, <1>6 DEF ServeLate, Expire, Tick, clientVars, vars
<1> QED BY <1>1, <1>2, <1>3, <1>5, <1>6 DEF Next, Client

(* commit returns Ok for a recorded spend and an error for a refused one.  *)
LEMMA OutcomeStep ==
    ASSUME SettlementInv, [Next]_vars
    PROVE  OutcomeIsTruthful'
<1>a. /\ TypeOK /\ AnswersAreTrue /\ OutcomeIsTruthful
      /\ Guard \in Actors /\ Guard \notin BadKey
      BY ActorAssumption DEF SettlementInv, Actors
<1>b. ASSUME result' = result, journaled' = journaled
      PROVE  OutcomeIsTruthful'
      BY <1>a, <1>b, ServerOnlyGrows DEF OutcomeIsTruthful
<1>1. CASE Commit
      BY <1>1 DEF Commit, SettlementInv, NothingReturnedYet, OutcomeIsTruthful
<1>2. ASSUME NEW a \in Actors, Succeed(a)
      PROVE  OutcomeIsTruthful'
  <2>1. ledger # {} /\ ledger' = ledger
        BY <1>2, <1>a, OkIsRecorded DEF Succeed, serverVars
  <2>2. CASE a = Guard
        BY <1>2, <2>1, <2>2 DEF Succeed, Return, OutcomeIsTruthful
  <2>3. CASE a # Guard
        BY <1>2, <1>b, <2>3 DEF Succeed, Return
  <2> QED BY <2>2, <2>3
<1>3. ASSUME NEW a \in Actors, Retain(a)
      PROVE  OutcomeIsTruthful'
  <2>1. CASE a = Guard
        BY <1>3, <2>1 DEF Retain, Return, OutcomeIsTruthful
  <2>2. CASE a # Guard
        BY <1>3, <1>b, <2>2 DEF Retain, Return
  <2> QED BY <2>1, <2>2
<1>4. ASSUME NEW a \in Actors, GiveUp(a)
      PROVE  OutcomeIsTruthful'
  <2>1. CASE a = Guard
    <3>1. journaled => refused
      <4> SUFFICES ASSUME journaled PROVE ~requires_durable_replay(Outcome(a))
          BY <1>4, <1>a, <2>1, FinalIsRefused DEF GiveUp, Failed
      <4> QED BY <1>4 DEF GiveUp, Durable
    <3> QED BY <1>4, <2>1, <3>1 DEF GiveUp, Return, serverVars, OutcomeIsTruthful
  <2>2. CASE a # Guard
        BY <1>4, <1>b, <2>2 DEF GiveUp, Return
  <2> QED BY <2>1, <2>2
<1>5. ASSUME NEW a \in Actors,
             Load(a) \/ Wake(a) \/ Retry(a) \/ SwitchToEvent(a) \/ Abort(a) \/ Server(a)
      PROVE  OutcomeIsTruthful'
      BY <1>5, <1>b DEF Load, Wake, Retry, SwitchToEvent, Abort, Server, Grant,
         Gone, Refuse, Blur, Timeout, clientVars
<1>6. CASE ServeLate \/ Expire \/ Tick \/ UNCHANGED vars
      BY <1>6, <1>b DEF ServeLate, Expire, Tick, clientVars, vars
<1> QED BY <1>1, <1>2, <1>3, <1>4, <1>5, <1>6 DEF Next, Client, Handle

-----------------------------------------------------------------------------
(* The theorems.                                                           *)

(* The inductive invariant holds in every behaviour.                       *)
THEOREM SettlementInvariant == Spec => []SettlementInv
<1>1. Init => SettlementInv
  <2> SUFFICES ASSUME Init PROVE SettlementInv
      OBVIOUS
  <2>1. TypeOK
        BY InitType
  <2>2. Guard \in Actors
        BY DEF Actors
  <2> QED
      BY <2>1, <2>2 DEF Init, SettlementInv, EventNeedsExpiry,
         CommitClosesReservation, AnswersAreTrue, Answered, NeverForgotten,
         ForsakenByBadKey, NothingReturnedYet, OutcomeIsTruthful, NoRecord
<1>2. SettlementInv /\ [Next]_vars => SettlementInv'
  <2> SUFFICES ASSUME SettlementInv, [Next]_vars PROVE SettlementInv'
      OBVIOUS
  <2>1. TypeOK'
        BY TypeStep DEF SettlementInv
  <2> QED
      BY <2>1, EventStep, CloseStep, AnswerStep, ForgetStep, ForsakeStep,
         ReturnStep, OutcomeStep DEF SettlementInv
<1> QED BY <1>1, <1>2, PTL DEF Spec

(* Two settlements could differ only in mode, since they share their key,  *)
(* and a commit and an event exclude each other.                           *)
LEMMA InvariantChargesOnce == SettlementInv => AtMostOnce
<1> SUFFICES ASSUME SettlementInv, NEW x \in ledger, NEW y \in ledger
             PROVE  x = y
    BY DEF AtMostOnce
<1>1. x \in Request /\ y \in Request
      BY DEF SettlementInv, TypeOK
<1>2. x.mode = y.mode
      BY <1>1 DEF SettlementInv, EventNeedsExpiry, CommitClosesReservation,
         Request, JournalMode
<1> QED BY <1>1, <1>2 DEF Request

(* No spend is charged twice, for any number of replays, retries, late and *)
(* duplicated requests.                                                    *)
THEOREM ChargedAtMostOnce == Spec => []AtMostOnce
BY SettlementInvariant, InvariantChargesOnce, PTL

(* A journaled spend has a record until the server recorded or refused it, *)
(* or until a client that cannot send has dropped it: nothing else that    *)
(* goes wrong loses it.                                                    *)
THEOREM JournaledIsNeverForgotten == Spec => []NeverForgotten
<1>1. SettlementInv => NeverForgotten
      BY DEF SettlementInv
<1> QED BY <1>1, SettlementInvariant, PTL

(* Where every client's key is a header value, the documented promise      *)
(* holds: a journaled spend has a record until the server recorded or      *)
(* refused it.                                                             *)
THEOREM JournaledIsKeptUntilSettled == BadKey = {} /\ Spec => []KeptUntilSettled
<1>1. CASE BadKey = {}
  <2>1. SettlementInv => KeptUntilSettled
        BY <1>1 DEF SettlementInv, NeverForgotten, ForsakenByBadKey, KeptUntilSettled
  <2> QED BY <2>1, SettlementInvariant, PTL
<1>2. CASE BadKey # {}
      BY <1>2
<1> QED BY <1>1, <1>2

(* Events exist only for expired reservations.                             *)
THEOREM EventsFollowExpiry == Spec => []EventNeedsExpiry
<1>1. SettlementInv => EventNeedsExpiry
      BY DEF SettlementInv
<1> QED BY <1>1, SettlementInvariant, PTL

(* What commit returns is true of the server.                              *)
THEOREM OutcomesAreTruthful == Spec => []OutcomeIsTruthful
<1>1. SettlementInv => OutcomeIsTruthful
      BY DEF SettlementInv
<1> QED BY <1>1, SettlementInvariant, PTL

(* A step is, for SpendObligation, owing, settling, rejecting, forsaking,   *)
(* discharging or nothing.                                                 *)
LEMMA StepKeepsObligation ==
    ASSUME SettlementInv, AtMostOnce', [Next]_vars
    PROVE  [Obligation!Next]_(Obligation!vars)
<1>1. ASSUME UNCHANGED <<ledger, refused, forsaken>>
      PROVE  [Obligation!Next]_(Obligation!vars)
  <2>1. CASE disk' # NoRecord
        BY <1>1, <2>1 DEF Obligation!Next, Obligation!Owe
  <2>2. CASE disk' = NoRecord /\ disk = NoRecord
        BY <1>1, <2>2 DEF Obligation!vars
  <2>3. CASE disk' = NoRecord /\ disk # NoRecord
    <3>1. ledger # {} \/ refused \/ forsaken' = TRUE
          BY <2>3, RemovalIsBacked, TypeStep DEF SettlementInv, TypeOK
    <3> QED
        BY <1>1, <2>3, <3>1
        DEF Obligation!Next, Obligation!Discharge, Obligation!Forsake
  <2> QED BY <2>1, <2>2, <2>3
<1>2. ASSUME NEW rq, ledger' = ledger \cup {rq}, UNCHANGED <<disk, refused, forsaken>>
      PROVE  [Obligation!Next]_(Obligation!vars)
  <2>1. CASE rq \in ledger
        BY <1>2, <2>1 DEF Obligation!vars
  <2>2. CASE rq \notin ledger
    <3>1. ledger = {}
          BY <1>2, <2>2 DEF AtMostOnce
    <3>2. rq \in ledger' /\ ledger' = {rq}
          BY <1>2, <3>1
    <3> QED BY <1>2, <3>1, <3>2 DEF Obligation!Next, Obligation!Settle
  <2> QED BY <2>1, <2>2
<1>3. ASSUME NEW a \in Actors, Server(a)
      PROVE  [Obligation!Next]_(Obligation!vars)
  <2>1. CASE Refuse(a)
        BY <2>1 DEF Refuse, clientVars, Obligation!Next, Obligation!Reject
  <2>2. CASE Grant(a) \/ Blur(a)
        BY <2>2, <1>1, <1>2 DEF Grant, Blur, Apply, clientVars
  <2>3. CASE Gone(a) \/ Timeout(a)
        BY <2>3, <1>1 DEF Gone, Timeout, serverVars, clientVars
  <2> QED BY <1>3, <2>1, <2>2, <2>3 DEF Server
<1>4. ASSUME NEW a \in Actors, Client(a)
      PROVE  [Obligation!Next]_(Obligation!vars)
  <2>1. CASE GiveUp(a) /\ Outcome(a).kind = "Config"
    <3>1. forsaken' = TRUE /\ UNCHANGED <<ledger, refused>>
          BY <2>1, TypeStep DEF GiveUp, SettlementInv, TypeOK, serverVars
    <3>2. disk' = disk \/ disk' = NoRecord
          BY <2>1 DEF GiveUp, discard_pending
    <3> QED BY <3>1, <3>2 DEF Obligation!Next, Obligation!Forsake
  <2>2. CASE GiveUp(a) /\ Outcome(a).kind # "Config"
    <3>1. forsaken' = forsaken
          BY <2>2 DEF GiveUp, SettlementInv, TypeOK
    <3> QED BY <1>1, <2>2, <3>1 DEF GiveUp, serverVars
  <2>3. CASE ~GiveUp(a)
        BY <1>1, <1>4, <2>3 DEF Client, Load, Wake, Handle, Succeed, Retry,
           SwitchToEvent, Retain, Abort, serverVars
  <2> QED BY <2>1, <2>2, <2>3
<1>5. CASE ServeLate
      BY <1>2, <1>5 DEF ServeLate, Apply, clientVars
<1>6. CASE Commit \/ Expire \/ Tick \/ UNCHANGED vars
      BY <1>1, <1>6 DEF Commit, Expire, Tick, vars, serverVars, clientVars
<1> QED BY <1>3, <1>4, <1>5, <1>6 DEF Next

(* The whole commit path implements SpendObligation, in which a spend      *)
(* leaves the journal settled or is forsaken by a client that cannot send. *)
THEOREM ImplementsObligation == Spec => KeepsObligation
<1>1. Init => Obligation!Init
      BY DEF Init, Obligation!Init
<1>2. SettlementInv /\ AtMostOnce' /\ [Next]_vars => [Obligation!Next]_(Obligation!vars)
      BY StepKeepsObligation
<1> QED
    BY <1>1, <1>2, SettlementInvariant, ChargedAtMostOnce, PTL
    DEF Spec, KeepsObligation, Obligation!Spec

-----------------------------------------------------------------------------
(* One actor at a time.  When no two actors settle at once and the disk    *)
(* works, for every set of replays, every configuration and every set of   *)
(* responses: nothing is left behind, no request runs ahead of a           *)
(* Retry-After, and an event record stays one.                             *)

(* A replay loads no record another actor is settling, and no file         *)
(* operation fails.                                                        *)
Isolated == ~Overlap /\ ~WriteFaults /\ ~DiscardFaults

Active(a) == pc[a] \in {"sleep", "wait"}

OneAtATime == \A a, b \in Actors : Active(a) /\ Active(b) => a = b

(* Before commit there is nothing to replay and nothing to wait for.       *)
NothingBeforeCommit ==
    pc[Guard] = "idle" =>
        /\ disk = NoRecord
        /\ floor = 0
        /\ result = "none"
        /\ \A a \in Actors : pc[a] = "idle"

GuardHasNotReturned == Active(Guard) => result = "none"

(* commit knows whether there is a record.                                 *)
JournaledIsEnabled == journaled <=> JournalEnabled /\ pc[Guard] # "idle"

(* The record of an actor at work is the record it works on.               *)
RecordIsCurrent ==
    IF JournalEnabled
    THEN \A a \in Actors : Active(a) => disk # NoRecord /\ disk.mode = mode[a]
    ELSE disk = NoRecord

(* Whoever may send next is held back for as long as the server asked.     *)
FloorIsKept ==
    /\ \A a \in Actors : /\ pc[a] = "wait" => floor = 0
                         /\ pc[a] = "sleep" => floor <= wake[a]
    /\ disk # NoRecord => floor <= disk.not_before

AloneInv ==
    /\ Isolated
    /\ TypeOK
    /\ OneAtATime
    /\ NothingBeforeCommit
    /\ GuardHasNotReturned
    /\ JournaledIsEnabled
    /\ RecordIsCurrent
    /\ FloorIsKept
    /\ SettledLeavesNoRecord

-----------------------------------------------------------------------------
(* The pieces of a step.                                                   *)

LEMMA WriteSucceeds ==
    ASSUME Isolated, NEW e, BestEffortWrite(e)
    PROVE  disk' = IF JournalEnabled THEN e ELSE disk
BY DEF Isolated, BestEffortWrite, journal_pending

LEMMA DiscardSucceeds ==
    ASSUME Isolated, discard_pending
    PROVE  disk' = IF JournalEnabled THEN NoRecord ELSE disk
BY DEF Isolated, discard_pending

LEMMA EntryIsARecord ==
    ASSUME NEW m \in JournalMode, NEW d
    PROVE  /\ Entry(m, d) # NoRecord
           /\ Entry(m, d).mode = m
           /\ Entry(m, d).not_before = d
<1>1. m # "none"
      BY DEF JournalMode
<1> QED BY <1>1 DEF Entry, NoRecord

(* An actor at work has a record to work on, or there is no journal, and   *)
(* nothing final has been returned.                                        *)
LEMMA AtWork ==
    ASSUME AloneInv, NEW a \in Actors, Active(a)
    PROVE  /\ pc[Guard] # "idle"
           /\ \A b \in Actors \ {a} : ~Active(b)
           /\ IF JournalEnabled THEN disk # NoRecord /\ disk.mode = mode[a]
              ELSE disk = NoRecord
           /\ JournalEnabled => result \notin {"ok", "err", "recovery_failed"}
BY DEF AloneInv, Active, OneAtATime, NothingBeforeCommit, RecordIsCurrent,
   SettledLeavesNoRecord

(* A step after which the same actor is still at work.                     *)
LEMMA GoesOn ==
    ASSUME AloneInv, TypeOK', NEW a \in Actors, Active(a),
           NEW s \in {"sleep", "wait"}, pc' = [pc EXCEPT ![a] = s],
           \A b \in Actors \ {a} : mode'[b] = mode[b] /\ wake'[b] = wake[b],
           journaled' = journaled, result' = result,
           IF JournalEnabled THEN disk' # NoRecord /\ disk'.mode = mode'[a]
           ELSE disk' = NoRecord,
           disk' # NoRecord => floor' <= disk'.not_before,
           IF s = "wait" THEN floor' = 0 ELSE floor' <= wake'[a]
    PROVE  AloneInv'
<1>a. Guard \in Actors /\ pc \in [Actors -> {"idle", "sleep", "wait", "done"}]
      BY DEF Actors, AloneInv, TypeOK
<1>b. /\ pc[Guard] # "idle"
      /\ \A b \in Actors \ {a} : ~Active(b)
      /\ JournalEnabled => result \notin {"ok", "err", "recovery_failed"}
      BY AtWork
<1>c. pc'[a] = s /\ \A b \in Actors \ {a} : pc'[b] = pc[b]
      BY <1>a
<1>d. pc'[Guard] # "idle"
      BY <1>a, <1>b, <1>c
<1>e. \A b \in Actors \ {a} : ~Active(b)'
      BY <1>b, <1>c DEF Active
<1>1. OneAtATime'
      BY <1>e DEF OneAtATime
<1>2. NothingBeforeCommit' /\ JournaledIsEnabled'
      BY <1>b, <1>d DEF AloneInv, NothingBeforeCommit, JournaledIsEnabled
<1>3. GuardHasNotReturned'
      BY <1>a, <1>e DEF AloneInv, GuardHasNotReturned
<1>4. RecordIsCurrent'
      BY <1>e DEF RecordIsCurrent
<1>5. FloorIsKept'
      BY <1>c, <1>e DEF FloorIsKept, Active
<1>6. SettledLeavesNoRecord'
      BY <1>b DEF SettledLeavesNoRecord
<1> QED BY <1>1, <1>2, <1>3, <1>4, <1>5, <1>6 DEF AloneInv, Isolated

(* A step after which no actor is at work.                                 *)
LEMMA ComesToRest ==
    ASSUME AloneInv, TypeOK', NEW a \in Actors, Active(a), Stop(a),
           journaled' = journaled,
           IF a = Guard THEN result' \in {"ok", "err", "recovery_failed"} => disk' = NoRecord
           ELSE result' = result,
           ~JournalEnabled => disk' = NoRecord,
           disk' # NoRecord => floor' <= disk'.not_before
    PROVE  AloneInv'
<1>a. Guard \in Actors /\ pc \in [Actors -> {"idle", "sleep", "wait", "done"}]
      BY DEF Actors, AloneInv, TypeOK
<1>b. /\ pc[Guard] # "idle"
      /\ \A b \in Actors \ {a} : ~Active(b)
      /\ JournalEnabled => result \notin {"ok", "err", "recovery_failed"}
      BY AtWork
<1>c. /\ pc'[a] = IF a = Guard THEN "done" ELSE "idle"
      /\ \A b \in Actors \ {a} : pc'[b] = pc[b]
      BY <1>a DEF Stop
<1>d. pc'[Guard] # "idle"
      BY <1>a, <1>b, <1>c
<1>e. \A b \in Actors : ~Active(b)'
      BY <1>b, <1>c DEF Active
<1>1. OneAtATime' /\ GuardHasNotReturned'
      BY <1>a, <1>e DEF OneAtATime, GuardHasNotReturned
<1>2. NothingBeforeCommit' /\ JournaledIsEnabled'
      BY <1>b, <1>d DEF AloneInv, NothingBeforeCommit, JournaledIsEnabled
<1>3. RecordIsCurrent'
      BY <1>e DEF RecordIsCurrent
<1>4. FloorIsKept'
      BY <1>e DEF FloorIsKept, Active
<1>5. SettledLeavesNoRecord'
      BY <1>b DEF SettledLeavesNoRecord
<1> QED BY <1>1, <1>2, <1>3, <1>4, <1>5 DEF AloneInv, Isolated

(* A step that touches none of the invariant's state.                      *)
LEMMA LeavesAlone ==
    ASSUME AloneInv, TypeOK',
           UNCHANGED <<pc, mode, wake, disk, journaled, result, floor>>
    PROVE  AloneInv'
BY DEF AloneInv, Isolated, OneAtATime, NothingBeforeCommit, GuardHasNotReturned,
   JournaledIsEnabled, RecordIsCurrent, FloorIsKept, SettledLeavesNoRecord, Active

(* What the client makes of a throttled request keeps the server's delay.  *)
LEMMA ThrottlingIsRead ==
    ASSUME TypeOK, NEW a \in Actors, Answered(a), reply[a].status = 429
    PROVE  Outcome(a).retry_after = reply[a].retry_after
<1>1. ExpectedStatus(mode[a]) # 429 /\ reply[a] # Lost /\ reply[a] # Unsent
      BY DEF ExpectedStatus, Lost, Unsent, NoStatus
<1> QED BY <1>1 DEF Outcome, post_json_strict, parse_error_response

(* The floor never rises above the deadline that is journaled, nor above   *)
(* the sleep that follows.                                                 *)
LEMMA FloorIsJournaled ==
    ASSUME AloneInv, NEW a \in Actors, Answered(a), NoteThrottling(a),
           NEW n \in 0 .. MaxAttempts
    PROVE  /\ floor' <= retry_deadline_ms(Outcome(a).retry_after)
           /\ floor' <= delay_for(n, Outcome(a))
<1>a. TypeOK /\ floor = 0 /\ Outcome(a) \in Result
      BY OutcomeType DEF AloneInv, FloorIsKept, Answered
<1>b. /\ retry_deadline_ms(Outcome(a).retry_after) \in Nat
      /\ delay_for(n, Outcome(a)) \in Nat
      BY <1>a, DelayType
<1>c. Outcome(a).retry_after \in {NoDelay} \cup Nat /\ Backoff[n] \in Nat
      BY <1>a, ConfigAssumption DEF Result
<1>1. CASE reply[a].status = 429 /\ reply[a].retry_after # NoDelay
  <2>1. Outcome(a).retry_after = reply[a].retry_after
        BY <1>a, <1>1, ThrottlingIsRead
  <2> QED
      BY <1>a, <1>c, <1>1, <2>1, ConfigAssumption
      DEF NoteThrottling, retry_deadline_ms, delay_for, larger, smaller, NoDelay
<1>2. CASE ~(reply[a].status = 429 /\ reply[a].retry_after # NoDelay)
      BY <1>a, <1>b, <1>2 DEF NoteThrottling
<1> QED BY <1>1, <1>2

(* What the observers leave on the disk.                                   *)
LEMMA ObserverKeepsRecord ==
    ASSUME AloneInv, NEW a \in Actors, Answered(a), NoteThrottling(a),
           observe(a, Outcome(a))
    PROVE  /\ IF JournalEnabled THEN disk' # NoRecord /\ disk'.mode = mode[a]
              ELSE disk' = NoRecord
           /\ disk' # NoRecord => floor' <= disk'.not_before
<1> DEFINE deadline == retry_deadline_ms(Outcome(a).retry_after)
<1>a. TypeOK /\ Isolated /\ Active(a) /\ mode[a] \in JournalMode /\ floor = 0
      BY DEF AloneInv, TypeOK, FloorIsKept, Answered, Active
<1>b. IF JournalEnabled THEN disk # NoRecord /\ disk.mode = mode[a] ELSE disk = NoRecord
      BY <1>a, AtWork
<1>c. 0 \in 0 .. MaxAttempts
      BY ConfigAssumption
<1>d. floor' <= deadline
      BY <1>c, FloorIsJournaled
<1>1. CASE BestEffortWrite(Entry(mode[a], deadline))
      BY <1>a, <1>b, <1>d, <1>1, WriteSucceeds, EntryIsARecord
<1>2. CASE disk' = disk
  <2>1. disk # NoRecord => disk.not_before \in Nat
        BY <1>a DEF TypeOK, Record
  <2>2. CASE JournalEnabled
    <3>1. journaled
          BY <1>a, <2>2, AtWork DEF AloneInv, JournaledIsEnabled
    <3>2. \/ BestEffortWrite(Entry(mode[a], deadline))
          \/ a = Guard /\ Outcome(a).retry_after = NoDelay
          BY <1>a, <3>1 DEF observe, guard_commit_observer, guard_event_observer,
             replay_observer, JournalMode
    <3>3. CASE Outcome(a).retry_after = NoDelay
      <4>1. floor' = 0
            BY <1>a, <3>3, ThrottlingIsRead DEF NoteThrottling
      <4> QED BY <1>b, <1>2, <2>1, <4>1
    <3> QED BY <1>1, <3>2, <3>3
  <2>3. CASE ~JournalEnabled
        BY <1>b, <1>2, <2>3
  <2> QED BY <2>2, <2>3
<1> QED BY <1>a, <1>1, <1>2, ObserveWrites

LEMMA AnsweredIsActive ==
    ASSUME NEW a \in Actors, Answered(a)
    PROVE  Active(a)
BY DEF Answered, Active

LEMMA AloneInit ==
    ASSUME Isolated, Init
    PROVE  AloneInv
<1>1. TypeOK
      BY InitType
<1> QED
    BY <1>1 DEF AloneInv, Init, OneAtATime, Active, NothingBeforeCommit,
       GuardHasNotReturned, JournaledIsEnabled, RecordIsCurrent, FloorIsKept,
       SettledLeavesNoRecord, NoRecord, Actors

LEMMA AloneStep ==
    ASSUME AloneInv, [Next]_vars
    PROVE  AloneInv'
<1>a. /\ Isolated /\ TypeOK /\ TypeOK'
      /\ Guard \in Actors /\ Guard \notin Replays
      /\ JournalEnabled \in BOOLEAN /\ Replays \subseteq Actors
      BY TypeStep, ActorAssumption, ConfigAssumption DEF AloneInv, Actors
<1>b. /\ pc \in [Actors -> {"idle", "sleep", "wait", "done"}]
      /\ mode \in [Actors -> JournalMode] /\ wake \in [Actors -> Nat]
      /\ floor \in Nat
      BY <1>a DEF TypeOK
<1>1. CASE Commit
  <2>1. disk = NoRecord /\ floor = 0 /\ \A b \in Actors : pc[b] = "idle"
        BY <1>1 DEF Commit, AloneInv, NothingBeforeCommit
  <2>2. /\ pc'[Guard] = "wait" /\ \A b \in Actors \ {Guard} : pc'[b] = "idle"
        /\ mode'[Guard] = "Commit"
        BY <1>1, <1>a, <1>b, <2>1 DEF Commit, Post
  <2>3. /\ journaled' = JournalEnabled
        /\ disk' = IF JournalEnabled THEN Entry("Commit", 0) ELSE NoRecord
        BY <1>1, <1>a, <2>1 DEF Commit, journal_pending, Isolated
  <2>4. result = "none"
        BY <1>1 DEF Commit, AloneInv, NothingBeforeCommit
  <2>5. floor' = 0 /\ result' = result
        BY <1>1, <2>1 DEF Commit
  <2>6. Entry("Commit", 0) # NoRecord /\ Entry("Commit", 0).mode = "Commit"
        /\ Entry("Commit", 0).not_before = 0
        BY EntryIsARecord DEF JournalMode
  <2> QED
      BY <1>a, <2>2, <2>3, <2>4, <2>5, <2>6
      DEF AloneInv, Isolated, OneAtATime, Active, NothingBeforeCommit,
         GuardHasNotReturned, JournaledIsEnabled, RecordIsCurrent, FloorIsKept,
         SettledLeavesNoRecord
<1>2. ASSUME NEW a \in Actors, Load(a) PROVE AloneInv'
  <2>1. a \in Replays /\ a # Guard /\ disk # NoRecord /\ JournalEnabled
        BY <1>2, <1>a DEF Load, AloneInv, RecordIsCurrent
  <2>2. \A b \in Actors : ~Active(b)
        BY <1>2, <1>a DEF Load, Isolated, Active
  <2>3. pc[Guard] # "idle"
        BY <2>1 DEF AloneInv, NothingBeforeCommit
  <2>4. /\ pc'[a] = "sleep" /\ mode'[a] = disk.mode /\ wake'[a] = disk.not_before
        /\ \A b \in Actors \ {a} : pc'[b] = pc[b]
        BY <1>2, <1>b DEF Load
  <2>5. pc'[Guard] = pc[Guard] /\ UNCHANGED <<disk, journaled, result, floor>>
        BY <1>2, <1>a, <2>1, <2>4 DEF Load
  <2>6. \A b \in Actors \ {a} : ~Active(b)'
        BY <2>2, <2>4 DEF Active
  <2>7. OneAtATime' /\ GuardHasNotReturned'
        BY <1>a, <2>1, <2>6 DEF OneAtATime, GuardHasNotReturned
  <2>8. NothingBeforeCommit' /\ JournaledIsEnabled' /\ SettledLeavesNoRecord'
        BY <2>3, <2>5 DEF AloneInv, NothingBeforeCommit, JournaledIsEnabled,
           SettledLeavesNoRecord
  <2>9. RecordIsCurrent'
        BY <2>1, <2>4, <2>5, <2>6 DEF RecordIsCurrent
  <2>10. FloorIsKept'
        BY <2>1, <2>4, <2>5, <2>6 DEF AloneInv, FloorIsKept, Active
  <2> QED BY <1>a, <2>7, <2>8, <2>9, <2>10 DEF AloneInv, Isolated
<1>3. ASSUME NEW a \in Actors, Wake(a) PROVE AloneInv'
  <2>1. Active(a) /\ floor = 0
        BY <1>3, <1>b DEF Wake, Active, AloneInv, FloorIsKept
  <2>2. /\ pc' = [pc EXCEPT ![a] = "wait"] /\ mode' = mode
        /\ \A b \in Actors \ {a} : wake'[b] = wake[b]
        /\ UNCHANGED <<disk, journaled, result, floor>>
        BY <1>3, <1>b DEF Wake, Post
  <2>3. /\ IF JournalEnabled THEN disk # NoRecord /\ disk.mode = mode[a]
           ELSE disk = NoRecord
        /\ disk # NoRecord => floor <= disk.not_before
        BY <2>1, AtWork DEF AloneInv, FloorIsKept
  <2> QED BY <1>a, <2>1, <2>2, <2>3, GoesOn
<1>4. ASSUME NEW a \in Actors, Succeed(a) \/ GiveUp(a) PROVE AloneInv'
  <2>1. Active(a)
        BY <1>4, AnsweredIsActive DEF Succeed, GiveUp, Failed
  <2>2. disk' = NoRecord
    <3>1. JournalEnabled => journaled
          BY <2>1, AtWork DEF AloneInv, JournaledIsEnabled
    <3> QED BY <1>a, <1>4, <2>1, <3>1, AtWork, DiscardSucceeds DEF Succeed, GiveUp
  <2>3. /\ Stop(a) /\ journaled' = journaled /\ (a # Guard => result' = result)
        BY <1>4 DEF Succeed, GiveUp, Return
  <2> QED BY <1>a, <2>1, <2>2, <2>3, ComesToRest
<1>5. ASSUME NEW a \in Actors, Retry(a) PROVE AloneInv'
  <2>1. Answered(a) /\ Active(a) /\ retries[a] \in 0 .. MaxAttempts
        BY <1>5, <1>a, AnsweredIsActive DEF Retry, TypeOK
  <2>2. /\ IF JournalEnabled THEN disk' # NoRecord /\ disk'.mode = mode[a]
           ELSE disk' = NoRecord
        /\ disk' # NoRecord => floor' <= disk'.not_before
        BY <1>5, <2>1, ObserverKeepsRecord DEF Retry
  <2>3. floor' <= delay_for(retries[a], Outcome(a))
        BY <1>5, <2>1, FloorIsJournaled DEF Retry
  <2>4. /\ pc' = [pc EXCEPT ![a] = "sleep"] /\ mode' = mode
        /\ wake'[a] = delay_for(retries[a], Outcome(a))
        /\ \A b \in Actors \ {a} : wake'[b] = wake[b]
        /\ UNCHANGED <<journaled, result>>
        BY <1>5, <1>b DEF Retry
  <2> QED BY <1>a, <2>1, <2>2, <2>3, <2>4, GoesOn
<1>6. ASSUME NEW a \in Actors, SwitchToEvent(a) PROVE AloneInv'
  <2>1. Active(a) /\ floor = 0
        BY <1>6, AnsweredIsActive DEF SwitchToEvent, Failed, Answered, AloneInv, FloorIsKept
  <2>2. UNCHANGED <<journaled, result, floor>>
        BY <1>6 DEF SwitchToEvent
  <2>3. journaled <=> JournalEnabled
        BY <2>1, AtWork DEF AloneInv, JournaledIsEnabled
  <2>4. CASE JournalEnabled
    <3>1. disk' = Entry("Event", 0) /\ Post(a, "Event", 0)
          BY <1>6, <1>a, <2>3, <2>4 DEF SwitchToEvent, journal_pending, Isolated
    <3>2. /\ pc' = [pc EXCEPT ![a] = "wait"] /\ mode'[a] = "Event"
          /\ \A b \in Actors \ {a} : mode'[b] = mode[b] /\ wake'[b] = wake[b]
          BY <1>b, <3>1 DEF Post
    <3>3. disk' # NoRecord /\ disk'.mode = mode'[a] /\ floor' = 0
          /\ floor' <= disk'.not_before
          BY <2>1, <2>2, <3>1, <3>2, EntryIsARecord DEF JournalMode
    <3> QED BY <1>a, <2>1, <2>2, <2>4, <3>2, <3>3, GoesOn
  <2>5. CASE ~JournalEnabled
    <3>1. disk' = NoRecord
          BY <1>6, <2>1, <2>5, AtWork DEF SwitchToEvent, journal_pending
    <3>2. CASE Post(a, "Event", 0)
      <4>1. /\ pc' = [pc EXCEPT ![a] = "wait"]
            /\ \A b \in Actors \ {a} : mode'[b] = mode[b] /\ wake'[b] = wake[b]
            BY <1>b, <3>2 DEF Post
      <4> QED BY <1>a, <2>1, <2>2, <2>5, <3>1, <4>1, GoesOn
    <3>3. CASE Stop(a)
          BY <1>a, <2>1, <2>2, <3>1, <3>3, ComesToRest
    <3> QED BY <1>6, <3>2, <3>3 DEF SwitchToEvent
  <2> QED BY <2>4, <2>5
<1>7. ASSUME NEW a \in Actors, Retain(a) PROVE AloneInv'
  <2> DEFINE deadline == retry_deadline_ms(Outcome(a).retry_after)
  <2>1. Answered(a) /\ Active(a) /\ mode[a] \in JournalMode /\ 0 \in 0 .. MaxAttempts
        BY <1>7, <1>b, AnsweredIsActive, ConfigAssumption DEF Retain, Failed
  <2>2. floor' <= deadline
        BY <1>7, <2>1, FloorIsJournaled DEF Retain
  <2>3. disk' = IF JournalEnabled THEN Entry(mode[a], deadline) ELSE NoRecord
        BY <1>7, <1>a, <2>1, WriteSucceeds, AtWork DEF Retain
  <2>4. /\ Stop(a) /\ journaled' = journaled
        /\ IF a = Guard THEN result' = "pending" ELSE result' = result
        BY <1>7 DEF Retain, Return
  <2> QED BY <1>a, <2>1, <2>2, <2>3, <2>4, EntryIsARecord, ComesToRest
<1>8. ASSUME NEW a \in Actors, Abort(a) PROVE AloneInv'
  <2>1. Active(a) /\ Stop(a) /\ UNCHANGED <<disk, journaled, result, floor>>
        BY <1>8 DEF Abort, Active
  <2>2. a = Guard => result = "none"
        BY <2>1 DEF AloneInv, GuardHasNotReturned
  <2>3. /\ ~JournalEnabled => disk = NoRecord
        /\ disk # NoRecord => floor <= disk.not_before
        BY <2>1, AtWork DEF AloneInv, FloorIsKept
  <2> QED BY <1>a, <2>1, <2>2, <2>3, ComesToRest
<1>9. ASSUME NEW a \in Actors, Server(a) PROVE AloneInv'
      BY <1>a, <1>9, LeavesAlone DEF Server, Grant, Gone, Refuse, Blur, Timeout,
         clientVars
<1>10. CASE ServeLate \/ Expire \/ UNCHANGED vars
      BY <1>a, <1>10, LeavesAlone DEF ServeLate, Expire, clientVars, vars, actorVars
<1>11. CASE Tick
  <2>1. /\ \A x, y \in Nat : x <= y => elapse(x) <= elapse(y)
        /\ elapse(0) = 0
        BY DEF elapse
  <2>2. /\ UNCHANGED <<pc, mode, journaled, result>> /\ floor' = elapse(floor)
        /\ \A b \in Actors : wake'[b] = elapse(wake[b])
        BY <1>11 DEF Tick
  <2>3. disk \in Record \cup {NoRecord}
        BY <1>a DEF TypeOK
  <2>4. /\ disk'.mode = disk.mode /\ disk'.not_before = elapse(disk.not_before)
        /\ disk' = NoRecord <=> disk = NoRecord
        /\ disk.not_before \in Nat
        BY <1>11, <2>1, <2>3 DEF Tick, Record, NoRecord, JournalMode, elapse
  <2>5. OneAtATime' /\ GuardHasNotReturned' /\ JournaledIsEnabled'
        BY <2>2 DEF AloneInv, OneAtATime, GuardHasNotReturned, JournaledIsEnabled, Active
  <2>6. NothingBeforeCommit' /\ SettledLeavesNoRecord'
        BY <2>1, <2>2, <2>4 DEF AloneInv, NothingBeforeCommit, SettledLeavesNoRecord
  <2>7. RecordIsCurrent'
        BY <2>2, <2>4 DEF AloneInv, RecordIsCurrent, Active
  <2>8. FloorIsKept'
        BY <1>b, <2>1, <2>2, <2>4 DEF AloneInv, FloorIsKept
  <2> QED BY <1>a, <2>5, <2>6, <2>7, <2>8 DEF AloneInv, Isolated
<1> QED
    BY <1>1, <1>2, <1>3, <1>4, <1>5, <1>6, <1>7, <1>8, <1>9, <1>10, <1>11
    DEF Next, Client, Handle

-----------------------------------------------------------------------------
(* The theorems.                                                           *)

(* The invariant holds in every behaviour of isolated actors.              *)
THEOREM AloneInvariant == Isolated /\ Spec => []AloneInv
<1>1. Isolated /\ Init => AloneInv
      BY AloneInit
<1>2. AloneInv /\ [Next]_vars => AloneInv'
      BY AloneStep
<1> QED BY <1>1, <1>2, PTL DEF Spec

(* A proven success or an understood rejection leaves no record behind.    *)
THEOREM SettledSpendLeavesNoRecord == Isolated /\ Spec => []SettledLeavesNoRecord
<1>1. AloneInv => SettledLeavesNoRecord
      BY DEF AloneInv
<1> QED BY <1>1, AloneInvariant, PTL

(* A request leaves from commit, from a sleep that is over, or right after *)
(* an answer that is not a 429; each time the floor is down.               *)
LEMMA SendsAboveNoFloor ==
    ASSUME AloneInv, [Next]_vars, NEW a \in Actors, Sends(a)
    PROVE  floor = 0
<1>1. CASE pc[a] = "wait"
      BY <1>1 DEF AloneInv, FloorIsKept
<1>2. CASE pc[a] # "wait"
  <2>a. /\ pc \in [Actors -> {"idle", "sleep", "wait", "done"}]
        /\ floor \in Nat /\ Guard \in Actors
        BY DEF AloneInv, TypeOK, Actors
  <2>1. pc'[a] = "wait" /\ pc' # pc
        BY <1>2, <2>a DEF Sends, Outstanding
  <2>2. CASE Commit
        BY <2>2 DEF Commit, AloneInv, NothingBeforeCommit
  <2>3. ASSUME NEW b \in Actors, Wake(b) PROVE floor = 0
        BY <2>3, <2>a DEF Wake, AloneInv, FloorIsKept
  <2>4. ASSUME NEW b \in Actors, Handle(b) \/ Abort(b) PROVE floor = 0
    <3>1. pc[b] = "wait" \/ Abort(b)
          BY <2>4 DEF Handle, Succeed, Retry, SwitchToEvent, Retain, GiveUp, Failed,
             Answered
    <3>2. ~Abort(b)
          BY <1>2, <2>1, <2>a DEF Abort, Stop
    <3> QED BY <3>1, <3>2 DEF AloneInv, FloorIsKept
  <2>5. ASSUME NEW b \in Actors PROVE ~Load(b) /\ ~Server(b)
        BY <1>2, <2>1, <2>a DEF Load, Server, Grant, Gone, Refuse, Blur, Timeout,
           clientVars
  <2>6. ~ServeLate /\ ~Expire /\ ~Tick /\ ~UNCHANGED vars
        BY <2>1 DEF ServeLate, Expire, Tick, clientVars, vars
  <2> QED BY <2>2, <2>3, <2>4, <2>5, <2>6 DEF Next, Client
<1> QED BY <1>1, <1>2

(* No request leaves before the Retry-After of the latest 429 is over,     *)
(* across retries, CommitPending, aborts and restarts.                     *)
THEOREM RetryAfterOutlived == Isolated /\ Spec => HonoursRetryAfter
<1>1. AloneInv /\ [Next]_vars => [\A a \in Actors : Sends(a) => floor = 0]_vars
      BY SendsAboveNoFloor
<1> QED BY <1>1, AloneInvariant, PTL DEF Spec, HonoursRetryAfter

(* Every writer writes its own mode, which is the record's, or the event.  *)
LEMMA EventModeStays ==
    ASSUME AloneInv, [Next]_vars, disk.mode = "Event"
    PROVE  disk'.mode # "Commit"
<1>a. /\ disk # NoRecord /\ Isolated /\ TypeOK
      /\ NoRecord.mode # "Commit" /\ (disk' = disk => disk'.mode # "Commit")
      /\ \A m, d : Entry(m, d).mode = m
      BY DEF NoRecord, AloneInv, Entry
<1>b. ASSUME NEW a \in Actors, Answered(a)
      PROVE  mode[a] = "Event"
      BY <1>a, <1>b, AtWork, AnsweredIsActive
<1>c. ASSUME NEW e, e.mode = "Event", BestEffortWrite(e)
      PROVE  disk'.mode # "Commit"
      BY <1>a, <1>c DEF BestEffortWrite, journal_pending
<1>1. ~Commit
      BY <1>a DEF Commit, AloneInv, NothingBeforeCommit
<1>2. ASSUME NEW a \in Actors, Succeed(a) \/ GiveUp(a)
      PROVE  disk'.mode # "Commit"
      BY <1>2, <1>a DEF Succeed, GiveUp, discard_pending
<1>3. ASSUME NEW a \in Actors, Retry(a)
      PROVE  disk'.mode # "Commit"
      BY <1>3, <1>a, <1>b, <1>c, ObserveWrites DEF Retry
<1>4. ASSUME NEW a \in Actors, Retain(a)
      PROVE  disk'.mode # "Commit"
      BY <1>4, <1>a, <1>b, <1>c DEF Retain, Failed
<1>5. ASSUME NEW a \in Actors
      PROVE  ~SwitchToEvent(a)
      BY <1>b DEF SwitchToEvent, Failed, Expired
<1>6. ASSUME NEW a \in Actors, Load(a) \/ Wake(a) \/ Abort(a) \/ Server(a)
      PROVE  disk' = disk
      BY <1>6 DEF Load, Wake, Abort, Server, Grant, Gone, Refuse, Blur, Timeout, clientVars
<1>7. ASSUME ServeLate \/ Expire \/ UNCHANGED vars
      PROVE  disk' = disk
      BY <1>7 DEF ServeLate, Expire, clientVars, vars
<1>8. CASE Tick
      BY <1>8, <1>a DEF Tick, TypeOK, Record, NoRecord
<1> QED
    BY <1>a, <1>1, <1>2, <1>3, <1>4, <1>5, <1>6, <1>7, <1>8 DEF Next, Client, Handle

(* A record in event mode is never put back to commit mode, so no restart  *)
(* retries a commit known to be lost.                                      *)
THEOREM EventRecordStaysEvent == Isolated /\ Spec => NeverBackToCommit
<1>1. AloneInv /\ [Next]_vars => [disk.mode = "Event" => disk'.mode # "Commit"]_vars
      BY EventModeStays
<1> QED BY <1>1, AloneInvariant, PTL DEF Spec, NeverBackToCommit
=============================================================================
