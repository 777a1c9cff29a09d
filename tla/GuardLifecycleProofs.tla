------------------------ MODULE GuardLifecycleProofs ------------------------
(* One reservation from its creation to its end, for every set of          *)
(* responses that prove nothing.                                           *)
EXTENDS GuardLifecycle, ErrorClassesProofs, FiniteSetTheorems

(* The replies the server and the network make are replies.                *)
LEMMA ReplyTypes ==
    /\ NoReply \in Reply /\ LostReply \in Reply
    /\ \A b \in BOOLEAN : [resp |-> Received, granted |-> b] \in Reply
    /\ \A resp \in Ambiguous, b \in BOOLEAN : [resp |-> resp, granted |-> b] \in Reply
<1>1. Received \in Response /\ Lost \in Response /\ Ambiguous \subseteq Response
      BY AmbiguousAssumption
      DEF Response, HttpResponse, Received, NoDelay
<1> QED BY <1>1 DEF Reply, NoReply, LostReply

(* What the client takes for a reservation is a receipt.                   *)
LEMMA CreatedIsReceipt ==
    ASSUME reply \in Reply, created.kind = "Ok"
    PROVE  IsReceipt(200, reply.resp)
<1>1. reply.resp \in Response
      BY DEF Reply
<1> QED BY <1>1, VerdictsAreRead DEF created, ReadsVerdict

(* Before anything is asked, nothing is held.                              *)
LEMMA InitialInvariant == Init => LifecycleInv
<1> SUFFICES ASSUME Init PROVE LifecycleInv
    OBVIOUS
<1>1. TypeOK
  <2>1. /\ rsv \in [Keys -> {"none", "live", "expired", "committed", "released"}]
        /\ verdict \in [Keys -> {"open", "granted", "denied"}]
        BY DEF Init
  <2>2. attempt \in 0 .. 1
        BY DEF Init
  <2>3. {finalized, cancelled, sweep} \subseteq BOOLEAN
        BY Zenon DEF Init
  <2> QED BY <2>1, <2>2, <2>3, ReplyTypes DEF Init, TypeOK
<1>2. OneKey /\ PhasesFit /\ NoReleaseYet
      BY DEF Init, OneKey, PhasesFit, NoReleaseYet, Keys, NoId
<1>3. GrantsAreReal
      BY DEF Init, GrantsAreReal, Keys, NoId, CreateAnswered
<1> QED BY <1>1, <1>2, <1>3 DEF LifecycleInv

(* Asking, asking once more, and having nothing to hold.                   *)
LEMMA CreatingKeepsInvariant ==
    ASSUME LifecycleInv, Reserve \/ RetryCreate \/ CreateFails \/ AbandonCreate
    PROVE  LifecycleInv'
<1> USE DEF LifecycleInv
<1>1. /\ pc \in {"idle", "create"} /\ pc' \in {"create", "done"}
      /\ UNCHANGED <<ran, guardVars, beat, serverVars>>
      BY DEF Reserve, RetryCreate, CreateFails, AbandonCreate, CreateAnswered
<1>2. attempt' \in 0 .. 1 /\ reply' \in Reply
      BY ReplyTypes
      DEF TypeOK, Reserve, RetryCreate, CreateFails, AbandonCreate, recoverable
<1>3. \A req \in late' : req \in late \/ req = [kind |-> "create", key |-> "callers"]
      BY DEF Reserve, RetryCreate, CreateFails, AbandonCreate, Creating, Asked, create_key
<1>4. TypeOK'
  <2>1. late' \subseteq Request
        BY <1>3 DEF TypeOK, Request, Keys
  <2> QED BY <1>1, <1>2, <2>1 DEF TypeOK, guardVars, serverVars
<1>5. OneKey' /\ PhasesFit' /\ NoReleaseYet'
      BY <1>1, <1>3 DEF OneKey, PhasesFit, NoReleaseYet, guardVars, serverVars, NoId
<1>6. GrantsAreReal'
  <2>1. CreateAnswered' => CreateAnswered /\ reply' = reply
        BY DEF PhasesFit, CreateAnswered, Reserve, RetryCreate, CreateFails, AbandonCreate
  <2> QED BY <1>1, <2>1 DEF GrantsAreReal, serverVars, guardVars
<1> QED BY <1>4, <1>5, <1>6

(* A guard is made only of a receipt that grants.                          *)
LEMMA GuardKeepsInvariant ==
    ASSUME LifecycleInv, Guard
    PROVE  LifecycleInv'
<1> USE DEF LifecycleInv, Guard
<1>1. rsv["callers"] # "none"
      BY CreatedIsReceipt DEF TypeOK, GrantsAreReal
<1>2. TypeOK'
      BY DEF TypeOK, create_key, Keys, serverVars
<1>3. OneKey' /\ PhasesFit' /\ NoReleaseYet'
      BY DEF OneKey, PhasesFit, NoReleaseYet, CreateAnswered, create_key, serverVars, NoId
<1>4. GrantsAreReal'
      BY <1>1 DEF GrantsAreReal, CreateAnswered, create_key, serverVars, NoId
<1> QED BY <1>2, <1>3, <1>4

(* From here on the guard has an id, the one key's.                        *)
LEMMA GuardHasId ==
    ASSUME LifecycleInv, pc \in {"run", "commit", "event", "release"} \/ sweep
    PROVE  id = "callers" /\ "callers" \in Keys
BY DEF LifecycleInv, PhasesFit, OneKey, Keys, NoId

(* What a drop does to the guard: it spawns no release once finalized.     *)
LEMMA DropEffect ==
    ASSUME LifecycleInv, DropGuard, id = "callers"
    PROVE  /\ {finalized, cancelled, sweep}' \subseteq BOOLEAN
           /\ cancelled' = TRUE /\ id' = id /\ finalized' = finalized
           /\ finalized => sweep' = sweep
BY DEF DropGuard, LifecycleInv, TypeOK

(* The operation returns.                                                  *)
LEMMA ReturnKeepsInvariant ==
    ASSUME LifecycleInv, Commit \/ Release
    PROVE  LifecycleInv'
<1> USE DEF LifecycleInv, Commit, Release
<1>1. id = "callers"
      BY GuardHasId
<1>2. TypeOK'
      BY DEF TypeOK, serverVars
<1>3. OneKey'
      BY DEF OneKey, serverVars
<1>4. GrantsAreReal'
      BY DEF GrantsAreReal, CreateAnswered, serverVars
<1>5. PhasesFit'
      BY <1>1 DEF PhasesFit, serverVars, NoId
<1>6. NoReleaseYet'
      BY DEF NoReleaseYet, serverVars
<1> QED BY <1>2, <1>3, <1>4, <1>5, <1>6

(* Requests and server after a step that may leave a request behind and    *)
(* may carry one out.                                                      *)
MayLinger(reqs) == late' \in {late, late \cup reqs}
MayEnd == verdict' = verdict /\ rsv' \in {rsv, released(rsv, id), recorded(rsv, id)}

(* Leaving requests behind and carrying them out disturbs neither types    *)
(* nor the one key, and un-reserves nothing.                               *)
LEMMA ServerKept ==
    ASSUME LifecycleInv, id = "callers", MayEnd,
           NEW reqs, MayLinger(reqs), \A req \in reqs : req \in Request /\ req.key = "callers"
    PROVE  /\ late' \subseteq Request
           /\ rsv' \in [Keys -> {"none", "live", "expired", "committed", "released"}]
           /\ verdict' \in [Keys -> {"open", "granted", "denied"}]
           /\ rsv'["fresh"] = "none" /\ verdict'["fresh"] = "open"
           /\ \A req \in late' : req.key = "callers"
           /\ rsv'["callers"] # "none" <=> rsv["callers"] # "none"
<1> USE DEF LifecycleInv, TypeOK, OneKey, Keys
<1>1. late' \subseteq Request /\ \A req \in late' : req.key = "callers"
      BY DEF MayLinger
<1>2. CASE rsv' = rsv
      BY <1>1, <1>2 DEF MayEnd
<1>3. CASE rsv' = released(rsv, id)
      BY <1>1, <1>3 DEF MayEnd, released
<1>4. CASE rsv' = recorded(rsv, id)
      BY <1>1, <1>4 DEF MayEnd, recorded
<1> QED BY <1>2, <1>3, <1>4 DEF MayEnd

(* The one request of a commit or release, and the one of the sweep.       *)
LEMMA RequestsOfGuard ==
    ASSUME LifecycleInv, id = "callers"
    PROVE  /\ \A req \in Outstanding :
                 /\ req \in Request /\ req.key = "callers"
                 /\ req.kind = "release" => pc = "release"
           /\ \A req \in Sweeping :
                 req \in Request /\ req.key = "callers" /\ sweep
BY DEF Outstanding, Sweeping, Request, Keys

(* The commit and event phases, up to their end.                           *)
LEMMA SettlingKeepsInvariant ==
    ASSUME LifecycleInv,
           CommitSucceeds \/ CommitRepeats \/ CommitExpires \/ SettlementEnds
    PROVE  LifecycleInv'
<1> USE DEF LifecycleInv
<1>1. pc \in {"commit", "event"} /\ ran = "ok" /\ finalized /\ id = "callers"
      /\ UNCHANGED <<attempt, reply, ran, beat>>
  <2>1. pc \in {"commit", "event"} /\ UNCHANGED <<attempt, reply, ran, beat>>
        BY DEF CommitSucceeds, CommitRepeats, CommitExpires, SettlementEnds, callerVars
  <2> QED BY <2>1, GuardHasId DEF PhasesFit
<1>2. pc' \in {"commit", "event", "done"}
      BY <1>1 DEF CommitSucceeds, CommitRepeats, CommitExpires, SettlementEnds, callerVars
<1>3. /\ {finalized, cancelled, sweep}' \subseteq BOOLEAN
      /\ id' = id /\ finalized' = finalized /\ sweep' = sweep
  <2>1. CASE CommitSucceeds \/ SettlementEnds
        BY <1>1, <2>1, DropEffect DEF CommitSucceeds, SettlementEnds
  <2>2. CASE CommitRepeats \/ CommitExpires
        BY <2>2 DEF CommitRepeats, CommitExpires, guardVars, TypeOK
  <2> QED BY <2>1, <2>2
<1>4. /\ MayLinger(Outstanding) /\ verdict' = verdict
      /\ rsv' = rsv \/ CommitSucceeds
      BY DEF CommitSucceeds, CommitRepeats, CommitExpires, SettlementEnds,
         MayLinger, serverVars
<1>5. CommitSucceeds => rsv' \in {rsv, recorded(rsv, id)}
  <2>1. ASSUME CommitSucceeds, rsv[id] = "committed" PROVE rsv' = rsv
        BY <1>1, <2>1 DEF CommitSucceeds, TypeOK, Keys
  <2> QED BY <2>1 DEF CommitSucceeds, recorded
<1>6. MayEnd
      BY <1>4, <1>5 DEF MayEnd
<1>7. \A req \in late' : req \in late \/ req.kind # "release"
      BY <1>1, <1>4, RequestsOfGuard DEF MayLinger
<1>8. TypeOK'
      BY <1>1, <1>2, <1>3, <1>4, <1>6, ServerKept, RequestsOfGuard DEF TypeOK
<1>9. OneKey' /\ GrantsAreReal'
      BY <1>1, <1>2, <1>3, <1>4, <1>6, ServerKept, RequestsOfGuard
      DEF OneKey, GrantsAreReal, CreateAnswered, NoId
<1>10. PhasesFit'
      BY <1>1, <1>2, <1>3 DEF PhasesFit, NoId
<1>11. NoReleaseYet'
  <2>1. rsv'["callers"] # "released"
        BY <1>1, <1>4, <1>5 DEF NoReleaseYet, recorded, TypeOK, Keys
  <2> QED BY <1>1, <1>3, <1>7, <2>1 DEF NoReleaseYet
<1> QED BY <1>8, <1>9, <1>10, <1>11

(* Releasing and dropping: nothing is spent, or the guard is finalized.    *)
LEMMA EndingKeepsInvariant ==
    ASSUME LifecycleInv, ReleaseEnds \/ Drop
    PROVE  LifecycleInv'
<1> USE DEF LifecycleInv
<1>1. /\ pc \in {"run", "commit", "event", "release"} /\ id = "callers" /\ pc' = "done"
      /\ UNCHANGED <<attempt, reply, ran, beat>>
      BY GuardHasId DEF ReleaseEnds, Drop
<1>2. /\ {finalized, cancelled, sweep}' \subseteq BOOLEAN
      /\ id' = id /\ finalized' = finalized /\ (finalized => sweep' = sweep)
      BY <1>1, DropEffect DEF ReleaseEnds, Drop
<1>3. MayLinger(Outstanding) /\ MayEnd
      BY DEF ReleaseEnds, Drop, MayLinger, MayEnd, serverVars
<1>4. TypeOK'
      BY <1>1, <1>2, <1>3, ServerKept, RequestsOfGuard DEF TypeOK
<1>5. OneKey' /\ GrantsAreReal'
      BY <1>1, <1>2, <1>3, ServerKept, RequestsOfGuard
      DEF OneKey, GrantsAreReal, CreateAnswered, NoId, MayEnd
<1>6. PhasesFit'
      BY <1>1, <1>2 DEF PhasesFit, NoId
<1>7. NoReleaseYet'
  <2> SUFFICES ASSUME ran = "ok"
               PROVE  ~sweep' /\ (\A req \in late' : req.kind # "release")
                      /\ rsv'["callers"] # "released"
      BY <1>1 DEF NoReleaseYet
  <2>1. pc # "release" /\ finalized /\ Drop
        BY DEF PhasesFit, ReleaseEnds
  <2>2. rsv' = rsv /\ sweep' = sweep
        BY <1>2, <2>1 DEF Drop, serverVars
  <2>3. \A req \in late' : req \in late \/ req.kind # "release"
        BY <1>1, <1>3, <2>1, RequestsOfGuard DEF MayLinger
  <2> QED BY <2>2, <2>3 DEF NoReleaseYet
<1> QED BY <1>4, <1>5, <1>6, <1>7

(* The spawned release.                                                    *)
LEMMA SweepKeepsInvariant ==
    ASSUME LifecycleInv, Sweep
    PROVE  LifecycleInv'
<1> USE DEF LifecycleInv
<1>1. /\ id = "callers" /\ UNCHANGED <<callerVars, id, finalized, cancelled, beat>>
      /\ sweep /\ sweep' = FALSE
      BY GuardHasId DEF Sweep
<1>2. MayLinger(Sweeping) /\ MayEnd
      BY DEF Sweep, MayLinger, MayEnd
<1>3. TypeOK'
      BY <1>1, <1>2, ServerKept, RequestsOfGuard DEF TypeOK, callerVars
<1>4. OneKey' /\ GrantsAreReal'
      BY <1>1, <1>2, ServerKept, RequestsOfGuard
      DEF OneKey, GrantsAreReal, CreateAnswered, NoId, callerVars, MayEnd
<1>5. PhasesFit' /\ NoReleaseYet'
      BY <1>1 DEF PhasesFit, NoReleaseYet, callerVars
<1> QED BY <1>3, <1>4, <1>5

(* The heartbeat touches nothing else.                                     *)
LEMMA BeatKeepsInvariant ==
    ASSUME LifecycleInv, BeatDue \/ BeatEnds \/ BeatCancelled
    PROVE  LifecycleInv'
<1>1. beat' \in {"none", "sleep", "extend", "stopped"}
      /\ UNCHANGED <<callerVars, guardVars, late, serverVars>>
      BY DEF BeatDue, BeatEnds, BeatCancelled
<1> QED BY <1>1 DEF LifecycleInv, TypeOK, OneKey, GrantsAreReal, CreateAnswered,
           PhasesFit, NoReleaseYet, callerVars, guardVars, serverVars

(* A decision is made for the one key, and is what the reservation is.     *)
LEMMA DecisionIsReal ==
    ASSUME LifecycleInv, Decide("callers")
    PROVE  /\ rsv' \in [Keys -> {"none", "live", "expired", "committed", "released"}]
           /\ verdict' \in [Keys -> {"open", "granted", "denied"}]
           /\ rsv'["fresh"] = "none" /\ verdict'["fresh"] = "open"
           /\ rsv'["callers"] # "none" <=> verdict'["callers"] = "granted"
           /\ rsv["callers"] # "none" => rsv'["callers"] # "none"
           /\ rsv'["callers"] = "released" => rsv["callers"] = "released"
BY DEF LifecycleInv, TypeOK, OneKey, GrantsAreReal, Decide, serverVars, Keys

(* A create is answered, or its answer proves nothing, or there is none.   *)
LEMMA AnsweringKeepsInvariant ==
    ASSUME LifecycleInv, Answer \/ Blur \/ Lose
    PROVE  LifecycleInv'
<1> USE DEF LifecycleInv
<1>1. /\ pc = "create" /\ pc' = pc /\ UNCHANGED <<attempt, ran, guardVars, beat>>
      BY DEF Answer, Blur, Lose, Awaited
<1>2. Decide("callers") \/ UNCHANGED serverVars
      BY DEF Answer, Blur, Lose, Asked, create_key
<1>3. \A req \in late' : req \in late \/ req = [kind |-> "create", key |-> "callers"]
      BY DEF Answer, Blur, Lose, Asked, create_key
<1>4. reply' \in Reply
  <2>1. ASSUME Answer PROVE reply' \in Reply
        BY <2>1, ReplyTypes DEF Answer
  <2>2. ASSUME Blur PROVE reply' \in Reply
        BY <2>2, ReplyTypes DEF Blur
  <2>3. ASSUME Lose PROVE reply' \in Reply
        BY <2>3, ReplyTypes DEF Lose
  <2> QED BY <2>1, <2>2, <2>3
<1>5. /\ rsv' \in [Keys -> {"none", "live", "expired", "committed", "released"}]
      /\ verdict' \in [Keys -> {"open", "granted", "denied"}]
      /\ rsv'["fresh"] = "none" /\ verdict'["fresh"] = "open"
      /\ rsv'["callers"] # "none" <=> verdict'["callers"] = "granted"
      /\ rsv["callers"] # "none" => rsv'["callers"] # "none"
      /\ rsv'["callers"] = "released" => rsv["callers"] = "released"
      BY <1>2, DecisionIsReal DEF TypeOK, OneKey, GrantsAreReal, serverVars
<1>6. IsReceipt(200, reply'.resp) /\ reply'.granted => rsv'["callers"] # "none"
  <2>1. ASSUME Answer PROVE reply'.granted => rsv'["callers"] # "none"
        BY <1>5, <2>1 DEF Answer, Asked, create_key
  <2>2. ASSUME Blur PROVE ~IsReceipt(200, reply'.resp)
        BY <2>2, AmbiguousAssumption DEF Blur
  <2>3. ASSUME Lose PROVE ~IsReceipt(200, reply'.resp)
        BY <2>3 DEF Lose, LostReply, Lost, IsReceipt, NoStatus
  <2> QED BY <2>1, <2>2, <2>3
<1>7. TypeOK'
  <2>1. late' \subseteq Request
        BY <1>3 DEF TypeOK, Request, Keys
  <2> QED BY <1>1, <1>4, <1>5, <2>1 DEF TypeOK, guardVars
<1>8. OneKey'
      BY <1>1, <1>3, <1>5 DEF OneKey, guardVars
<1>9. GrantsAreReal'
      BY <1>1, <1>5, <1>6 DEF GrantsAreReal, guardVars
<1>10. PhasesFit' /\ NoReleaseYet'
      BY <1>1, <1>3, <1>5 DEF PhasesFit, NoReleaseYet, guardVars
<1> QED BY <1>7, <1>8, <1>9, <1>10

(* A request that outlived its sender is carried out.                      *)
LEMMA ServeLateKeepsInvariant ==
    ASSUME LifecycleInv, ServeLate
    PROVE  LifecycleInv'
<1> USE DEF LifecycleInv
<1>1. PICK req \in late :
          /\ late' = late \ {req}
          /\ \/ req.kind = "create" /\ Decide(req.key)
             \/ /\ req.kind = "commit" /\ rsv' = recorded(rsv, req.key)
                /\ UNCHANGED verdict
             \/ /\ req.kind = "release" /\ rsv' = released(rsv, req.key)
                /\ UNCHANGED verdict
      BY DEF ServeLate
<1>2. req.key = "callers" /\ UNCHANGED <<callerVars, guardVars, beat>>
      BY DEF ServeLate, OneKey
<1>3. /\ rsv' \in [Keys -> {"none", "live", "expired", "committed", "released"}]
      /\ verdict' \in [Keys -> {"open", "granted", "denied"}]
      /\ rsv'["fresh"] = "none" /\ verdict'["fresh"] = "open"
      /\ rsv'["callers"] # "none" <=> verdict'["callers"] = "granted"
      /\ rsv["callers"] # "none" => rsv'["callers"] # "none"
      /\ rsv'["callers"] = "released" =>
             rsv["callers"] = "released" \/ req.kind = "release"
  <2>1. CASE req.kind = "create"
        BY <1>1, <1>2, <2>1, DecisionIsReal
  <2>2. CASE req.kind # "create"
        BY <1>1, <1>2, <2>2
        DEF TypeOK, OneKey, GrantsAreReal, recorded, released, Keys
  <2> QED BY <2>1, <2>2
<1>4. TypeOK'
      BY <1>1, <1>2, <1>3 DEF TypeOK, callerVars, guardVars
<1>5. OneKey' /\ PhasesFit'
      BY <1>1, <1>2, <1>3 DEF OneKey, PhasesFit, callerVars, guardVars
<1>6. GrantsAreReal'
      BY <1>2, <1>3 DEF GrantsAreReal, CreateAnswered, callerVars, guardVars
<1>7. NoReleaseYet'
      BY <1>1, <1>2, <1>3 DEF NoReleaseYet, callerVars, guardVars
<1> QED BY <1>4, <1>5, <1>6, <1>7

(* A lease runs out.                                                       *)
LEMMA ExpiryKeepsInvariant ==
    ASSUME LifecycleInv, ExpireAttended \/ ExpireUnattended
    PROVE  LifecycleInv'
<1> USE DEF LifecycleInv
<1>1. PICK k \in Keys : Expire(k)
      BY DEF ExpireAttended, ExpireUnattended
<1>2. k = "callers"
      BY <1>1 DEF Expire, OneKey, Keys
<1>3. TypeOK' /\ OneKey'
      BY <1>1, <1>2 DEF Expire, TypeOK, OneKey, callerVars, guardVars, Keys
<1>4. GrantsAreReal'
      BY <1>1, <1>2 DEF Expire, TypeOK, GrantsAreReal, CreateAnswered, callerVars,
         guardVars, Keys
<1>5. PhasesFit' /\ NoReleaseYet'
      BY <1>1, <1>2 DEF Expire, TypeOK, PhasesFit, NoReleaseYet, callerVars,
         guardVars, Keys
<1> QED BY <1>3, <1>4, <1>5

(* The process dies; what it had sent may still arrive.                    *)
LEMMA ExitKeepsInvariant ==
    ASSUME LifecycleInv, Exit
    PROVE  LifecycleInv'
<1> USE DEF LifecycleInv, Exit
<1>1. /\ pc' = "done" /\ beat' = "stopped" /\ sweep' = FALSE
      /\ UNCHANGED <<attempt, reply, ran, id, finalized, cancelled, serverVars>>
      OBVIOUS
<1>2. \A req \in late' :
          \/ req \in late
          \/ /\ req \in Request /\ req.key = "callers"
             /\ req.kind = "release" => pc = "release" \/ sweep
  <2>1. \A req \in Creating : req = [kind |-> "create", key |-> "callers"]
        BY DEF Creating, Asked, create_key
  <2>2. \A req \in Outstanding :
            req = [kind |-> pc, key |-> "callers"] /\ pc \in {"commit", "release"}
        BY GuardHasId DEF Outstanding
  <2>3. \A req \in Sweeping : req = [kind |-> "release", key |-> "callers"] /\ sweep
        BY GuardHasId DEF Sweeping
  <2> QED BY <2>1, <2>2, <2>3 DEF Request, Keys
<1>3. TypeOK'
      BY <1>1, <1>2 DEF TypeOK, serverVars
<1>4. OneKey' /\ PhasesFit' /\ GrantsAreReal'
      BY <1>1, <1>2 DEF OneKey, PhasesFit, GrantsAreReal, CreateAnswered, serverVars
<1>5. NoReleaseYet'
      BY <1>1, <1>2 DEF NoReleaseYet, PhasesFit, serverVars
<1> QED BY <1>3, <1>4, <1>5

(* The invariant is inductive.                                             *)
THEOREM LifecycleInvariant == Spec => []LifecycleInv
<1>1. ASSUME LifecycleInv, Next PROVE LifecycleInv'
  <2>1. CASE Reserve \/ RetryCreate \/ CreateFails \/ AbandonCreate
        BY <1>1, <2>1, CreatingKeepsInvariant
  <2>2. CASE Guard
        BY <1>1, <2>2, GuardKeepsInvariant
  <2>3. CASE Commit \/ Release
        BY <1>1, <2>3, ReturnKeepsInvariant
  <2>4. CASE CommitSucceeds \/ CommitRepeats \/ CommitExpires \/ SettlementEnds
        BY <1>1, <2>4, SettlingKeepsInvariant
  <2>5. CASE ReleaseEnds \/ Drop
        BY <1>1, <2>5, EndingKeepsInvariant
  <2>6. CASE Sweep
        BY <1>1, <2>6, SweepKeepsInvariant
  <2>7. CASE BeatDue \/ BeatEnds \/ BeatCancelled
        BY <1>1, <2>7, BeatKeepsInvariant
  <2>8. CASE Answer \/ Blur \/ Lose
        BY <1>1, <2>8, AnsweringKeepsInvariant
  <2>9. CASE ServeLate
        BY <1>1, <2>9, ServeLateKeepsInvariant
  <2>10. CASE ExpireAttended \/ ExpireUnattended
        BY <1>1, <2>10, ExpiryKeepsInvariant
  <2>11. CASE Exit
        BY <1>1, <2>11, ExitKeepsInvariant
  <2> QED
      BY <1>1, <2>1, <2>2, <2>3, <2>4, <2>5, <2>6, <2>7, <2>8, <2>9, <2>10, <2>11
      DEF Next
<1>2. ASSUME LifecycleInv, UNCHANGED vars PROVE LifecycleInv'
      BY <1>2 DEF LifecycleInv, TypeOK, OneKey, GrantsAreReal, CreateAnswered,
         PhasesFit, NoReleaseYet, vars, callerVars, guardVars, serverVars
<1> QED BY <1>1, <1>2, InitialInvariant, PTL DEF Spec

(* Every component keeps its type.                                         *)
THEOREM LifecycleTypeCorrect == Spec => []TypeOK
<1>1. LifecycleInv => TypeOK
      BY DEF LifecycleInv
<1> QED BY <1>1, LifecycleInvariant, PTL

(* One call to reserve makes one reservation at most, whichever of its     *)
(* requests are lost, answered unreadably or carried out late.             *)
THEOREM CallReservesOnce == Spec => []ReservesAtMostOnce
<1>1. ASSUME LifecycleInv PROVE ReservesAtMostOnce
  <2>1. {k \in Keys : rsv[k] # "none"} \subseteq {"callers"}
        BY <1>1 DEF LifecycleInv, OneKey, Keys
  <2>2. IsFiniteSet({"callers"}) /\ Cardinality({"callers"}) = 1
        BY FS_Singleton
  <2>3. /\ IsFiniteSet({k \in Keys : rsv[k] # "none"})
        /\ Cardinality({k \in Keys : rsv[k] # "none"}) <= Cardinality({"callers"})
        BY <2>1, <2>2, FS_Subset
  <2> QED BY <2>2, <2>3 DEF ReservesAtMostOnce
<1> QED BY <1>1, LifecycleInvariant, PTL

(* A guard's operation runs under a reservation the server made.           *)
THEOREM GuardsAreReal == Spec => []RunsOnlyWhenGranted
<1>1. LifecycleInv => RunsOnlyWhenGranted
      BY DEF LifecycleInv, RunsOnlyWhenGranted, GrantsAreReal, OneKey, NoId
<1> QED BY <1>1, LifecycleInvariant, PTL

(* Budget that was spent is never given back, whatever is dropped,         *)
(* cancelled or late.                                                      *)
THEOREM SpendStaysSpent == Spec => []SpentIsNotReleased
<1>1. LifecycleInv => SpentIsNotReleased
      BY DEF LifecycleInv, SpentIsNotReleased, NoReleaseYet, OneKey, PhasesFit, NoId
<1> QED BY <1>1, LifecycleInvariant, PTL
=============================================================================
