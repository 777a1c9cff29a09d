------------------------- MODULE ClientStartProofs -------------------------
(***************************************************************************)
(* Theorems about the start of clients: for any number of threads and      *)
(* clients, the replay is spawned at most once, directories follow the     *)
(* principal, and the fingerprint cache keeps its bound.                   *)
(***************************************************************************)
EXTENDS ClientStart, FiniteSetTheorems, TLAPS

(* A thread that does something does it for a client.                      *)
Busy == \A t \in Threads : pc[t] # "idle" => client[t] \in Clients

(* Who has swapped the flag is alone with it until it spawns or resets.    *)
FlagInv ==
    /\ \A t \in Threads : pc[t] = "spawn" =>
          /\ started[client[t]]
          /\ automatic[client[t]] = 0
          /\ \A u \in Threads : pc[u] = "spawn" /\ client[u] = client[t] => u = t
    /\ \A c \in Clients : automatic[c] \in {0, 1} /\ (automatic[c] = 1 => started[c])

(* The cache and the directories hold the right fingerprints.              *)
CacheInv ==
    \A c \in Clients :
       /\ cache_key(c) \in DOMAIN cache => cache[cache_key(c)] = Fingerprint(c)
       /\ directory[c] \in {NoDirectory, Fingerprint(c)}

BoundInv == IsFiniteSet(DOMAIN cache) /\ CacheIsBounded

LEMMA Labels ==
    /\ "idle" # "spawn" /\ "swap" # "spawn" /\ "lookup" # "spawn" /\ "insert" # "spawn"
    /\ "load" # "spawn" /\ "idle" # "swap"
OBVIOUS

-----------------------------------------------------------------------------
LEMMA InitType == Init => TypeOK /\ Busy
BY DEF Init, TypeOK, Busy

LEMMA ClientType ==
    ASSUME NEW c \in Clients
    PROVE  cache_key(c) \in Keys /\ Fingerprint(c) \in Fingerprints
BY DEF Keys, Fingerprints

LEMMA FinishType ==
    ASSUME TypeOK, Busy, NEW t \in Threads, Finish(t), pc[t] # "idle"
    PROVE  /\ pc' \in [Threads -> {"idle", "lookup", "insert", "swap", "spawn", "flush", "load"}]
           /\ client' \in [Threads -> Clients \cup {NoClient}]
           /\ made' \subseteq Clients
           /\ Busy'
BY DEF TypeOK, Busy, Finish, Goto

LEMMA GotoType ==
    ASSUME TypeOK, NEW t \in Threads,
           NEW label \in {"idle", "lookup", "insert", "swap", "spawn", "flush", "load"},
           Goto(t, label)
    PROVE  pc' \in [Threads -> {"idle", "lookup", "insert", "swap", "spawn", "flush", "load"}]
BY DEF TypeOK, Goto

LEMMA TypeStep == TypeOK /\ Busy /\ [Next]_vars => TypeOK' /\ Busy'
<1> SUFFICES ASSUME TypeOK, Busy, [Next]_vars PROVE TypeOK' /\ Busy'
  OBVIOUS
<1>1. ASSUME NEW t \in Threads, NEW c \in Clients, Construct(t, c) PROVE TypeOK' /\ Busy'
  <2>1. pc' \in [Threads -> {"idle", "lookup", "insert", "swap", "spawn", "flush", "load"}]
    BY <1>1, GotoType DEF Construct
  <2> QED
    BY <1>1, <2>1 DEF Construct, Goto, TypeOK, Busy, replayVars
<1>2. ASSUME NEW t \in Threads, Lookup(t) PROVE TypeOK' /\ Busy'
  <2>1. client[t] \in Clients
    BY <1>2 DEF Lookup, Busy
  <2>2. pc' \in [Threads -> {"idle", "lookup", "insert", "swap", "spawn", "flush", "load"}]
    BY <1>2, GotoType DEF Lookup
  <2>3. directory' \in [Clients -> Fingerprints \cup {NoDirectory}]
    BY <1>2, <2>1 DEF Lookup, TypeOK
  <2> QED
    BY <1>2, <2>1, <2>2, <2>3 DEF Lookup, Goto, TypeOK, Busy, replayVars
<1>3. ASSUME NEW t \in Threads, Insert(t) PROVE TypeOK' /\ Busy'
  <2>1. client[t] \in Clients
    BY <1>3 DEF Insert, Busy
  <2>2. cleared_when_full \subseteq DOMAIN cache
    BY DEF cleared_when_full
  <2>3. DOMAIN cache' \subseteq Keys /\ \A k \in DOMAIN cache' : cache'[k] \in Fingerprints
    BY <1>3, <2>1, <2>2, ClientType DEF Insert, TypeOK
  <2>4. pc' \in [Threads -> {"idle", "lookup", "insert", "swap", "spawn", "flush", "load"}]
    BY <1>3, GotoType DEF Insert
  <2>5. directory' \in [Clients -> Fingerprints \cup {NoDirectory}]
    BY <1>3, <2>1, ClientType DEF Insert, TypeOK
  <2> QED
    BY <1>3, <2>1, <2>3, <2>4, <2>5 DEF Insert, Goto, TypeOK, Busy, replayVars
<1>4. ASSUME NEW t \in Threads, NEW c \in Clients, Request(t, c) \/ StartFlush(t, c)
      PROVE  TypeOK' /\ Busy'
  <2>1. pc' \in [Threads -> {"idle", "lookup", "insert", "swap", "spawn", "flush", "load"}]
    BY <1>4, GotoType DEF Request, StartFlush
  <2>2. started' \in [Clients -> BOOLEAN]
    BY <1>4 DEF Request, StartFlush, replayVars, TypeOK
  <2> QED
    BY <1>4, <2>1, <2>2 DEF Request, StartFlush, Goto, TypeOK, Busy, replayVars
<1>5. ASSUME NEW t \in Threads, Swap(t) PROVE TypeOK' /\ Busy'
  <2>1. client[t] \in Clients /\ pc[t] # "idle"
    BY <1>5 DEF Swap, Busy
  <2>2. CASE Finish(t) /\ started' = started
                      /\ used' = IF t \in Inside THEN used \cup {client[t]} ELSE used
    BY <1>5, <2>1, <2>2, FinishType DEF Swap, TypeOK
  <2>3. CASE /\ Goto(t, "spawn") /\ started' = [started EXCEPT ![client[t]] = TRUE]
             /\ UNCHANGED <<client, made, used>>
    <3>1. pc' \in [Threads -> {"idle", "lookup", "insert", "swap", "spawn", "flush", "load"}]
      BY <2>3, GotoType
    <3> QED
      BY <1>5, <2>1, <2>3, <3>1 DEF Swap, Goto, TypeOK, Busy
  <2> QED
    BY <1>5, <2>2, <2>3 DEF Swap
<1>6. ASSUME NEW t \in Threads, Spawn(t) PROVE TypeOK' /\ Busy'
  <2>1. client[t] \in Clients /\ pc[t] # "idle"
    BY <1>6 DEF Spawn, Busy
  <2>2. /\ started' \in [Clients -> BOOLEAN]
        /\ automatic' \in [Clients -> Nat]
        /\ task' \in [Clients -> {"none", "spawned", "flushing", "done"}]
        /\ used' \subseteq Clients
    <3>1. CASE /\ started' = started /\ automatic' = [automatic EXCEPT ![client[t]] = @ + 1]
               /\ task' = IF up THEN [task EXCEPT ![client[t]] = "spawned"] ELSE task
               /\ used' = used \cup {client[t]}
      <4>1. automatic' \in [Clients -> Nat]
        BY <2>1, <3>1 DEF TypeOK
      <4> QED
        BY <2>1, <3>1, <4>1 DEF TypeOK
    <3>2. CASE reset(client[t]) /\ UNCHANGED <<automatic, task, used>>
      BY <2>1, <3>2 DEF reset, TypeOK
    <3> QED
      BY <1>6, <3>1, <3>2 DEF Spawn
  <2> QED
    BY <1>6, <2>1, <2>2, FinishType DEF Spawn, TypeOK
<1>7. ASSUME NEW t \in Threads, Load(t) PROVE TypeOK' /\ Busy'
  <2>1. client[t] \in Clients /\ pc[t] # "idle"
    BY <1>7 DEF Load, Busy
  <2> QED
    BY <1>7, <2>1, FinishType DEF Load, TypeOK
<1>8. ASSUME NEW c \in Clients, TaskStep(c) PROVE TypeOK' /\ Busy'
  BY <1>8 DEF TaskStep, TaskFlush, TaskLoad, threadVars, TypeOK, Busy
<1>9. CASE ShutDown
  BY <1>9 DEF ShutDown, threadVars, TypeOK, Busy
<1>10. CASE UNCHANGED vars
  BY <1>10 DEF vars, TypeOK, Busy
<1> QED
  BY <1>1, <1>2, <1>3, <1>4, <1>5, <1>6, <1>7, <1>8, <1>9, <1>10 DEF Next, ThreadStep

-----------------------------------------------------------------------------
(* The flag.                                                               *)

(* A step that sends no thread to "spawn", clears no flag and spawns       *)
(* nothing.                                                                *)
LEMMA FlagKept ==
    ASSUME TypeOK, Busy, FlagInv,
           \A t \in Threads : pc'[t] = "spawn" => pc[t] = "spawn" /\ client'[t] = client[t],
           \A c \in Clients : started[c] => started'[c],
           automatic' = automatic
    PROVE  FlagInv'
BY DEF FlagInv, Busy

LEMMA FlagStep == TypeOK /\ Busy /\ FlagInv /\ [Next]_vars => FlagInv'
<1> SUFFICES ASSUME TypeOK, Busy, FlagInv, [Next]_vars PROVE FlagInv'
  OBVIOUS
<1>1. ASSUME NEW t \in Threads, NEW c \in Clients,
             Construct(t, c) \/ Request(t, c) \/ StartFlush(t, c)
      PROVE  FlagInv'
  <2>1. /\ automatic' = automatic
        /\ \A d \in Clients : started[d] => started'[d]
        /\ \A u \in Threads : pc'[u] = "spawn" => pc[u] = "spawn" /\ client'[u] = client[u]
    BY <1>1 DEF Construct, Request, StartFlush, Goto, replayVars, TypeOK
  <2> QED
    BY <2>1, FlagKept
<1>2. ASSUME NEW t \in Threads, Lookup(t) \/ Insert(t) \/ Load(t) PROVE FlagInv'
  <2>1. /\ automatic' = automatic /\ started' = started
        /\ \A u \in Threads : pc'[u] = "spawn" => pc[u] = "spawn" /\ client'[u] = client[u]
    BY <1>2 DEF Lookup, Insert, Load, Finish, Goto, replayVars, TypeOK
  <2> QED
    BY <2>1, FlagKept
<1>3. ASSUME NEW t \in Threads, Swap(t) PROVE FlagInv'
  <2>1. client[t] \in Clients
    BY <1>3 DEF Swap, Busy
  <2>2. CASE client[t] \notin Journaled \/ started[client[t]]
    <3>1. /\ automatic' = automatic /\ started' = started
          /\ \A u \in Threads : pc'[u] = "spawn" => pc[u] = "spawn" /\ client'[u] = client[u]
      BY <1>3, <2>2 DEF Swap, Finish, Goto, TypeOK
    <3> QED
      BY <3>1, FlagKept
  <2>3. CASE ~(client[t] \notin Journaled \/ started[client[t]])
    <3>1. /\ pc' = [pc EXCEPT ![t] = "spawn"] /\ client' = client
          /\ started' = [started EXCEPT ![client[t]] = TRUE] /\ automatic' = automatic
      BY <1>3, <2>3 DEF Swap, Goto
    <3>2. automatic[client[t]] = 0
      BY <2>1, <2>3 DEF FlagInv
    <3>3. \A u \in Threads : pc[u] = "spawn" => client[u] # client[t]
      BY <2>3 DEF FlagInv
    <3>4. \A u \in Threads : pc'[u] = IF u = t THEN "spawn" ELSE pc[u]
      BY <3>1 DEF TypeOK
    <3>5. \A c \in Clients : started'[c] = (c = client[t] \/ started[c])
      BY <2>1, <3>1 DEF TypeOK
    <3>6. ASSUME NEW u \in Threads, pc'[u] = "spawn"
          PROVE  /\ started'[client'[u]] /\ automatic'[client'[u]] = 0
                 /\ \A w \in Threads : pc'[w] = "spawn" /\ client'[w] = client'[u] => w = u
      <4>1. CASE u = t
        BY <2>1, <3>1, <3>2, <3>3, <3>4, <3>5, <4>1
      <4>2. CASE u # t
        <5>1. /\ pc[u] = "spawn" /\ client[u] \in Clients /\ client[u] # client[t]
              /\ started[client[u]] /\ automatic[client[u]] = 0
          BY <3>3, <3>4, <3>6, <4>2 DEF FlagInv, Busy
        <5>2. \A w \in Threads : pc'[w] = "spawn" /\ client[w] = client[u] => w = u
          BY <3>4, <5>1 DEF FlagInv
        <5> QED
          BY <3>1, <3>5, <5>1, <5>2
      <4> QED
        BY <4>1, <4>2
    <3>7. \A c \in Clients : automatic'[c] \in {0, 1} /\ (automatic'[c] = 1 => started'[c])
      BY <3>1, <3>5 DEF FlagInv
    <3> QED
      BY <3>6, <3>7 DEF FlagInv
  <2> QED
    BY <2>2, <2>3
<1>4. ASSUME NEW t \in Threads, Spawn(t) PROVE FlagInv'
  <2>1. client[t] \in Clients /\ pc[t] = "spawn"
    BY <1>4 DEF Spawn, Busy
  <2>2. /\ automatic[client[t]] = 0 /\ started[client[t]]
        /\ \A u \in Threads : pc[u] = "spawn" /\ client[u] = client[t] => u = t
    BY <2>1 DEF FlagInv
  <2>3. /\ \A u \in Threads : u # t => pc'[u] = pc[u] /\ client'[u] = client[u]
        /\ pc'[t] = "idle"
    BY <1>4 DEF Spawn, Finish, Goto, TypeOK
  <2>4. \A c \in Clients : c # client[t] => started'[c] = started[c] /\ automatic'[c] = automatic[c]
    BY <1>4, <2>1 DEF Spawn, reset, TypeOK
  <2>5. \/ automatic'[client[t]] = 1 /\ started'[client[t]]
        \/ automatic'[client[t]] = 0
    BY <1>4, <2>1, <2>2 DEF Spawn, TypeOK
  <2>6. ASSUME NEW u \in Threads, pc'[u] = "spawn"
        PROVE  /\ started'[client'[u]] /\ automatic'[client'[u]] = 0
               /\ \A w \in Threads : pc'[w] = "spawn" /\ client'[w] = client'[u] => w = u
    <3>1. u # t /\ pc[u] = "spawn" /\ client'[u] = client[u]
      BY <2>3, <2>6
    <3>2. client[u] \in Clients /\ client[u] # client[t]
      BY <2>2, <3>1 DEF Busy
    <3>3. started'[client'[u]] /\ automatic'[client'[u]] = 0
      BY <2>4, <3>1, <3>2 DEF FlagInv
    <3>4. \A w \in Threads : pc'[w] = "spawn" /\ client'[w] = client'[u] => w = u
      BY <2>3, <3>1 DEF FlagInv
    <3> QED
      BY <3>3, <3>4
  <2>7. \A c \in Clients : automatic'[c] \in {0, 1} /\ (automatic'[c] = 1 => started'[c])
    BY <2>4, <2>5 DEF FlagInv
  <2> QED
    BY <2>6, <2>7 DEF FlagInv
<1>5. ASSUME NEW c \in Clients, TaskStep(c) PROVE FlagInv'
  <2>1. /\ automatic' = automatic /\ pc' = pc /\ client' = client
        /\ \A d \in Clients : started[d] => started'[d]
    BY <1>5 DEF TaskStep, TaskFlush, TaskLoad, threadVars, TypeOK
  <2> QED
    BY <2>1, FlagKept
<1>6. CASE ShutDown \/ UNCHANGED vars
  BY <1>6, FlagKept DEF ShutDown, threadVars, vars
<1> QED
  BY <1>1, <1>2, <1>3, <1>4, <1>5, <1>6 DEF Next, ThreadStep

-----------------------------------------------------------------------------
(* The cache.                                                              *)

LEMMA SameKey ==
    ASSUME NEW c \in Clients, NEW d \in Clients
    PROVE  /\ cache_key(c) = cache_key(d) <=> Fingerprint(c) = Fingerprint(d)
           /\ cache_key(c) = cache_key(d)
                 <=> base_url[c] = base_url[d] /\ principal(c) = principal(d)
<1>1. cache_key(c) = cache_key(d)
         <=> base_url[c] = base_url[d] /\ principal(c) = principal(d)
  BY DEF cache_key
<1>2. Fingerprint(c).digest = cache_key(c) /\ Fingerprint(d).digest = cache_key(d)
  BY DEF Fingerprint, cache_key
<1>3. cache_key(c) = cache_key(d) => Fingerprint(c) = Fingerprint(d)
  BY DEF Fingerprint, cache_key
<1> QED
  BY <1>1, <1>2, <1>3

LEMMA CacheStep ==
    TypeOK /\ Busy /\ CacheInv /\ BoundInv /\ [Next]_vars => CacheInv' /\ BoundInv'
<1> SUFFICES ASSUME TypeOK, Busy, CacheInv, BoundInv, [Next]_vars PROVE CacheInv' /\ BoundInv'
  OBVIOUS
<1>1. ASSUME NEW t \in Threads, Lookup(t) PROVE CacheInv' /\ BoundInv'
  <2>1. client[t] \in Clients /\ cache' = cache
    BY <1>1 DEF Lookup, Busy
  <2>2. \A c \in Clients : directory'[c] \in {directory[c], Fingerprint(c)}
    BY <1>1, <2>1 DEF Lookup, CacheInv, TypeOK
  <2> QED
    BY <2>1, <2>2 DEF CacheInv, BoundInv, CacheIsBounded
<1>2. ASSUME NEW t \in Threads, Insert(t) PROVE CacheInv' /\ BoundInv'
  <2> DEFINE k == cache_key(client[t])
  <2>1. client[t] \in Clients
    BY <1>2 DEF Insert, Busy
  <2>2. /\ DOMAIN cache' = cleared_when_full \cup {k}
        /\ \A x \in DOMAIN cache' : cache'[x] = IF x = k THEN Fingerprint(client[t]) ELSE cache[x]
    BY <1>2 DEF Insert
  <2>3. cleared_when_full \subseteq DOMAIN cache
    BY DEF cleared_when_full
  <2>4. \A c \in Clients : directory'[c] \in {directory[c], Fingerprint(c)}
    BY <1>2, <2>1 DEF Insert, TypeOK
  <2>5. \A c \in Clients : cache_key(c) \in DOMAIN cache' =>
            cache'[cache_key(c)] = Fingerprint(c)
    BY <2>1, <2>2, <2>3, SameKey DEF CacheInv
  <2>6. CacheInv'
    BY <2>4, <2>5 DEF CacheInv
  <2>7. /\ IsFiniteSet(cleared_when_full) /\ Cardinality(cleared_when_full) \in Nat
        /\ Cardinality(cleared_when_full) + 1 <= CacheLimit
    <3>1. IsFiniteSet({}) /\ Cardinality({}) = 0 /\ CacheLimit \in Nat /\ CacheLimit >= 1
      BY FS_EmptySet, LimitAssumption
    <3>2. IsFiniteSet(DOMAIN cache) /\ Cardinality(DOMAIN cache) \in Nat
      BY FS_CardinalityType DEF BoundInv
    <3> QED
      BY <3>1, <3>2 DEF cleared_when_full
  <2>8. /\ IsFiniteSet(cleared_when_full \cup {k})
        /\ Cardinality(cleared_when_full \cup {k}) <= Cardinality(cleared_when_full) + 1
    BY <2>7, FS_AddElement
  <2>9. Cardinality(cleared_when_full \cup {k}) \in Nat
    BY <2>8, FS_CardinalityType
  <2> QED
    BY <2>2, <2>6, <2>7, <2>8, <2>9, LimitAssumption DEF BoundInv, CacheIsBounded
<1>3. CASE cache' = cache /\ directory' = directory
  BY <1>3 DEF CacheInv, BoundInv, CacheIsBounded
<1> QED
  BY <1>1, <1>2, <1>3 DEF Next, ThreadStep, TaskStep, Construct, Request, StartFlush, Swap,
     Spawn, Load, TaskFlush, TaskLoad, ShutDown, vars

-----------------------------------------------------------------------------
StartInv == TypeOK /\ Busy /\ FlagInv /\ CacheInv /\ BoundInv

LEMMA InitStart == Init => StartInv
<1> SUFFICES ASSUME Init PROVE StartInv
  OBVIOUS
<1>1. DOMAIN cache = {}
  BY DEF Init
<1>2. BoundInv
  BY <1>1, FS_EmptySet, LimitAssumption DEF BoundInv, CacheIsBounded
<1>3. FlagInv /\ CacheInv
  BY <1>1 DEF Init, FlagInv, CacheInv
<1> QED
  BY <1>2, <1>3, InitType DEF StartInv

THEOREM StartInvariant == Spec => []StartInv
<1>1. StartInv /\ [Next]_vars => StartInv'
  BY TypeStep, FlagStep, CacheStep DEF StartInv
<1> QED
  BY <1>1, InitStart, PTL DEF Spec

(* The variables keep their types.                                         *)
THEOREM TypeCorrect == Spec => []TypeOK
<1>1. StartInv => TypeOK
  BY DEF StartInv
<1> QED
  BY <1>1, StartInvariant, PTL

(* At most one automatic replay per client (start_journal_replay: swap).   *)
THEOREM ReplayStartsOnce == Spec => []AutomaticOnce
<1>1. StartInv => AutomaticOnce
  BY DEF StartInv, FlagInv, AutomaticOnce
<1> QED
  BY <1>1, StartInvariant, PTL

(* What the fingerprint is made of tells exactly whom a client acts for    *)
(* (auth_fingerprint: the tenant unless it is white space, or the key).    *)
LEMMA PrincipalIsRight ==
    \A c, d \in Clients : principal(c) = principal(d) <=> SamePrincipal(c, d)
BY DEF principal, SamePrincipal, HasTenant

(* A journal directory belongs to a server and a principal, whatever the   *)
(* cache forgets (auth_fingerprint).                                       *)
THEOREM DirectoriesFollowPrincipals == Spec => []SharedByPrincipal
<1>1. StartInv => SharedByPrincipal
  BY SameKey, PrincipalIsRight DEF StartInv, CacheInv, SharedByPrincipal
<1> QED
  BY <1>1, StartInvariant, PTL

(* The cache never has more entries than its limit (auth_fingerprint:      *)
(* values.len() >= 256).                                                   *)
THEOREM CacheKeepsItsBound == Spec => []CacheIsBounded
<1>1. StartInv => CacheIsBounded
  BY DEF StartInv, BoundInv
<1> QED
  BY <1>1, StartInvariant, PTL
=============================================================================
