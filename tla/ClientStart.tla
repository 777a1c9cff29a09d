---------------------------- MODULE ClientStart ----------------------------
(***************************************************************************)
(* How a client comes to its journal directory and to its first replay.    *)
(*                                                                         *)
(* Constructing a client looks up, or computes, the fingerprint of its     *)
(* server and principal in a cache all threads share, and starts the       *)
(* replay of the journal; every request starts it too.  One flag per       *)
(* client sees to it that the replay starts once, inside a Tokio runtime.  *)
(*                                                                         *)
(* Threads run start_journal_replay, auth_fingerprint and a flush a step   *)
(* at a time: an atomic access to the flag, or what the cache's lock       *)
(* covers.  A thread outside the runtime may only construct clients: what  *)
(* sends a request needs the runtime's reactor.                            *)
(***************************************************************************)
EXTENDS Naturals, FiniteSets

CONSTANTS
    Threads,
    Inside,      \* the threads that run inside the runtime
    Clients,
    base_url,    \* the configuration of each client
    api_key,
    tenant,
    Unset,       \* no tenant
    Blank,       \* a tenant of white space
    Journaled,   \* the clients with a journal: enabled, and a place for it
    NoClient,
    CacheLimit   \* 256 in the code

ASSUME ThreadAssumption == Inside \subseteq Threads /\ Journaled \subseteq Clients
ASSUME ClientAssumption == NoClient \notin Clients
ASSUME LimitAssumption == CacheLimit \in Nat \ {0}

VARIABLES
    pc,         \* per thread: what it does next
    client,     \* per thread: the client it does it for
    cache,      \* the fingerprints by cache key
    directory,  \* per client: the fingerprint its directory is named after
    made,       \* the clients from_builder has returned
    started,    \* per client: journal_replay_started
    automatic,  \* per client: how many automatic replays have been spawned
    task,       \* per client: the automatic replay
    used,       \* history: the clients that were started inside the runtime
    loaded,     \* history: the clients whose journal a flush has read
    up          \* the runtime is there

threadVars == <<pc, client>>
replayVars == <<started, automatic, task, used, loaded>>
vars == <<pc, client, cache, directory, made, started, automatic, task, used, loaded, up>>

(* A tenant of white space counts as none.                                 *)
principal(c) ==
    IF tenant[c] \in {Unset, Blank} THEN <<"key", api_key[c]>> ELSE <<"tenant", tenant[c]>>

(* Mutant: the cache key leaves the server out.                            *)
principal_only(c) == <<principal(c)>>

cache_key(c) == <<base_url[c], principal(c)>>

Keys == {cache_key(c) : c \in Clients}

(* PBKDF2 of the principal, salted with the server; two do not collide.    *)
Fingerprint(c) == [digest |-> <<base_url[c], principal(c)>>]
Fingerprints == {Fingerprint(c) : c \in Clients}
NoDirectory == [digest |-> <<>>]

TypeOK ==
    /\ pc \in [Threads -> {"idle", "lookup", "insert", "swap", "spawn", "flush", "load"}]
    /\ client \in [Threads -> Clients \cup {NoClient}]
    /\ DOMAIN cache \subseteq Keys
    /\ \A k \in DOMAIN cache : cache[k] \in Fingerprints
    /\ directory \in [Clients -> Fingerprints \cup {NoDirectory}]
    /\ made \subseteq Clients /\ used \subseteq Clients /\ loaded \subseteq Clients
    /\ started \in [Clients -> BOOLEAN]
    /\ automatic \in [Clients -> Nat]
    /\ task \in [Clients -> {"none", "spawned", "flushing", "done"}]
    /\ up \in BOOLEAN

Init ==
    /\ pc = [t \in Threads |-> "idle"]
    /\ client = [t \in Threads |-> NoClient]
    /\ cache = [k \in {} |-> NoDirectory]
    /\ directory = [c \in Clients |-> NoDirectory]
    /\ made = {}
    /\ started = [c \in Clients |-> FALSE]
    /\ automatic = [c \in Clients |-> 0]
    /\ task = [c \in Clients |-> "none"]
    /\ used = {}
    /\ loaded = {}
    /\ up = TRUE

-----------------------------------------------------------------------------
Goto(t, label) == pc' = [pc EXCEPT ![t] = label]

(* The thread has a client it may use, and share, from now on.             *)
Finish(t) ==
    /\ Goto(t, "idle")
    /\ client' = [client EXCEPT ![t] = NoClient]
    /\ made' = made \cup {client[t]}

Runs(t) == t \in Inside => up

(* from_builder, for_config: the directory comes first, then the replay.   *)
Construct(t, c) ==
    /\ pc[t] = "idle" /\ Runs(t)
    /\ c \notin made /\ \A other \in Threads : client[other] # c
    /\ client' = [client EXCEPT ![t] = c]
    /\ Goto(t, IF c \in Journaled THEN "lookup" ELSE "swap")
    /\ UNCHANGED <<cache, directory, made, replayVars, up>>

(* auth_fingerprint: the cache is locked for the lookup, and again for the *)
(* insertion; not while the fingerprint is computed.                       *)
Lookup(t) ==
    /\ pc[t] = "lookup"
    /\ LET k == cache_key(client[t]) IN
          IF k \in DOMAIN cache
          THEN directory' = [directory EXCEPT ![client[t]] = cache[k]] /\ Goto(t, "swap")
          ELSE directory' = directory /\ Goto(t, "insert")
    /\ UNCHANGED <<client, cache, made, replayVars, up>>

cleared_when_full == IF Cardinality(DOMAIN cache) >= CacheLimit THEN {} ELSE DOMAIN cache

Insert(t) ==
    /\ pc[t] = "insert"
    /\ LET c == client[t]
       IN /\ cache' = [k \in cleared_when_full \cup {cache_key(c)} |->
                          IF k = cache_key(c) THEN Fingerprint(c) ELSE cache[k]]
          /\ directory' = [directory EXCEPT ![c] = Fingerprint(c)]
    /\ Goto(t, "swap")
    /\ UNCHANGED <<client, made, replayVars, up>>

(* A request of a constructed client starts the replay first.              *)
Request(t, c) ==
    /\ pc[t] = "idle" /\ t \in Inside /\ up
    /\ c \in made
    /\ client' = [client EXCEPT ![t] = c]
    /\ Goto(t, "swap")
    /\ UNCHANGED <<cache, directory, made, replayVars, up>>

(* Mutant: the flag is tested, and set only by who spawns the replay.      *)
TestOnly(t) ==
    /\ pc[t] = "swap"
    /\ IF client[t] \notin Journaled \/ started[client[t]]
       THEN Finish(t) /\ used' = IF t \in Inside THEN used \cup {client[t]} ELSE used
       ELSE Goto(t, "spawn") /\ UNCHANGED <<client, made, used>>
    /\ UNCHANGED <<cache, directory, started, automatic, task, loaded, up>>

(* start_journal_replay: who swaps the flag from false to true goes on.    *)
Swap(t) ==
    /\ pc[t] = "swap"
    /\ LET c == client[t]
       IN IF c \notin Journaled \/ started[c]
          THEN /\ Finish(t)
               /\ used' = IF t \in Inside THEN used \cup {c} ELSE used
               /\ started' = started
          ELSE /\ Goto(t, "spawn")
               /\ started' = [started EXCEPT ![c] = TRUE]
               /\ UNCHANGED <<client, made, used>>
    /\ UNCHANGED <<cache, directory, automatic, task, loaded, up>>

(* Mutant: the flag stays set although there is no runtime.                *)
no_reset(c) == started' = started

reset(c) == started' = [started EXCEPT ![c] = FALSE]

(* Without a runtime the flag is cleared, for a later request; with one    *)
(* the replay is spawned.                                                  *)
Spawn(t) ==
    /\ pc[t] = "spawn"
    /\ LET c == client[t]
       IN \/ /\ t \in Inside
             /\ started' = started
             /\ automatic' = [automatic EXCEPT ![c] = @ + 1]
             /\ task' = IF up THEN [task EXCEPT ![c] = "spawned"] ELSE task
             /\ used' = used \cup {c}
          \/ t \notin Inside /\ reset(c) /\ UNCHANGED <<automatic, task, used>>
    /\ Finish(t)
    /\ UNCHANGED <<cache, directory, loaded, up>>

(* flush_pending_commits, called by the application: the flag is set       *)
(* without a look at it, then the journal is read.                         *)
StartFlush(t, c) ==
    /\ pc[t] = "idle" /\ t \in Inside /\ up
    /\ c \in made
    /\ client' = [client EXCEPT ![t] = c]
    /\ started' = [started EXCEPT ![c] = TRUE]
    /\ Goto(t, "load")
    /\ UNCHANGED <<cache, directory, made, automatic, task, used, loaded, up>>

Load(t) ==
    /\ pc[t] = "load"
    /\ loaded' = loaded \cup ({client[t]} \cap Journaled)
    /\ Finish(t)
    /\ UNCHANGED <<cache, directory, started, automatic, task, used, up>>

(* The same flush, as the spawned task.                                    *)
TaskFlush(c) ==
    /\ task[c] = "spawned" /\ up
    /\ task' = [task EXCEPT ![c] = "flushing"]
    /\ started' = [started EXCEPT ![c] = TRUE]
    /\ UNCHANGED <<threadVars, cache, directory, made, automatic, used, loaded, up>>

TaskLoad(c) ==
    /\ task[c] = "flushing" /\ up
    /\ task' = [task EXCEPT ![c] = "done"]
    /\ loaded' = loaded \cup {c}
    /\ UNCHANGED <<threadVars, cache, directory, made, started, automatic, used, up>>

(* The runtime goes, as when a blocking client is dropped: its tasks are   *)
(* dropped with it, and the threads inside return from what they wait for. *)
ShutDown ==
    /\ up
    /\ up' = FALSE
    /\ task' = [c \in Clients |-> IF task[c] = "done" THEN "done" ELSE "none"]
    /\ UNCHANGED <<threadVars, cache, directory, made, started, automatic, used, loaded>>

ThreadStep(t) == Lookup(t) \/ Insert(t) \/ Swap(t) \/ Spawn(t) \/ Load(t)
TaskStep(c) == TaskFlush(c) \/ TaskLoad(c)

Next ==
    \/ \E t \in Threads :
          \/ ThreadStep(t)
          \/ \E c \in Clients : Construct(t, c) \/ Request(t, c) \/ StartFlush(t, c)
    \/ \E c \in Clients : TaskStep(c)
    \/ ShutDown

(* The operating system runs every thread, the runtime polls every task.   *)
Spec ==
    /\ Init /\ [][Next]_vars
    /\ \A t \in Threads : WF_vars(ThreadStep(t))
    /\ \A c \in Clients : WF_vars(TaskStep(c))

-----------------------------------------------------------------------------
(* The journal is replayed automatically at most once per client, however  *)
(* many threads construct, request and flush at the same time (client.rs,  *)
(* flush_pending_commits: starts this once automatically).                 *)
AutomaticOnce == \A c \in Clients : automatic[c] <= 1

(* Who a client acts for: a tenant, whichever API keys it has had, or else *)
(* whoever holds the key (README, durable commit recovery: a configured    *)
(* tenant is the principal).                                               *)
HasTenant(c) == tenant[c] \notin {Unset, Blank}

SamePrincipal(c, d) ==
    IF HasTenant(c) \/ HasTenant(d) THEN tenant[c] = tenant[d]
    ELSE api_key[c] = api_key[d]

(* Two clients share a journal directory exactly if they have the same     *)
(* server and act for the same principal, whatever other threads put in    *)
(* the cache or clear from it meanwhile (journal.rs, auth_fingerprint).    *)
SharedByPrincipal ==
    \A c, d \in Clients :
       directory[c] # NoDirectory /\ directory[d] # NoDirectory =>
           (directory[c] = directory[d] <=> base_url[c] = base_url[d] /\ SamePrincipal(c, d))

(* The cache, which every construction may extend, keeps its bound,        *)
(* although it is unlocked while a fingerprint is computed.                *)
CacheIsBounded == Cardinality(DOMAIN cache) <= CacheLimit

(* No start is lost: once a client with a journal was constructed, or sent *)
(* a request, inside a runtime, its journal is read, or the runtime goes;  *)
(* a construction outside the runtime must leave the flag to the first     *)
(* request inside (client.rs, start_journal_replay).                       *)
StartLeadsToReplay == \A c \in Journaled : c \in used ~> c \in loaded \/ ~up
=============================================================================
