---------------------------- MODULE Idempotency ----------------------------
(***************************************************************************)
(* IdempotencyInterceptor (idempotency.interceptor.ts) over                *)
(* IdempotencyService (idempotency.service.ts), around the handlers of     *)
(* POST upload and POST complete-upload. Per request id Redis holds a      *)
(* response, for 24 hours, and a processing lock, for 5 minutes. The lock  *)
(* carries no owner: whoever releases it deletes whatever is there.        *)
(*                                                                         *)
(* One step per Redis command and one for the outcome of the handler. The  *)
(* tap callback is not awaited: the client has its response before it is   *)
(* cached. A client may send a request again under the same id.            *)
(***************************************************************************)
EXTENDS Naturals, FiniteSets

CONSTANTS
    Calls,      \* HTTP requests, each with the repetitions its client sends
    Ids,        \* values of the x-request-id header
    Hosts,      \* API processes
    Nil,
    MaxErrors,  \* bound: Redis errors and handlers that throw
    MaxCrashes  \* bound: crashes

ASSUME IdempotencyAssumption ==
    /\ Nil \notin Ids
    /\ MaxErrors \in Nat
    /\ MaxCrashes \in Nat

VARIABLES
    call,     \* per call: the next command, its id, the process serving it
    lock,     \* processing:<id> exists
    cached,   \* idempotency:<id> exists
    done,     \* history, per id: the calls whose handler returned since the
              \* last response expired
    mishaps,  \* history, per id: see Mishaps
    errors,
    crashes

vars == <<call, lock, cached, done, mishaps, errors, crashes>>

Holding == {"handle", "cache", "release"}
InFlight == {"get", "lock"} \cup Holding
Retriable == {"refused", "failed", "cut"}
CallPcs == InFlight \cup Retriable \cup {"end", "replayed"}

\* slow: a lock expired before its handler was through;
\* resent: a DEL whose reply was lost is sent again when Redis is back;
\* unsaved: a response was not cached.
Mishaps == {"slow", "resent", "unsaved"}

NewCall == [pc |-> "new", id |-> Nil, host |-> Nil]
CallRecords == {NewCall} \cup [pc : CallPcs, id : Ids, host : Hosts]

TypeOK ==
    /\ call \in [Calls -> CallRecords]
    /\ lock \in [Ids -> BOOLEAN]
    /\ cached \in [Ids -> BOOLEAN]
    /\ done \in [Ids -> SUBSET Calls]
    /\ mishaps \in [Ids -> SUBSET Mishaps]
    /\ errors \in Nat
    /\ crashes \in Nat

Init ==
    /\ call = [c \in Calls |-> NewCall]
    /\ lock = [k \in Ids |-> FALSE]
    /\ cached = [k \in Ids |-> FALSE]
    /\ done = [k \in Ids |-> {}]
    /\ mishaps = [k \in Ids |-> {}]
    /\ errors = 0
    /\ crashes = 0

At(c, pc) == call[c].pc = pc
Id(c) == call[c].id
Goto(c, pc) == call' = [call EXCEPT ![c].pc = pc]

\* The calls that were granted the lock of k and have not released it.
Holders(k) == {c \in Calls : Id(c) = k /\ call[c].pc \in Holding}

Error ==
    /\ errors < MaxErrors
    /\ errors' = errors + 1

-----------------------------------------------------------------------------
Arrive(c, p, k) ==
    /\ At(c, "new")
    /\ call' = [call EXCEPT ![c] = [pc |-> "get", id |-> k, host |-> p]]
    /\ UNCHANGED <<lock, cached, done, mishaps, errors, crashes>>

\* The client tries again after a 409, an error or a lost connection.
Retry(c, p) ==
    /\ call[c].pc \in Retriable
    /\ call' = [call EXCEPT ![c].pc = "get", ![c].host = p]
    /\ UNCHANGED <<lock, cached, done, mishaps, errors, crashes>>

GetCached(c) ==
    /\ At(c, "get")
    /\ Goto(c, IF cached[Id(c)] THEN "replayed" ELSE "lock")
    /\ UNCHANGED <<lock, cached, done, mishaps, errors, crashes>>

\* An error counts as a miss.
GetFails(c) ==
    /\ At(c, "get")
    /\ Error
    /\ Goto(c, "lock")
    /\ UNCHANGED <<lock, cached, done, mishaps, crashes>>

\* Mutant: SET without NX.
AcquireOverwrites(c) ==
    /\ At(c, "lock")
    /\ lock' = [lock EXCEPT ![Id(c)] = TRUE]
    /\ Goto(c, "handle")
    /\ UNCHANGED <<cached, done, mishaps, errors, crashes>>

\* SET NX. The cache is not read again.
Acquire(c) ==
    /\ At(c, "lock")
    /\ lock' = [lock EXCEPT ![Id(c)] = TRUE]
    /\ Goto(c, IF lock[Id(c)] THEN "refused" ELSE "handle")
    /\ UNCHANGED <<cached, done, mishaps, errors, crashes>>

\* The SET fails, or its reply is lost and the repeated SET finds the lock.
AcquireFails(c) ==
    /\ At(c, "lock")
    /\ Error
    /\ \/ lock' = lock
       \/ lock' = [lock EXCEPT ![Id(c)] = TRUE]
    /\ Goto(c, "refused")
    /\ UNCHANGED <<cached, done, mishaps, crashes>>

\* Mutant: the lock is released before the response is cached.
HandlerReturnsUnlocks(c) ==
    /\ At(c, "handle")
    /\ done' = [done EXCEPT ![Id(c)] = @ \cup {c}]
    /\ lock' = [lock EXCEPT ![Id(c)] = FALSE]
    /\ Goto(c, "cache")
    /\ UNCHANGED <<cached, mishaps, errors, crashes>>

HandlerReturns(c) ==
    /\ At(c, "handle")
    /\ done' = [done EXCEPT ![Id(c)] = @ \cup {c}]
    /\ Goto(c, "cache")
    /\ UNCHANGED <<lock, cached, mishaps, errors, crashes>>

\* tap sees values only: nothing releases the lock of a handler that throws.
HandlerThrows(c) ==
    /\ At(c, "handle")
    /\ Error
    /\ Goto(c, "failed")
    /\ UNCHANGED <<lock, cached, done, mishaps, crashes>>

CacheResponse(c) ==
    /\ At(c, "cache")
    /\ cached' = [cached EXCEPT ![Id(c)] = TRUE]
    /\ Goto(c, "release")
    /\ UNCHANGED <<lock, done, mishaps, errors, crashes>>

CacheFails(c) ==
    /\ At(c, "cache")
    /\ Error
    /\ mishaps' = [mishaps EXCEPT ![Id(c)] = @ \cup {"unsaved"}]
    /\ Goto(c, "release")
    /\ UNCHANGED <<lock, cached, done, crashes>>

Release(c) ==
    /\ At(c, "release")
    /\ lock' = [lock EXCEPT ![Id(c)] = FALSE]
    /\ Goto(c, "end")
    /\ UNCHANGED <<cached, done, mishaps, errors, crashes>>

\* The DEL is done but its reply is lost: ioredis will send it again.
ReleaseResent(c) ==
    /\ At(c, "release")
    /\ Error
    /\ lock' = [lock EXCEPT ![Id(c)] = FALSE]
    /\ mishaps' = [mishaps EXCEPT ![Id(c)] = @ \cup {"resent"}]
    /\ UNCHANGED <<call, cached, done, crashes>>

ReleaseFails(c) ==
    /\ At(c, "release")
    /\ Error
    /\ Goto(c, "end")
    /\ UNCHANGED <<lock, cached, done, mishaps, crashes>>

CallStep(c) ==
    \/ GetCached(c) \/ GetFails(c) \/ Acquire(c) \/ AcquireFails(c)
    \/ HandlerReturns(c) \/ HandlerThrows(c)
    \/ CacheResponse(c) \/ CacheFails(c)
    \/ Release(c) \/ ReleaseResent(c) \/ ReleaseFails(c)

-----------------------------------------------------------------------------
\* Mutant: SET without EX.
ExpireLockNever(k) == FALSE /\ UNCHANGED vars

\* EX 300, whether or not the handler is through.
ExpireLock(k) ==
    /\ lock[k]
    /\ lock' = [lock EXCEPT ![k] = FALSE]
    /\ mishaps' = [mishaps EXCEPT
           ![k] = @ \cup IF Holders(k) # {} THEN {"slow"} ELSE {}]
    /\ UNCHANGED <<call, cached, done, errors, crashes>>

\* 24 hours later; no call is served for that long.
ExpireCache(k) ==
    /\ cached[k]
    /\ \A c \in Calls : ~(Id(c) = k /\ call[c].pc \in InFlight)
    /\ cached' = [cached EXCEPT ![k] = FALSE]
    /\ done' = [done EXCEPT ![k] = {}]
    /\ UNCHANGED <<call, lock, mishaps, errors, crashes>>

\* Process p dies (and is restarted). Redis keeps its lock.
Crash(p) ==
    /\ crashes < MaxCrashes
    /\ crashes' = crashes + 1
    /\ call' = [c \in Calls |->
           IF call[c].host = p /\ call[c].pc \in InFlight
           THEN [call[c] EXCEPT !.pc = IF call[c].pc \in {"cache", "release"}
                                       THEN "end" ELSE "cut"]
           ELSE call[c]]
    /\ mishaps' = [k \in Ids |->
           mishaps[k] \cup
               IF \E c \in Calls :
                      Id(c) = k /\ call[c].host = p /\ call[c].pc = "cache"
               THEN {"unsaved"} ELSE {}]
    /\ UNCHANGED <<lock, cached, done, errors>>

Next ==
    \/ \E c \in Calls, p \in Hosts, k \in Ids : Arrive(c, p, k)
    \/ \E c \in Calls, p \in Hosts : Retry(c, p)
    \/ \E c \in Calls : CallStep(c)
    \/ \E k \in Ids : ExpireLock(k) \/ ExpireCache(k)
    \/ \E p \in Hosts : Crash(p)

Spec == Init /\ [][Next]_vars

\* Node resumes an await once it is settled, the handler ends, Redis drops a
\* key whose time has come. Client is what RetriedIsAnswered is about: one that
\* keeps trying.
Fairness ==
    /\ \A c \in Calls : WF_vars(CallStep(c))
    /\ \A k \in Ids : WF_vars(ExpireLock(k))

Client == \A c \in Calls : WF_vars(\E p \in Hosts : Retry(c, p))

FairSpec == Spec /\ Fairness /\ Client

-----------------------------------------------------------------------------
(* Properties.                                                               *)

\* At most one handler runs for a request id at a time, on all processes
\* together, although nothing says whose lock it is that a call releases: unless
\* a handler outlives the lock or a DEL was resent (intercept,
\* acquireProcessingLock).
OneHandler ==
    \A k \in Ids : mishaps[k] \cap {"slow", "resent"} = {} =>
        \A c, d \in Holders(k) : c = d

\* A request that was handled cannot be handled again by a call that arrives
\* afterwards: at every moment the response is cached or the lock still keeps
\* others out, until the response expires.
AnsweredIsRemembered ==
    \A k \in Ids : mishaps[k] = {} /\ done[k] # {} => cached[k] \/ lock[k]

\* idempotency.service.ts:6, "prevent duplicate request processing": a request
\* id is handled once, if nothing goes wrong.
HandledOnce ==
    \A k \in Ids : mishaps[k] = {} => Cardinality(done[k]) <= 1

\* A client that keeps trying under its id is answered in the end, whatever
\* crash, error or thrown exception left the lock behind.
RetriedIsAnswered ==
    \A c \in Calls :
        At(c, "get") ~> call[c].pc \in {"cache", "release", "end", "replayed"}
=============================================================================
