------------------------- MODULE IdempotencyProofs -------------------------
(***************************************************************************)
(* Type correctness, mutual exclusion per request id and the retention of  *)
(* answers, for any number of calls, ids, processes, errors and crashes.   *)
(***************************************************************************)
EXTENDS Idempotency, TLAPS

(***************************************************************************)
(* The inductive invariant. While nothing released a lock under its holder,*)
(* the holder is unique and the lock is set; while no answer was lost, an  *)
(* answer is cached or about to be.                                        *)
(***************************************************************************)
Undisturbed(k) == mishaps[k] \cap {"slow", "resent"} = {}

LockOK ==
    \A k \in Ids : Undisturbed(k) =>
        /\ \A c \in Holders(k) : lock[k]
        /\ \A c, d \in Holders(k) : c = d

Saving(k) == {c \in Calls : Id(c) = k /\ At(c, "cache")}

AnswerOK ==
    \A k \in Ids : mishaps[k] = {} /\ done[k] # {} => cached[k] \/ Saving(k) # {}

Inv == TypeOK /\ LockOK /\ AnswerOK

-----------------------------------------------------------------------------
(* What a step of one call does to the record of that call.                  *)

\* A call that is past its arrival has an id and stays well typed.
LEMMA CallMoves ==
    ASSUME TypeOK, NEW c \in Calls, call[c].pc # "new",
           NEW pc \in CallPcs, Goto(c, pc)
    PROVE  /\ call' \in [Calls -> CallRecords]
           /\ Id(c) \in Ids
           /\ Id(c)' = Id(c)
           /\ call'[c].pc = pc
           /\ \A d \in Calls : d # c => call'[d] = call[d]
<1>1. call[c] \in [pc : CallPcs, id : Ids, host : Hosts]
  BY DEF TypeOK, CallRecords, NewCall
<1>2. call'[c] = [call[c] EXCEPT !.pc = pc]
  BY DEF Goto, TypeOK
<1>3. call'[c] \in [pc : CallPcs, id : Ids, host : Hosts]
  BY <1>1, <1>2
<1>4. \A d \in Calls : d # c => call'[d] = call[d]
  BY DEF Goto, TypeOK
<1>5. call' \in [Calls -> CallRecords]
  BY <1>3 DEF Goto, TypeOK, CallRecords
<1>6. QED
  BY <1>1, <1>2, <1>4, <1>5 DEF Id

LEMMA CallsArrived ==
    ASSUME TypeOK, NEW c \in Calls, call[c].pc \in CallPcs
    PROVE  call[c].pc # "new" /\ Id(c) \in Ids
BY DEF TypeOK, CallRecords, NewCall, CallPcs, InFlight, Holding, Retriable, Id

LEMMA PcNames ==
    /\ InFlight \subseteq CallPcs
    /\ Holding \subseteq InFlight
    /\ Retriable \subseteq CallPcs
    /\ {"get", "lock"} \subseteq InFlight
    /\ {"handle", "cache", "release"} = Holding
    /\ {"refused", "failed", "cut"} = Retriable
    /\ {"end", "replayed"} \subseteq CallPcs
    /\ "new" \notin CallPcs
    /\ (Retriable \cup {"get", "lock", "end", "replayed", "new"}) \cap Holding = {}
BY DEF InFlight, Holding, Retriable, CallPcs

-----------------------------------------------------------------------------
(* Type correctness.                                                         *)

LEMMA CallStepTypes ==
    ASSUME TypeOK, NEW c \in Calls, CallStep(c)
    PROVE  TypeOK'
<1> USE PcNames
<1>1. /\ call[c].pc \in InFlight /\ call[c].pc # "new" /\ Id(c) \in Ids
      /\ call' \in [Calls -> CallRecords]
  <2>1. call[c].pc \in InFlight
    BY DEF CallStep, GetCached, GetFails, Acquire, AcquireFails, HandlerReturns,
           HandlerThrows, CacheResponse, CacheFails, Release, ReleaseResent,
           ReleaseFails, At, InFlight, Holding
  <2>2. call[c].pc # "new" /\ Id(c) \in Ids
    BY <2>1, CallsArrived
  <2>3. \/ call' = call
        \/ \E pc \in CallPcs : Goto(c, pc)
    BY DEF CallStep, GetCached, GetFails, Acquire, AcquireFails, HandlerReturns,
           HandlerThrows, CacheResponse, CacheFails, Release, ReleaseResent,
           ReleaseFails, CallPcs, InFlight, Holding, Retriable
  <2>4. CASE call' = call
    BY <2>1, <2>2, <2>4 DEF TypeOK
  <2>5. CASE \E pc \in CallPcs : Goto(c, pc)
    BY <2>1, <2>2, <2>5, CallMoves
  <2>6. QED
    BY <2>3, <2>4, <2>5
<1>2. lock' \in [Ids -> BOOLEAN] /\ cached' \in [Ids -> BOOLEAN]
  BY <1>1 DEF CallStep, GetCached, GetFails, Acquire, AcquireFails,
     HandlerReturns, HandlerThrows, CacheResponse, CacheFails, Release,
     ReleaseResent, ReleaseFails, TypeOK
<1>3. done' \in [Ids -> SUBSET Calls] /\ mishaps' \in [Ids -> SUBSET Mishaps]
  BY <1>1 DEF CallStep, GetCached, GetFails, Acquire, AcquireFails,
     HandlerReturns, HandlerThrows, CacheResponse, CacheFails, Release,
     ReleaseResent, ReleaseFails, TypeOK, Mishaps
<1>4. errors' \in Nat /\ crashes' \in Nat
  BY DEF CallStep, GetCached, GetFails, Acquire, AcquireFails,
     HandlerReturns, HandlerThrows, CacheResponse, CacheFails, Release,
     ReleaseResent, ReleaseFails, TypeOK, Error
<1>5. QED
  BY <1>1, <1>2, <1>3, <1>4 DEF TypeOK

\* What a crash does to one call.
LEMMA CrashedCall ==
    ASSUME TypeOK, NEW p \in Hosts, Crash(p), NEW c \in Calls
    PROVE  /\ call'[c] \in CallRecords
           /\ Id(c)' = Id(c)
           /\ call'[c].pc \in Holding =>
                  call'[c] = call[c] /\ call[c].pc \in Holding
           /\ At(c, "cache") =>
                  call'[c] = call[c] \/ "unsaved" \in mishaps'[Id(c)]
<1> USE PcNames
<1>1. CASE call[c].host # p \/ call[c].pc \notin InFlight
  <2>1. call'[c] = call[c]
    BY <1>1 DEF Crash
  <2>2. QED
    BY <2>1 DEF TypeOK, Id
<1>2. CASE call[c].host = p /\ call[c].pc \in InFlight
  <2>1. call[c] \in [pc : CallPcs, id : Ids, host : Hosts]
    BY <1>2 DEF TypeOK, CallRecords, NewCall
  <2>2. PICK pc \in CallPcs \ Holding : call'[c] = [call[c] EXCEPT !.pc = pc]
    <3>1. CASE call[c].pc \in {"cache", "release"}
      BY <1>2, <3>1 DEF Crash
    <3>2. CASE call[c].pc \notin {"cache", "release"}
      BY <1>2, <3>2 DEF Crash
    <3>3. QED
      BY <3>1, <3>2
  <2>3. /\ call'[c].pc = pc /\ call'[c].id = call[c].id
        /\ call'[c] \in [pc : CallPcs, id : Ids, host : Hosts]
    BY <2>1, <2>2
  <2>4. ASSUME At(c, "cache")
        PROVE  "unsaved" \in mishaps'[Id(c)]
    BY <1>2, <2>1, <2>4 DEF Crash, Id, At
  <2>5. QED
    BY <2>2, <2>3, <2>4 DEF CallRecords, Id
<1>3. QED
  BY <1>1, <1>2

LEMMA NextTypes == TypeOK /\ [Next]_vars => TypeOK'
<1> SUFFICES ASSUME TypeOK, [Next]_vars PROVE TypeOK'
  OBVIOUS
<1> USE PcNames
<1>1. ASSUME NEW c \in Calls, NEW p \in Hosts, NEW k \in Ids, Arrive(c, p, k)
      PROVE  TypeOK'
  <2>1. [pc |-> "get", id |-> k, host |-> p] \in CallRecords
    BY DEF CallRecords
  <2>2. call' \in [Calls -> CallRecords]
    BY <1>1, <2>1 DEF Arrive, TypeOK
  <2>3. QED
    BY <1>1, <2>2 DEF Arrive, TypeOK
<1>2. ASSUME NEW c \in Calls, NEW p \in Hosts, Retry(c, p)
      PROVE  TypeOK'
  <2>1. call[c] \in [pc : CallPcs, id : Ids, host : Hosts]
    BY <1>2 DEF Retry, TypeOK, CallRecords, NewCall
  <2>2. [call[c] EXCEPT !.pc = "get", !.host = p] \in CallRecords
    BY <2>1 DEF CallRecords
  <2>3. call' = [call EXCEPT ![c] = [call[c] EXCEPT !.pc = "get", !.host = p]]
    BY <1>2 DEF Retry, TypeOK
  <2>4. call' \in [Calls -> CallRecords]
    BY <2>2, <2>3 DEF TypeOK
  <2>5. QED
    BY <1>2, <2>4 DEF Retry, TypeOK
<1>3. ASSUME NEW c \in Calls, CallStep(c)
      PROVE  TypeOK'
  BY <1>3, CallStepTypes
<1>4. ASSUME NEW k \in Ids, ExpireLock(k) \/ ExpireCache(k)
      PROVE  TypeOK'
  <2>1. CASE ExpireLock(k)
    <3>1. lock' \in [Ids -> BOOLEAN]
      BY <2>1 DEF ExpireLock, TypeOK
    <3>2. PICK new \in SUBSET Mishaps :
              mishaps' = [mishaps EXCEPT ![k] = mishaps[k] \cup new]
      <4>1. {} \in SUBSET Mishaps /\ {"slow"} \in SUBSET Mishaps
        BY DEF Mishaps
      <4>2. (IF Holders(k) # {} THEN {"slow"} ELSE {}) \in SUBSET Mishaps
        BY <4>1
      <4>3. QED
        BY <2>1, <4>2 DEF ExpireLock
    <3>3. mishaps' \in [Ids -> SUBSET Mishaps]
      BY <3>2 DEF TypeOK
    <3>4. QED
      BY <2>1, <3>1, <3>3 DEF ExpireLock, TypeOK
  <2>2. CASE ExpireCache(k)
    <3>1. cached' \in [Ids -> BOOLEAN] /\ done' \in [Ids -> SUBSET Calls]
      BY <2>2 DEF ExpireCache, TypeOK
    <3>2. QED
      BY <2>2, <3>1 DEF ExpireCache, TypeOK
  <2>3. QED
    BY <1>4, <2>1, <2>2
<1>5. ASSUME NEW p \in Hosts, Crash(p)
      PROVE  TypeOK'
  <2>1. DOMAIN call' = Calls /\ call' = [c \in Calls |-> call'[c]]
    BY <1>5 DEF Crash
  <2>2. \A c \in Calls : call'[c] \in CallRecords
    BY <1>5, CrashedCall
  <2>3. call' \in [Calls -> CallRecords]
    BY <2>1, <2>2
  <2>4. mishaps' \in [Ids -> SUBSET Mishaps]
    BY <1>5 DEF Crash, TypeOK, Mishaps
  <2>5. QED
    BY <1>5, <2>3, <2>4 DEF Crash, TypeOK
<1>6. CASE UNCHANGED vars
  BY <1>6 DEF TypeOK, vars
<1>7. QED
  BY <1>1, <1>2, <1>3, <1>4, <1>5, <1>6 DEF Next

-----------------------------------------------------------------------------
(* The lock.                                                                 *)

\* Who holds a lock, and whose answer is being saved, after c went to pc.
LEMMA HoldersAfter ==
    ASSUME TypeOK, NEW c \in Calls, call[c].pc # "new",
           NEW pc \in CallPcs, Goto(c, pc), NEW k \in Ids
    PROVE  /\ Id(c) = k /\ pc \in Holding => Holders(k)' = Holders(k) \cup {c}
           /\ ~(Id(c) = k /\ pc \in Holding) => Holders(k)' = Holders(k) \ {c}
           /\ Id(c) = k /\ pc = "cache" => Saving(k)' = Saving(k) \cup {c}
           /\ ~(Id(c) = k /\ pc = "cache") => Saving(k)' = Saving(k) \ {c}
<1>1. /\ call'[c].pc = pc /\ call'[c].id = call[c].id
      /\ \A d \in Calls : d # c => call'[d] = call[d]
  BY CallMoves DEF Id
<1>2. \A d \in Calls : d \in Holders(k)' <=>
          IF d = c THEN Id(c) = k /\ pc \in Holding ELSE d \in Holders(k)
  BY <1>1 DEF Holders, Id
<1>3. \A d \in Calls : d \in Saving(k)' <=>
          IF d = c THEN Id(c) = k /\ pc = "cache" ELSE d \in Saving(k)
  BY <1>1 DEF Saving, Id, At
<1>4. Holders(k) \subseteq Calls /\ Holders(k)' \subseteq Calls
  BY DEF Holders
<1>5. Saving(k) \subseteq Calls /\ Saving(k)' \subseteq Calls
  BY DEF Saving
<1>6. QED
  BY <1>2, <1>3, <1>4, <1>5

\* A lock that is set, or that nobody needs, stays right.
LEMMA LockKept ==
    ASSUME LockOK,
           \A k \in Ids : Undisturbed(k)' =>
               /\ Undisturbed(k)
               /\ Holders(k)' \subseteq Holders(k)
               /\ lock[k] => lock'[k] \/ Holders(k)' = {}
    PROVE  LockOK'
BY DEF LockOK

LEMMA CallStepLock ==
    ASSUME TypeOK, LockOK, NEW c \in Calls, CallStep(c)
    PROVE  LockOK'
<1> USE PcNames
<1>1. call[c].pc \in InFlight /\ call[c].pc # "new" /\ Id(c) \in Ids
  <2>1. call[c].pc \in InFlight
    BY DEF CallStep, GetCached, GetFails, Acquire, AcquireFails, HandlerReturns,
           HandlerThrows, CacheResponse, CacheFails, Release, ReleaseResent,
           ReleaseFails, At, InFlight, Holding
  <2>2. QED
    BY <2>1, CallsArrived
<1>2. ASSUME NEW pc \in CallPcs \ Holding, Goto(c, pc),
             \A k \in Ids : lock[k] => lock'[k], mishaps' = mishaps
      PROVE  LockOK'
  <2>1. \A k \in Ids : Holders(k)' \subseteq Holders(k)
    BY <1>1, <1>2, HoldersAfter
  <2>2. QED
    BY <1>2, <2>1, LockKept DEF Undisturbed
<1>3. ASSUME At(c, "handle") \/ At(c, "cache"), NEW pc \in Holding, Goto(c, pc),
             lock' = lock,
             \A k \in Ids : mishaps[k] \subseteq mishaps'[k]
      PROVE  LockOK'
  <2>1. c \in Holders(Id(c))
    BY <1>3 DEF Holders, At
  <2>2. \A k \in Ids : Holders(k)' \subseteq Holders(k)
    BY <1>1, <1>3, <2>1, HoldersAfter
  <2>3. QED
    BY <1>3, <2>2, LockKept DEF Undisturbed
<1>4. CASE GetCached(c) \/ GetFails(c)
  <2>1. \E pc \in CallPcs \ Holding : Goto(c, pc)
    BY <1>4 DEF GetCached, GetFails
  <2>2. lock' = lock /\ mishaps' = mishaps
    BY <1>4 DEF GetCached, GetFails
  <2>3. QED
    BY <1>2, <2>1, <2>2
<1>5. CASE Acquire(c)
  <2>0. PICK i \in Ids : i = Id(c)
    BY <1>1
  <2>1. /\ lock' = [lock EXCEPT ![i] = TRUE] /\ mishaps' = mishaps
        /\ Goto(c, IF lock[i] THEN "refused" ELSE "handle")
    BY <1>5, <2>0 DEF Acquire
  <2>2. lock'[i] /\ \A k \in Ids : k # i => lock'[k] = lock[k]
    BY <2>1 DEF TypeOK
  <2>3. CASE lock[i]
    <3>1. "refused" \in CallPcs \ Holding /\ Goto(c, "refused")
      BY <2>1, <2>3
    <3>2. QED
      BY <1>2, <2>1, <2>2, <3>1
  <2>4. CASE ~lock[i]
    <3>1. "handle" \in Holding /\ "handle" \in CallPcs /\ Goto(c, "handle")
      BY <2>1, <2>4
    <3>2. Holders(i)' = Holders(i) \cup {c}
      BY <1>1, <2>0, <3>1, HoldersAfter
    <3>3. \A k \in Ids : k # i => Holders(k)' \subseteq Holders(k)
      BY <1>1, <2>0, <3>1, HoldersAfter
    <3>4. Undisturbed(i) => Holders(i) = {}
      BY <2>4 DEF LockOK
    <3>5. \A k \in Ids : Undisturbed(k)' <=> Undisturbed(k)
      BY <2>1 DEF Undisturbed
    <3>6. Undisturbed(i) => Holders(i)' = {c}
      BY <3>2, <3>4
    <3>7. ASSUME NEW k \in Ids, Undisturbed(k)'
          PROVE  /\ \A d \in Holders(k)' : lock'[k]
                 /\ \A d, e \in Holders(k)' : d = e
      BY <2>2, <3>3, <3>5, <3>6, <3>7 DEF LockOK
    <3>8. QED
      BY <3>7 DEF LockOK
  <2>5. QED
    BY <2>3, <2>4
<1>6. CASE AcquireFails(c)
  <2>1. \A k \in Ids : lock[k] => lock'[k]
    BY <1>1, <1>6 DEF AcquireFails, TypeOK
  <2>2. Goto(c, "refused") /\ mishaps' = mishaps
    BY <1>6 DEF AcquireFails
  <2>3. "refused" \in CallPcs \ Holding
    OBVIOUS
  <2>4. QED
    BY <1>2, <2>1, <2>2, <2>3
<1>7. CASE HandlerReturns(c) \/ CacheResponse(c) \/ CacheFails(c)
  <2>1. \A k \in Ids : mishaps[k] \subseteq mishaps'[k]
    BY <1>7 DEF HandlerReturns, CacheResponse, CacheFails, TypeOK
  <2>2. /\ At(c, "handle") \/ At(c, "cache")
        /\ lock' = lock
        /\ Goto(c, "cache") \/ Goto(c, "release")
    BY <1>7 DEF HandlerReturns, CacheResponse, CacheFails
  <2>3. QED
    BY <1>3, <2>1, <2>2
<1>8. CASE HandlerThrows(c)
  <2>1. Goto(c, "failed") /\ lock' = lock /\ mishaps' = mishaps
    BY <1>8 DEF HandlerThrows
  <2>2. "failed" \in CallPcs \ Holding
    OBVIOUS
  <2>3. QED
    BY <1>2, <2>1, <2>2
<1>9. CASE Release(c)
  <2>0. PICK i \in Ids : i = Id(c)
    BY <1>1
  <2>1. /\ Goto(c, "end") /\ mishaps' = mishaps
        /\ \A k \in Ids : k # i => lock'[k] = lock[k]
    BY <1>9, <2>0 DEF Release, TypeOK
  <2>2. c \in Holders(i)
    BY <1>9, <2>0 DEF Release, Holders, At
  <2>3. "end" \in CallPcs \ Holding
    BY DEF Holding
  <2>4. \A k \in Ids : Holders(k)' = Holders(k) \ {c}
    BY <1>1, <2>1, <2>3, HoldersAfter
  <2>5. Undisturbed(i) => Holders(i)' = {}
    BY <2>2, <2>4 DEF LockOK
  <2>6. \A k \in Ids : Undisturbed(k)' <=> Undisturbed(k)
    BY <2>1 DEF Undisturbed
  <2>7. QED
    BY <2>1, <2>4, <2>5, <2>6, LockKept
<1>10. CASE ReleaseResent(c)
  <2>1. /\ call' = call
        /\ \A k \in Ids : k # Id(c) =>
               lock'[k] = lock[k] /\ mishaps'[k] = mishaps[k]
        /\ "resent" \in mishaps'[Id(c)]
    BY <1>1, <1>10 DEF ReleaseResent, TypeOK
  <2>2. \A k \in Ids : Holders(k)' = Holders(k)
    BY <2>1 DEF Holders, Id
  <2>3. QED
    BY <1>1, <2>1, <2>2, LockKept DEF Undisturbed
<1>11. CASE ReleaseFails(c)
  <2>1. Goto(c, "end") /\ lock' = lock /\ mishaps' = mishaps
    BY <1>11 DEF ReleaseFails
  <2>2. "end" \in CallPcs \ Holding
    BY DEF Holding
  <2>3. QED
    BY <1>2, <2>1, <2>2
<1>12. QED
  BY <1>4, <1>5, <1>6, <1>7, <1>8, <1>9, <1>10, <1>11 DEF CallStep

LEMMA NextLock == TypeOK /\ LockOK /\ [Next]_vars => LockOK'
<1> SUFFICES ASSUME TypeOK, LockOK, [Next]_vars PROVE LockOK'
  OBVIOUS
<1> USE PcNames
<1>1. ASSUME NEW c \in Calls, NEW p \in Hosts, NEW k \in Ids, Arrive(c, p, k)
      PROVE  LockOK'
  <2>1. call'[c].pc = "get" /\ \A d \in Calls : d # c => call'[d] = call[d]
    BY <1>1 DEF Arrive, TypeOK
  <2>2. \A i \in Ids : Holders(i)' \subseteq Holders(i)
    BY <2>1 DEF Holders, Id, Holding
  <2>3. lock' = lock /\ mishaps' = mishaps
    BY <1>1 DEF Arrive
  <2>4. QED
    BY <2>2, <2>3, LockKept DEF Undisturbed
<1>2. ASSUME NEW c \in Calls, NEW p \in Hosts, Retry(c, p)
      PROVE  LockOK'
  <2>1. call'[c].pc = "get" /\ \A d \in Calls : d # c => call'[d] = call[d]
    <3>1. call[c] \in [pc : CallPcs, id : Ids, host : Hosts]
      BY <1>2 DEF Retry, TypeOK, CallRecords, NewCall
    <3>2. QED
      BY <1>2, <3>1 DEF Retry, TypeOK
  <2>2. \A i \in Ids : Holders(i)' \subseteq Holders(i)
    BY <2>1 DEF Holders, Id, Holding
  <2>3. lock' = lock /\ mishaps' = mishaps
    BY <1>2 DEF Retry
  <2>4. QED
    BY <2>2, <2>3, LockKept DEF Undisturbed
<1>3. ASSUME NEW c \in Calls, CallStep(c)
      PROVE  LockOK'
  BY <1>3, CallStepLock
<1>4. ASSUME NEW k \in Ids, ExpireLock(k)
      PROVE  LockOK'
  <2>1. /\ \A i \in Ids : Holders(i)' = Holders(i)
        /\ \A i \in Ids : i # k => lock'[i] = lock[i] /\ mishaps'[i] = mishaps[i]
        /\ mishaps[k] \subseteq mishaps'[k]
        /\ Holders(k) # {} => "slow" \in mishaps'[k]
    BY <1>4 DEF ExpireLock, TypeOK, Holders, Id
  <2>2. QED
    BY <2>1, LockKept DEF Undisturbed
<1>5. ASSUME NEW k \in Ids, ExpireCache(k)
      PROVE  LockOK'
  <2>1. lock' = lock /\ mishaps' = mishaps /\ call' = call
    BY <1>5 DEF ExpireCache
  <2>2. QED
    BY <2>1, LockKept DEF Undisturbed, Holders, Id
<1>6. ASSUME NEW p \in Hosts, Crash(p)
      PROVE  LockOK'
  <2>1. \A i \in Ids : Holders(i)' \subseteq Holders(i)
    BY <1>6, CrashedCall DEF Holders
  <2>2. lock' = lock /\ \A i \in Ids : mishaps[i] \subseteq mishaps'[i]
    BY <1>6 DEF Crash
  <2>3. QED
    BY <2>1, <2>2, LockKept DEF Undisturbed
<1>7. CASE UNCHANGED vars
  BY <1>7, LockKept DEF vars, Undisturbed, Holders, Id
<1>8. QED
  BY <1>1, <1>2, <1>3, <1>4, <1>5, <1>6, <1>7 DEF Next

-----------------------------------------------------------------------------
(* The answer.                                                               *)

\* An answer that is kept, or kept by whoever is saving it, stays right.
LEMMA AnswerKept ==
    ASSUME AnswerOK,
           \A k \in Ids : mishaps'[k] = {} /\ done'[k] # {} =>
               \/ Saving(k)' # {} \/ cached'[k]
               \/ /\ mishaps[k] = {} /\ done[k] # {}
                  /\ cached[k] => cached'[k]
                  /\ Saving(k) \subseteq Saving(k)'
    PROVE  AnswerOK'
BY DEF AnswerOK

LEMMA CallStepAnswer ==
    ASSUME TypeOK, AnswerOK, NEW c \in Calls, CallStep(c)
    PROVE  AnswerOK'
<1> USE PcNames
<1>1. PICK i \in Ids : i = Id(c) /\ call[c].pc # "new"
  <2>1. call[c].pc \in InFlight
    BY DEF CallStep, GetCached, GetFails, Acquire, AcquireFails, HandlerReturns,
           HandlerThrows, CacheResponse, CacheFails, Release, ReleaseResent,
           ReleaseFails, At, InFlight, Holding
  <2>2. QED
    BY <2>1, CallsArrived
\* A step of a call that is not saving, and neither starts to nor loses it.
<1>2. ASSUME ~At(c, "cache"), NEW pc \in CallPcs, Goto(c, pc),
             UNCHANGED <<cached, done, mishaps>>
      PROVE  AnswerOK'
  <2>1. \A k \in Ids : c \notin Saving(k)
    BY <1>2 DEF Saving
  <2>2. \A k \in Ids : Saving(k) \subseteq Saving(k)'
    BY <1>1, <1>2, <2>1, HoldersAfter
  <2>3. QED
    BY <1>2, <2>2, AnswerKept
<1>3. CASE GetCached(c) \/ GetFails(c) \/ Acquire(c) \/ AcquireFails(c)
  <2>1. \E pc \in CallPcs : Goto(c, pc)
    BY <1>3 DEF GetCached, GetFails, Acquire, AcquireFails
  <2>2. ~At(c, "cache") /\ UNCHANGED <<cached, done, mishaps>>
    BY <1>3 DEF GetCached, GetFails, Acquire, AcquireFails, At
  <2>3. QED
    BY <1>2, <2>1, <2>2
<1>4. CASE HandlerThrows(c) \/ Release(c) \/ ReleaseFails(c)
  <2>1. \E pc \in CallPcs : Goto(c, pc)
    BY <1>4 DEF HandlerThrows, Release, ReleaseFails
  <2>2. ~At(c, "cache") /\ UNCHANGED <<cached, done, mishaps>>
    BY <1>4 DEF HandlerThrows, Release, ReleaseFails, At
  <2>3. QED
    BY <1>2, <2>1, <2>2
<1>5. CASE HandlerReturns(c)
  <2>1. /\ Goto(c, "cache") /\ "cache" \in CallPcs /\ ~At(c, "cache")
        /\ cached' = cached /\ mishaps' = mishaps
        /\ \A k \in Ids : k # i => done'[k] = done[k]
    BY <1>1, <1>5 DEF HandlerReturns, At, TypeOK
  <2>2. Saving(i)' = Saving(i) \cup {c}
    BY <1>1, <2>1, HoldersAfter
  <2>3. \A k \in Ids : c \notin Saving(k)
    BY <2>1 DEF Saving
  <2>4. \A k \in Ids : Saving(k) \subseteq Saving(k)'
    BY <1>1, <2>1, <2>3, HoldersAfter
  <2>5. QED
    BY <2>1, <2>2, <2>4, AnswerKept
<1>6. CASE CacheResponse(c)
  <2>1. /\ Goto(c, "release") /\ "release" \in CallPcs
        /\ done' = done /\ mishaps' = mishaps
        /\ cached'[i] /\ \A k \in Ids : k # i => cached'[k] = cached[k]
    BY <1>1, <1>6 DEF CacheResponse, TypeOK
  <2>2. \A k \in Ids : k # i => c \notin Saving(k)
    BY <1>1 DEF Saving
  <2>3. \A k \in Ids : k # i => Saving(k) \subseteq Saving(k)'
    BY <1>1, <2>1, <2>2, HoldersAfter
  <2>4. QED
    BY <2>1, <2>3, AnswerKept
<1>7. CASE CacheFails(c)
  <2>1. /\ Goto(c, "release") /\ "release" \in CallPcs
        /\ done' = done /\ cached' = cached
        /\ "unsaved" \in mishaps'[i]
        /\ \A k \in Ids : k # i => mishaps'[k] = mishaps[k]
    BY <1>1, <1>7 DEF CacheFails, TypeOK
  <2>2. \A k \in Ids : k # i => c \notin Saving(k)
    BY <1>1 DEF Saving
  <2>3. \A k \in Ids : k # i => Saving(k) \subseteq Saving(k)'
    BY <1>1, <2>1, <2>2, HoldersAfter
  <2>4. QED
    BY <2>1, <2>3, AnswerKept
<1>8. CASE ReleaseResent(c)
  <2>1. /\ call' = call /\ cached' = cached /\ done' = done
        /\ \A k \in Ids : mishaps[k] \subseteq mishaps'[k]
    BY <1>8 DEF ReleaseResent, TypeOK
  <2>2. \A k \in Ids : Saving(k)' = Saving(k)
    BY <2>1 DEF Saving, Id, At
  <2>3. QED
    BY <2>1, <2>2, AnswerKept
<1>9. QED
  BY <1>3, <1>4, <1>5, <1>6, <1>7, <1>8 DEF CallStep

LEMMA NextAnswer == TypeOK /\ AnswerOK /\ [Next]_vars => AnswerOK'
<1> SUFFICES ASSUME TypeOK, AnswerOK, [Next]_vars PROVE AnswerOK'
  OBVIOUS
<1> USE PcNames
<1>1. ASSUME NEW c \in Calls, call[c].pc # "cache",
             \A d \in Calls : d # c => call'[d] = call[d],
             UNCHANGED <<cached, done, mishaps>>
      PROVE  AnswerOK'
  <2>1. \A k \in Ids : Saving(k) \subseteq Saving(k)'
    BY <1>1 DEF Saving, Id, At
  <2>2. QED
    BY <1>1, <2>1, AnswerKept
<1>2. ASSUME NEW c \in Calls, NEW p \in Hosts, NEW k \in Ids, Arrive(c, p, k)
      PROVE  AnswerOK'
  BY <1>1, <1>2 DEF Arrive, At, TypeOK
<1>3. ASSUME NEW c \in Calls, NEW p \in Hosts, Retry(c, p)
      PROVE  AnswerOK'
  BY <1>1, <1>3 DEF Retry, TypeOK
<1>4. ASSUME NEW c \in Calls, CallStep(c)
      PROVE  AnswerOK'
  BY <1>4, CallStepAnswer
<1>5. ASSUME NEW k \in Ids, ExpireLock(k)
      PROVE  AnswerOK'
  <2>1. /\ call' = call /\ cached' = cached /\ done' = done
        /\ \A i \in Ids : mishaps[i] \subseteq mishaps'[i]
    BY <1>5 DEF ExpireLock, TypeOK
  <2>2. \A i \in Ids : Saving(i)' = Saving(i)
    BY <2>1 DEF Saving, Id, At
  <2>3. QED
    BY <2>1, <2>2, AnswerKept
<1>6. ASSUME NEW k \in Ids, ExpireCache(k)
      PROVE  AnswerOK'
  <2>1. /\ call' = call /\ mishaps' = mishaps /\ done'[k] = {}
        /\ \A i \in Ids : i # k => done'[i] = done[i] /\ cached'[i] = cached[i]
    BY <1>6 DEF ExpireCache, TypeOK
  <2>2. \A i \in Ids : Saving(i)' = Saving(i)
    BY <2>1 DEF Saving, Id, At
  <2>3. QED
    BY <2>1, <2>2, AnswerKept
<1>7. ASSUME NEW p \in Hosts, Crash(p)
      PROVE  AnswerOK'
  <2>1. /\ cached' = cached /\ done' = done
        /\ \A i \in Ids : mishaps[i] \subseteq mishaps'[i]
    BY <1>7 DEF Crash
  <2>2. ASSUME NEW i \in Ids, mishaps'[i] = {}
        PROVE  Saving(i) \subseteq Saving(i)'
    <3>1. ASSUME NEW c \in Calls, c \in Saving(i)
          PROVE  call'[c] = call[c]
      <4>1. At(c, "cache") /\ Id(c) = i
        BY <3>1 DEF Saving
      <4>2. call'[c] = call[c] \/ "unsaved" \in mishaps'[i]
        BY <1>7, <4>1, CrashedCall
      <4>3. QED
        BY <2>2, <4>2
    <3>2. QED
      BY <3>1 DEF Saving, Id, At
  <2>3. QED
    BY <2>1, <2>2, AnswerKept
<1>8. CASE UNCHANGED vars
  BY <1>8, AnswerKept DEF vars, Saving, Id, At
<1>9. QED
  BY <1>2, <1>3, <1>4, <1>5, <1>6, <1>7, <1>8 DEF Next

-----------------------------------------------------------------------------
(* The theorems.                                                             *)

\* The interceptor's state is well typed: every call in flight has an id and a
\* process, and the histories stay what they are said to be.
THEOREM TypeCorrect == Spec => []TypeOK
<1>1. Init => TypeOK
  BY DEF Init, TypeOK, CallRecords
<1>2. TypeOK /\ [Next]_vars => TypeOK'
  BY NextTypes
<1>3. QED
  BY <1>1, <1>2, PTL DEF Spec

\* The invariant on which mutual exclusion and retention rest.
THEOREM Invariance == Spec => []Inv
<1>1. Init => Inv
  BY DEF Init, Inv, TypeOK, CallRecords, LockOK, AnswerOK, Holders, Holding, Id,
         NewCall
<1>2. Inv /\ [Next]_vars => Inv'
  BY NextTypes, NextLock, NextAnswer DEF Inv
<1>3. QED
  BY <1>1, <1>2, PTL DEF Spec

\* intercept: at most one handler per request id at a time, however many
\* processes, crashes and Redis errors, unless a handler outlives the lock or a
\* DEL is sent twice.
THEOREM OneHandlerHolds == Spec => []OneHandler
<1>1. Inv => OneHandler
  BY DEF Inv, LockOK, Undisturbed, OneHandler
<1>2. QED
  BY <1>1, Invariance, PTL

\* tap in intercept: an answer given is cached or still behind the lock.
THEOREM AnsweredIsRememberedHolds == Spec => []AnsweredIsRemembered
<1>1. ASSUME Inv, NEW k \in Ids, mishaps[k] = {}, done[k] # {}
      PROVE  cached[k] \/ lock[k]
  <2>1. Undisturbed(k)
    BY <1>1 DEF Undisturbed
  <2>2. cached[k] \/ Saving(k) # {}
    BY <1>1 DEF Inv, AnswerOK
  <2>3. Saving(k) \subseteq Holders(k)
    BY DEF Saving, Holders, At, Holding
  <2>4. QED
    BY <1>1, <2>1, <2>2, <2>3 DEF Inv, LockOK
<1>2. Inv => AnsweredIsRemembered
  BY <1>1 DEF AnsweredIsRemembered
<1>3. QED
  BY <1>2, Invariance, PTL
=============================================================================
