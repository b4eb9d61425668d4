------------------------------ MODULE JobQueue ------------------------------
(***************************************************************************)
(* The BullMQ queue "file-processing" in Redis, as queue.service.ts and    *)
(* queue.module.ts configure it: three attempts per entry, one tolerated   *)
(* stall. BullMQ itself is a library; its entries are modelled by the      *)
(* states the application depends on.                                      *)
(*                                                                         *)
(* Entries of one file carry the same data and only differ in how often    *)
(* they were tried, and retries are delayed by a backoff, so any waiting   *)
(* entry may be the next one taken. Completed and failed entries stay in   *)
(* their final state: what removeOnComplete and removeOnFail purge is never*)
(* taken again either way.                                                 *)
(***************************************************************************)
EXTENDS VaultStore

CONSTANTS
    MaxEntries,  \* bound: entries ever added
    MaxAttempts, \* attempts: 3
    MaxStalls    \* BullMQ's maxStalledCount, 1 by default

ASSUME QueueAssumption ==
    /\ MaxEntries \in Nat
    /\ MaxAttempts \in Nat \ {0}
    /\ MaxStalls \in Nat
    /\ Nil \notin 1 .. MaxEntries

VARIABLE queue

Entries == 1 .. MaxEntries

EntryStates == {"waiting", "active", "completed", "failed", "removed"}

NoEntry == [state |-> "none", file |-> Nil, attempts |-> 0, stalls |-> 0,
            owner |-> Nil]
QueueEntries == {NoEntry} \cup
    [state : EntryStates, file : Files, attempts : Nat, stalls : Nat,
     owner : Procs \cup {Nil}]

QueueInit == queue = [e \in Entries |-> NoEntry]
QueueTypeOK == queue \in [Entries -> QueueEntries]

-----------------------------------------------------------------------------
Live(e) == queue[e].state \in {"waiting", "active"}

EntriesOf(f) == {e \in Entries : queue[e].file = f}

\* Ids come from a counter.
NextEntry(e) ==
    /\ queue[e].state = "none"
    /\ \A d \in Entries : queue[d].state = "none" => e <= d

AddEntry(e, f) ==
    /\ NextEntry(e)
    /\ queue' = [queue EXCEPT ![e] = [NoEntry EXCEPT !.state = "waiting",
                                                     !.file = f]]

TakeEntry(e, p) ==
    /\ queue[e].state = "waiting"
    /\ queue' = [queue EXCEPT ![e].state = "active", ![e].owner = p]

\* A worker finishes an entry only while it still holds its lock.
Holds(p, e) == queue[e].state = "active" /\ queue[e].owner = p

CompleteEntry(e) ==
    queue' = [queue EXCEPT ![e].state = "completed", ![e].owner = Nil]

\* One attempt is used up: retry (after the backoff) or give up.
FailEntry(e) ==
    queue' = [queue EXCEPT
        ![e].state = IF queue[e].attempts + 1 < MaxAttempts
                     THEN "waiting" ELSE "failed",
        ![e].attempts = @ + 1,
        ![e].owner = Nil]

\* The lock of an active entry expired: back to waiting, or failed if this
\* happened more often than maxStalledCount. The processor is not told.
StallEntry(e) ==
    /\ queue[e].state = "active"
    /\ queue' = [queue EXCEPT
           ![e].state = IF queue[e].stalls + 1 <= MaxStalls
                        THEN "waiting" ELSE "failed",
           ![e].stalls = @ + 1,
           ![e].owner = Nil]
=============================================================================
