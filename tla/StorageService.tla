--------------------------- MODULE StorageService ---------------------------
(***************************************************************************)
(* StorageService (storage.service.ts) of one process: the creation of the *)
(* buckets at startup, and the retry policy inside the circuit breaker     *)
(* that all its callers share. The two policies are cockatiel's; they are  *)
(* modelled by what the service relies on.                                 *)
(*                                                                         *)
(* One step per request to MinIO. The code between two awaits, the library *)
(* included, runs at once, so a call that the breaker lets wait goes on    *)
(* before any timer fires.                                                 *)
(***************************************************************************)
EXTENDS Naturals, Sequences, FiniteSets

CONSTANTS
    Callers,     \* bound: calls under way in the process at a time
    Nil,
    Threshold,   \* consecutive failures that open the circuit: 5
    MaxRetries,  \* maxAttempts of the retry policy: 3
    MaxMishaps   \* bound: outages of MinIO, calls for an object that does not
                 \* exist and crashes of the process, in all

ASSUME StorageAssumption ==
    /\ IsFiniteSet(Callers)
    /\ Nil \notin Callers
    /\ Threshold \in Nat \ {0}
    /\ MaxRetries \in Nat
    /\ MaxMishaps \in Nat

VARIABLES
    reachable,  \* is MinIO up?
    buckets,    \* the buckets that exist
    boot,       \* the process: ensureBucketsExist, then running, or dead
    circuit,    \* the breaker: its state and whether halfOpenAfter has passed;
                \* test is the call a half-open circuit is being tested with
    fails,      \* ConsecutiveBreaker: failures since the last success
    call,       \* the calls under way
    outages, misses, crashes

vars == <<reachable, buckets, boot, circuit, fails, call, outages, misses,
          crashes>>

-----------------------------------------------------------------------------
Buckets == <<"uploads", "processed">>

\* Signing a URL, and the requests for an object. objectExists and listObjects
\* use neither policy and change nothing here.
Ops == {"presign", "access"}

Starting == [pc : {"check", "make"}, at : 1 .. Len(Buckets)]
Running == [pc |-> "running", at |-> Len(Buckets)]
Dead == [pc |-> "dead", at |-> 1]
FirstBucket == [pc |-> "check", at |-> 1]

Closed == [state |-> "closed", cooled |-> FALSE, test |-> Nil]
Opened == [Closed EXCEPT !.state = "open"]
HalfOpen(c) == [state |-> "halfOpen", cooled |-> FALSE, test |-> c]

\* lacks: what the call asks for does not exist; probe: it tests the circuit;
\* tries: attempts that failed; on: the test it waits for.
NoCall == [pc |-> "idle", op |-> "access", lacks |-> FALSE, probe |-> FALSE,
           tries |-> 0, on |-> Nil]
CallPcs == {"idle", "enter", "attempt", "wait"}
CallRecords ==
    [pc : CallPcs, op : Ops, lacks : BOOLEAN, probe : BOOLEAN,
     tries : 0 .. MaxRetries, on : Callers \cup {Nil}]

TypeOK ==
    /\ reachable \in BOOLEAN
    /\ buckets \in SUBSET {"uploads", "processed"}
    /\ boot \in Starting \cup {Running, Dead}
    /\ circuit \in [state : {"closed", "open", "halfOpen"}, cooled : BOOLEAN,
                    test : Callers \cup {Nil}]
    /\ fails \in 0 .. Threshold
    /\ call \in [Callers -> CallRecords]
    /\ outages \in Nat
    /\ misses \in Nat
    /\ crashes \in Nat

Init ==
    /\ reachable = TRUE
    /\ buckets = {}
    /\ boot = FirstBucket
    /\ circuit = Closed
    /\ fails = 0
    /\ call = [c \in Callers |-> NoCall]
    /\ outages = 0
    /\ misses = 0
    /\ crashes = 0

At(c, pc) == call[c].pc = pc
bounds == <<outages, misses, crashes>>
Mishap == outages + misses + crashes < MaxMishaps
policies == <<circuit, fails, call>>

-----------------------------------------------------------------------------
(* Startup: ensureBucketsExist. Its errors end the process, and so does the  *)
(* one that makeBucket raises if another process has just made the bucket.   *)

Bucket == Buckets[boot.at]

\* Mutant: the loop has no end.
BucketDoneLoops == boot' = [pc |-> "check", at |-> boot.at + 1]

BucketDone ==
    boot' = IF boot.at < Len(Buckets)
            THEN [pc |-> "check", at |-> boot.at + 1] ELSE Running

CheckBucket ==
    /\ boot.pc = "check"
    /\ reachable
    /\ IF Bucket \in buckets THEN BucketDone ELSE boot' = [boot EXCEPT !.pc = "make"]
    /\ UNCHANGED <<reachable, buckets, policies, bounds>>

MakeBucket ==
    /\ boot.pc = "make"
    /\ reachable
    /\ Bucket \notin buckets
    /\ buckets' = buckets \cup {Bucket}
    /\ BucketDone
    /\ UNCHANGED <<reachable, policies, bounds>>

\* The process ends: its circuit and its calls are gone.
Exit ==
    /\ boot' = Dead
    /\ circuit' = Closed
    /\ fails' = 0
    /\ call' = [c \in Callers |-> NoCall]

\* Mutant: an error of the startup is only logged.
BootFailsLogged ==
    /\ boot.pc \in {"check", "make"} /\ ~reachable
    /\ boot' = Running
    /\ UNCHANGED <<reachable, buckets, policies, bounds>>

BootFails ==
    /\ \/ boot.pc \in {"check", "make"} /\ ~reachable
       \/ boot.pc = "make" /\ Bucket \in buckets
    /\ Exit
    /\ UNCHANGED <<reachable, buckets, bounds>>

Restart ==
    /\ boot.pc = "dead"
    /\ boot' = FirstBucket
    /\ UNCHANGED <<reachable, buckets, policies, bounds>>

Crash ==
    /\ boot.pc # "dead"
    /\ Mishap
    /\ crashes' = crashes + 1
    /\ Exit
    /\ UNCHANGED <<reachable, buckets, outages, misses>>

\* Another process runs its own startup.
OtherMakesBucket(b) ==
    /\ reachable
    /\ b \notin buckets
    /\ buckets' = buckets \cup {b}
    /\ UNCHANGED <<reachable, boot, policies, bounds>>

-----------------------------------------------------------------------------
(* The calls. The BullMQ worker may call before the startup is over.         *)

\* circuitBreaker.execute for call c, r being its record: a closed circuit lets
\* it through, an open one rejects it until halfOpenAfter has passed; the next
\* call then tests the circuit, and those that arrive meanwhile wait for it.
Execute(c, r) ==
    \/ /\ circuit.state = "closed"
       /\ call' = [call EXCEPT ![c] = [r EXCEPT !.pc = "attempt"]]
       /\ UNCHANGED circuit
    \/ /\ circuit.state = "open"
       /\ ~circuit.cooled
       /\ call' = [call EXCEPT ![c] = NoCall]
       /\ UNCHANGED circuit
    \/ /\ circuit.state = "open"
       /\ circuit.cooled
       /\ call' = [call EXCEPT ![c] = [r EXCEPT !.pc = "attempt", !.probe = TRUE]]
       /\ circuit' = HalfOpen(c)
    \/ /\ circuit.state = "halfOpen"
       /\ call' = [call EXCEPT ![c] = [r EXCEPT !.pc = "wait", !.on = circuit.test]]
       /\ UNCHANGED circuit

Begin(c, op, lacks) ==
    /\ boot.pc # "dead"
    /\ At(c, "idle")
    /\ Execute(c, [NoCall EXCEPT !.op = op, !.lacks = lacks])
    /\ UNCHANGED <<reachable, buckets, boot, fails, outages, crashes>>

\* generatePresignedUploadUrl, generatePresignedDownloadUrl: for HTTP requests,
\* which are accepted after the startup.
Presign(c) ==
    /\ boot = Running
    /\ Begin(c, "presign", FALSE)
    /\ UNCHANGED misses

\* getObject, putObject, deleteObject.
Access(c) == Begin(c, "access", FALSE) /\ UNCHANGED misses

\* getObject of an object that a deletion has removed.
AccessMissing(c) ==
    /\ Mishap
    /\ misses' = misses + 1
    /\ Begin(c, "access", TRUE)

\* A call that waited is executed anew.
Reenter(c) ==
    /\ At(c, "enter")
    /\ Execute(c, [call[c] EXCEPT !.on = Nil])
    /\ UNCHANGED <<reachable, buckets, boot, fails, bounds>>

\* A URL is signed in the process; MinIO is only asked for the region of a
\* bucket the client does not know yet.
MaySucceed(c) == call[c].op = "presign" \/ (reachable /\ ~call[c].lacks)
MayThrow(c) == ~reachable \/ call[c].lacks

\* Mutant: calls that wait for a test are forgotten.
SettleAlone(c) == call' = [call EXCEPT ![c] = NoCall]

\* Call c ends, and those that waited for it go on.
Settle(c) ==
    call' = [d \in Callers |->
        IF d = c THEN NoCall
        ELSE IF At(d, "wait") /\ call[d].on = c
             THEN [call[d] EXCEPT !.pc = "enter"] ELSE call[d]]

\* Mutant: the circuit stays half-open after its test.
SucceedOnlyCounts(c) ==
    /\ At(c, "attempt")
    /\ MaySucceed(c)
    /\ fails' = 0
    /\ Settle(c)
    /\ UNCHANGED <<reachable, buckets, boot, circuit, bounds>>

\* A success resets the count; that of a test closes the circuit, unless a late
\* failure has opened it again meanwhile.
Succeed(c) ==
    /\ At(c, "attempt")
    /\ MaySucceed(c)
    /\ fails' = 0
    /\ circuit' = IF call[c].probe /\ circuit.state = "halfOpen"
                  THEN Closed ELSE circuit
    /\ Settle(c)
    /\ UNCHANGED <<reachable, buckets, boot, bounds>>

\* Mutant: the retry policy is around the breaker, which sees every attempt.
RetryCounts(c) ==
    /\ At(c, "attempt")
    /\ MayThrow(c)
    /\ call[c].tries < MaxRetries
    /\ call' = [call EXCEPT ![c].tries = @ + 1]
    /\ fails' = IF fails < Threshold THEN fails + 1 ELSE fails
    /\ circuit' = IF fails' = Threshold /\ circuit.state = "closed"
                  THEN Opened ELSE circuit
    /\ UNCHANGED <<reachable, buckets, boot, bounds>>

\* The retry policy: up to MaxRetries further attempts, each after a backoff,
\* whatever became of the circuit.
Retry(c) ==
    /\ At(c, "attempt")
    /\ MayThrow(c)
    /\ call[c].tries < MaxRetries
    /\ call' = [call EXCEPT ![c].tries = @ + 1]
    /\ UNCHANGED <<reachable, buckets, boot, circuit, fails, bounds>>

\* The breaker counts one failure per call. The count is capped at Threshold:
\* the code only compares it with that.
Throw(c) ==
    LET count == IF fails < Threshold THEN fails + 1 ELSE fails IN
    /\ At(c, "attempt")
    /\ MayThrow(c)
    /\ call[c].tries = MaxRetries
    /\ fails' = count
    /\ circuit' = IF (call[c].probe \/ count = Threshold) /\ circuit.state # "open"
                  THEN Opened ELSE circuit
    /\ Settle(c)
    /\ UNCHANGED <<reachable, buckets, boot, bounds>>

\* halfOpenAfter has passed. Calls released from a wait run before any timer.
CoolDown ==
    /\ circuit.state = "open"
    /\ ~circuit.cooled
    /\ \A c \in Callers : ~At(c, "enter")
    /\ circuit' = [circuit EXCEPT !.cooled = TRUE]
    /\ UNCHANGED <<reachable, buckets, boot, fails, call, bounds>>

-----------------------------------------------------------------------------
Outage ==
    /\ reachable
    /\ Mishap
    /\ reachable' = FALSE
    /\ outages' = outages + 1
    /\ UNCHANGED <<buckets, boot, policies, misses, crashes>>

Recover ==
    /\ ~reachable
    /\ reachable' = TRUE
    /\ UNCHANGED <<buckets, boot, policies, bounds>>

BootStep == CheckBucket \/ MakeBucket \/ BootFails

Calling(c) == Presign(c) \/ Access(c) \/ AccessMissing(c)

CallStep(c) == Reenter(c) \/ Succeed(c) \/ Retry(c) \/ Throw(c)

Next ==
    \/ BootStep \/ Restart \/ Crash
    \/ \E b \in {"uploads", "processed"} : OtherMakesBucket(b)
    \/ \E c \in Callers : Calling(c) \/ CallStep(c)
    \/ CoolDown \/ Outage \/ Recover

Spec == Init /\ [][Next]_vars

-----------------------------------------------------------------------------
(* Fairness: the process goes on with what it began, docker restarts it, the *)
(* timer of the circuit fires, and some call is made again and again (the    *)
(* cron job, the retries of BullMQ, clients). An outage may last for ever.   *)

Fairness ==
    /\ WF_vars(BootStep)
    /\ WF_vars(Restart)
    /\ \A c \in Callers : WF_vars(CallStep(c))
    /\ WF_vars(CoolDown)
    /\ WF_vars(\E c \in Callers : Access(c))

FairSpec == Spec /\ Fairness

-----------------------------------------------------------------------------
(* Properties.                                                               *)

\* A process that serves requests finds both of its buckets, although another
\* process may make them at the same time (ensureBucketsExist).
ReadyMeansBuckets == boot = Running => {Buckets[i] : i \in 1 .. Len(Buckets)} = buckets

\* Whoever waits, waits for a call that is testing the circuit: a half-open
\* circuit always has its test under way, even if late failures of calls from
\* before the circuit opened open it again during the test.
WaitersHaveATest ==
    /\ circuit.state = "halfOpen" =>
           /\ circuit.test \in Callers
           /\ At(circuit.test, "attempt")
           /\ call[circuit.test].probe
    /\ \A c \in Callers : At(c, "wait") =>
           /\ call[c].on \in Callers \ {c}
           /\ At(call[c].on, "attempt")
           /\ call[call[c].on].probe

\* storage.service.ts:37: open after 5 consecutive failures. So while MinIO has
\* always been reachable, the circuit has opened only if as many calls, not
\* attempts, have failed.
OpensForCause == outages = 0 /\ misses < Threshold => circuit.state = "closed"

\* An outage ends for the process too: if MinIO stays reachable, the process is
\* some time up for good with its circuit closed, whatever was under way.
OutageIsOvercome ==
    <>[]reachable => <>[](boot = Running /\ circuit.state = "closed")

\* Every call ends, also one that waits for the test of another, and even if
\* MinIO never comes back.
EveryCallReturns == \A c \in Callers : ~At(c, "idle") ~> At(c, "idle")

\* vaporvault_implementation.md:21: the circuit closes after the cool-down
\* period when the service recovers. So it does not close during an outage.
ClosesOnRecovery ==
    [][circuit.state # "closed" /\ circuit'.state = "closed"
       => reachable \/ boot'.pc = "dead"]_vars
=============================================================================
