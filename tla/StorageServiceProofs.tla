------------------------ MODULE StorageServiceProofs ------------------------
(***************************************************************************)
(* The safety properties of StorageService, for any number of callers, any *)
(* threshold and any number of retries and mishaps.                        *)
(***************************************************************************)
EXTENDS StorageService, FiniteSetTheorems, TLAPS

-----------------------------------------------------------------------------
(* Types.                                                                    *)

LEMMA BootTypes ==
    /\ Len(Buckets) = 2
    /\ Buckets[1] = "uploads" /\ Buckets[2] = "processed"
    /\ FirstBucket \in Starting
    /\ \A b \in Starting : b.at \in 1 .. 2 /\ Buckets[b.at] \in {"uploads", "processed"}
BY DEF Buckets, Starting, FirstBucket

LEMMA CircuitTypes ==
    /\ Closed \in [state : {"closed", "open", "halfOpen"}, cooled : BOOLEAN,
                   test : Callers \cup {Nil}]
    /\ Opened \in [state : {"closed", "open", "halfOpen"}, cooled : BOOLEAN,
                   test : Callers \cup {Nil}]
    /\ \A c \in Callers :
           HalfOpen(c) \in [state : {"closed", "open", "halfOpen"},
                            cooled : BOOLEAN, test : Callers \cup {Nil}]
BY DEF Closed, Opened, HalfOpen

LEMMA CallTypes == NoCall \in CallRecords
BY StorageAssumption DEF NoCall, CallRecords, CallPcs, Ops

LEMMA ExecuteTypes ==
    ASSUME TypeOK, NEW c \in Callers, NEW r \in CallRecords, Execute(c, r)
    PROVE  /\ call' \in [Callers -> CallRecords]
           /\ circuit' \in [state : {"closed", "open", "halfOpen"},
                            cooled : BOOLEAN, test : Callers \cup {Nil}]
<1> DEFINE C == [state : {"closed", "open", "halfOpen"}, cooled : BOOLEAN,
                 test : Callers \cup {Nil}]
<1>1. circuit \in C /\ call \in [Callers -> CallRecords]
  BY DEF TypeOK
<1>2. PICK q : q \in CallRecords /\ call' = [call EXCEPT ![c] = q]
  <2>1. [r EXCEPT !.pc = "attempt"] \in CallRecords
    BY DEF CallRecords, CallPcs
  <2>2. [r EXCEPT !.pc = "attempt", !.probe = TRUE] \in CallRecords
    BY DEF CallRecords, CallPcs
  <2>3. [r EXCEPT !.pc = "wait", !.on = circuit.test] \in CallRecords
    BY <1>1 DEF CallRecords, CallPcs
  <2> QED BY <2>1, <2>2, <2>3, CallTypes DEF Execute
<1>3. circuit' \in C
  BY <1>1, CircuitTypes DEF Execute
<1> QED BY <1>1, <1>2, <1>3

LEMMA SettleTypes ==
    ASSUME TypeOK, NEW c \in Callers, Settle(c)
    PROVE  call' \in [Callers -> CallRecords]
<1>1. ASSUME NEW d \in Callers
      PROVE  [call[d] EXCEPT !.pc = "enter"] \in CallRecords
  BY <1>1 DEF TypeOK, CallRecords, CallPcs
<1> QED BY <1>1, CallTypes DEF Settle, TypeOK

\* What a step may store stays in the ranges TypeOK gives.
LEMMA TypeStep == TypeOK /\ [Next]_vars => TypeOK'
<1> SUFFICES ASSUME TypeOK, [Next]_vars
             PROVE  TypeOK'
  OBVIOUS
<1> USE StorageAssumption
<1>1. CASE CheckBucket
  <2>1. boot \in Starting
    BY <1>1 DEF CheckBucket, TypeOK, Running, Dead
  <2>2. boot' \in Starting \cup {Running, Dead}
    BY <1>1, <2>1, BootTypes DEF CheckBucket, BucketDone, Starting
  <2> QED BY <1>1, <2>2 DEF CheckBucket, TypeOK, policies, bounds
<1>2. CASE MakeBucket
  <2>1. boot \in Starting
    BY <1>2 DEF MakeBucket, TypeOK, Running, Dead
  <2>2. boot' \in Starting \cup {Running, Dead}
    BY <1>2, <2>1, BootTypes DEF MakeBucket, BucketDone, Starting
  <2>3. buckets' \in SUBSET {"uploads", "processed"}
    BY <1>2, <2>1, BootTypes DEF MakeBucket, Bucket, TypeOK
  <2> QED BY <1>2, <2>2, <2>3 DEF MakeBucket, TypeOK, policies, bounds
<1>3. CASE BootFails \/ Crash
  <2>1. Exit /\ UNCHANGED <<reachable, buckets, outages, misses>> /\ crashes' \in Nat
    BY <1>3 DEF BootFails, Crash, TypeOK, bounds
  <2>2. boot' = Dead /\ fails' = 0 /\ circuit' = Closed
    BY <2>1 DEF Exit
  <2>3. call' \in [Callers -> CallRecords]
    BY <2>1, CallTypes DEF Exit
  <2> QED BY <2>1, <2>2, <2>3, CircuitTypes DEF TypeOK
<1>4. CASE Restart
  BY <1>4, BootTypes DEF Restart, TypeOK, policies, bounds
<1>5. ASSUME NEW b \in {"uploads", "processed"}, OtherMakesBucket(b)
      PROVE  TypeOK'
  BY <1>5 DEF OtherMakesBucket, TypeOK, policies, bounds
<1>6. ASSUME NEW c \in Callers, Calling(c)
      PROVE  TypeOK'
  <2>1. PICK op \in Ops, lacks \in BOOLEAN : Begin(c, op, lacks)
    BY <1>6 DEF Calling, Presign, Access, AccessMissing, Ops
  <2>2. [NoCall EXCEPT !.op = op, !.lacks = lacks] \in CallRecords
    BY CallTypes DEF CallRecords
  <2>3. misses' \in Nat
    <3>1. misses' = misses \/ misses' = misses + 1
      BY <1>6, Zenon DEF Calling, Presign, Access, AccessMissing
    <3> QED BY <3>1 DEF TypeOK
  <2>4. Execute(c, [NoCall EXCEPT !.op = op, !.lacks = lacks])
    BY <2>1 DEF Begin
  <2>5. /\ call' \in [Callers -> CallRecords]
        /\ circuit' \in [state : {"closed", "open", "halfOpen"},
                         cooled : BOOLEAN, test : Callers \cup {Nil}]
    BY <2>2, <2>4, ExecuteTypes
  <2>6. UNCHANGED <<reachable, buckets, boot, fails, outages, crashes>>
    BY <2>1 DEF Begin
  <2> QED BY <2>3, <2>5, <2>6 DEF TypeOK
<1>7. ASSUME NEW c \in Callers, Reenter(c)
      PROVE  TypeOK'
  <2>1. [call[c] EXCEPT !.on = Nil] \in CallRecords
    BY DEF TypeOK, CallRecords
  <2> QED BY <1>7, <2>1, ExecuteTypes DEF Reenter, TypeOK, bounds
<1>8. ASSUME NEW c \in Callers, Succeed(c) \/ Throw(c)
      PROVE  TypeOK'
  <2>1. call' \in [Callers -> CallRecords]
    BY <1>8, SettleTypes DEF Succeed, Throw
  <2>2. fails' \in 0 .. Threshold
    BY <1>8 DEF Succeed, Throw, TypeOK
  <2>3. circuit' \in {circuit, Closed, Opened}
    BY <1>8 DEF Succeed, Throw
  <2> QED BY <1>8, <2>1, <2>2, <2>3, CircuitTypes DEF Succeed, Throw, TypeOK, bounds
<1>9. ASSUME NEW c \in Callers, Retry(c)
      PROVE  TypeOK'
  <2>1. [call[c] EXCEPT !.tries = @ + 1] \in CallRecords
    BY <1>9 DEF Retry, TypeOK, CallRecords
  <2> QED BY <1>9, <2>1 DEF Retry, TypeOK, bounds
<1>10. CASE CoolDown
  BY <1>10 DEF CoolDown, TypeOK, bounds
<1>11. CASE Outage \/ Recover
  <2>1. UNCHANGED <<buckets, boot, circuit, fails, call, misses, crashes>>
    BY <1>11 DEF Outage, Recover, policies, bounds
  <2>2. reachable' \in BOOLEAN
    BY <1>11 DEF Outage, Recover
  <2>3. outages' = outages \/ outages' = outages + 1
    BY <1>11, Zenon DEF Outage, Recover, bounds
  <2> QED BY <2>1, <2>2, <2>3 DEF TypeOK
<1>12. CASE UNCHANGED vars
  BY <1>12 DEF vars, TypeOK
<1>13. CASE \E c \in Callers : Calling(c) \/ CallStep(c)
  BY <1>6, <1>7, <1>8, <1>9, <1>13 DEF CallStep
<1> QED
  BY <1>1, <1>2, <1>3, <1>4, <1>5, <1>10, <1>11, <1>12, <1>13
     DEF Next, BootStep

LEMMA TypeInit == Init => TypeOK
BY StorageAssumption, BootTypes, CircuitTypes, CallTypes DEF Init, TypeOK

\* Every variable of the storage service has its type.
THEOREM TypeCorrect == Spec => []TypeOK
BY TypeInit, TypeStep, PTL DEF Spec

-----------------------------------------------------------------------------
(* ReadyMeansBuckets: the buckets the startup has passed exist, and no step   *)
(* removes a bucket.                                                         *)

Past(b) == IF b = Running THEN 1 .. 2 ELSE 1 .. (b.at - 1)

PassedExist == \A i \in Past(boot) : Buckets[i] \in buckets

LEMMA PassedStep == TypeOK /\ PassedExist /\ [Next]_vars => PassedExist'
<1> SUFFICES ASSUME TypeOK, PassedExist, [Next]_vars
             PROVE  PassedExist'
  OBVIOUS
<1>1. CASE CheckBucket \/ MakeBucket
  <2>1. boot \in Starting
    BY <1>1 DEF CheckBucket, MakeBucket, TypeOK, Running, Dead
  <2>2. boot.at \in 1 .. 2 /\ boot # Running
    BY <2>1, BootTypes DEF Starting, Running
  <2>3. \/ boot' = [boot EXCEPT !.pc = "make"] /\ boot.pc = "check" /\ buckets' = buckets
        \/ BucketDone /\ Bucket \in buckets' /\ buckets \subseteq buckets'
    BY <1>1 DEF CheckBucket, MakeBucket
  <2>4. CASE boot' = [boot EXCEPT !.pc = "make"] /\ boot.pc = "check" /\ buckets' = buckets
    <3>1. boot' # Running /\ boot'.at = boot.at
      BY <2>1, <2>4 DEF Starting, Running
    <3> QED BY <2>2, <2>4, <3>1 DEF PassedExist, Past
  <2>5. CASE BucketDone /\ Bucket \in buckets' /\ buckets \subseteq buckets'
    <3>1. \A i \in 1 .. boot.at : Buckets[i] \in buckets'
      BY <2>2, <2>5 DEF PassedExist, Past, Bucket
    <3>2. CASE boot.at < 2
      <4>1. boot' = [pc |-> "check", at |-> boot.at + 1]
        BY <2>5, <3>2, BootTypes DEF BucketDone
      <4>2. boot' # Running /\ boot'.at = boot.at + 1
        BY <4>1 DEF Running
      <4> QED BY <2>2, <3>1, <4>2 DEF PassedExist, Past
    <3>3. CASE boot.at = 2
      <4>1. boot' = Running
        BY <2>5, <3>3, BootTypes DEF BucketDone
      <4> QED BY <3>1, <3>3, <4>1 DEF PassedExist, Past
    <3> QED BY <2>2, <3>2, <3>3
  <2> QED BY <2>3, <2>4, <2>5
<1>2. CASE BootFails \/ Crash
  <2>1. boot' = Dead
    BY <1>2 DEF BootFails, Crash, Exit
  <2> QED BY <2>1 DEF PassedExist, Past, Dead, Running
<1>3. CASE Restart
  <2>1. boot' = FirstBucket
    BY <1>3 DEF Restart
  <2> QED BY <2>1 DEF PassedExist, Past, FirstBucket, Running
<1>4. CASE UNCHANGED boot /\ buckets \subseteq buckets'
  BY <1>4 DEF PassedExist, Past
<1>5. UNCHANGED <<boot, buckets>> \/ CheckBucket \/ MakeBucket \/ BootFails
      \/ Crash \/ Restart \/ (UNCHANGED boot /\ buckets \subseteq buckets')
  <2>1. ASSUME NEW c \in Callers, Calling(c) \/ CallStep(c)
        PROVE  UNCHANGED <<boot, buckets>>
    BY <2>1, Zenon DEF Calling, Presign, Access, AccessMissing, Begin, CallStep,
         Reenter, Succeed, Retry, Throw
  <2>2. ASSUME NEW b \in {"uploads", "processed"}, OtherMakesBucket(b)
        PROVE  UNCHANGED boot /\ buckets \subseteq buckets'
    BY <2>2 DEF OtherMakesBucket
  <2>3. CASE CoolDown \/ Outage \/ Recover \/ UNCHANGED vars
    BY <2>3 DEF CoolDown, Outage, Recover, vars
  <2> QED BY <2>1, <2>2, <2>3, Zenon DEF Next, BootStep
<1> QED BY <1>1, <1>2, <1>3, <1>4, <1>5

\* A process that serves requests finds both of its buckets, whatever other
\* processes do at the same time.
THEOREM ReadyProcessHasBuckets == Spec => []ReadyMeansBuckets
<1>1. Init => PassedExist
  BY DEF Init, PassedExist, Past, FirstBucket, Running
<1>2. TypeOK /\ PassedExist => ReadyMeansBuckets
  <2> SUFFICES ASSUME TypeOK, PassedExist, boot = Running
               PROVE  {Buckets[i] : i \in 1 .. Len(Buckets)} = buckets
    BY DEF ReadyMeansBuckets
  <2>1. \A i \in 1 .. 2 : Buckets[i] \in buckets
    BY DEF PassedExist, Past
  <2>2. "uploads" \in buckets /\ "processed" \in buckets
    BY <2>1, BootTypes
  <2>3. buckets = {"uploads", "processed"}
    BY <2>2 DEF TypeOK
  <2>4. {Buckets[i] : i \in 1 .. 2} = {"uploads", "processed"}
    <3>1. \A i \in 1 .. 2 : i = 1 \/ i = 2
      OBVIOUS
    <3> QED BY <3>1, BootTypes
  <2> QED BY <2>3, <2>4, BootTypes
<1> QED BY <1>1, <1>2, TypeCorrect, PassedStep, PTL DEF Spec

-----------------------------------------------------------------------------
(* WaitersHaveATest is inductive given the types: only the end of a test      *)
(* takes it out of "attempt", and that wakes everyone who waits for it.       *)

Testing(c) == c \in Callers /\ At(c, "attempt") /\ call[c].probe

LEMMA TestingForm ==
    WaitersHaveATest <=>
        /\ circuit.state = "halfOpen" => Testing(circuit.test)
        /\ \A c \in Callers : At(c, "wait") => Testing(call[c].on) /\ call[c].on # c
BY DEF WaitersHaveATest, Testing

\* A call that is not under way is executed: it becomes a test, or waits for
\* the one under way.
LEMMA ExecuteKeepsTests ==
    ASSUME TypeOK, WaitersHaveATest, NEW c \in Callers, NEW r \in CallRecords,
           ~At(c, "attempt"), Execute(c, r)
    PROVE  WaitersHaveATest'
<1>1. PICK q \in CallRecords : call' = [call EXCEPT ![c] = q]
  BY CallTypes DEF Execute, CallRecords, CallPcs, TypeOK
<1>2. call'[c] = q /\ \A d \in Callers : d # c => call'[d] = call[d]
  BY <1>1 DEF TypeOK
<1>3. ASSUME NEW d, Testing(d)
      PROVE  Testing(d)' /\ d # c
  BY <1>2, <1>3 DEF Testing, At
<1>4. circuit'.state = "halfOpen" => Testing(circuit.test)'
  <2>1. CASE UNCHANGED circuit
    <3>1. PICK t : t = circuit.test
      OBVIOUS
    <3> QED BY <2>1, <3>1, <1>3, TestingForm DEF Testing, At
  <2>2. CASE /\ call' = [call EXCEPT ![c] = [r EXCEPT !.pc = "attempt", !.probe = TRUE]]
             /\ circuit' = HalfOpen(c)
    <3>1. call'[c].pc = "attempt" /\ call'[c].probe
      BY <2>2 DEF TypeOK, CallRecords
    <3> QED BY <2>2, <3>1 DEF HalfOpen, Testing, At
  <2> QED BY <2>1, <2>2 DEF Execute
<1>5. ASSUME NEW d \in Callers, At(d, "wait")'
      PROVE  Testing(call[d].on)' /\ call'[d].on # d
  <2>1. CASE d # c
    <3>1. At(d, "wait") /\ call'[d] = call[d]
      BY <1>2, <1>5, <2>1 DEF At
    <3>2. PICK t : t = call[d].on
      OBVIOUS
    <3>3. Testing(t) /\ t # d
      BY <3>1, <3>2, TestingForm
    <3> QED BY <1>3, <3>1, <3>2, <3>3 DEF Testing, At
  <2>2. CASE d = c
    <3>1. circuit.state = "halfOpen" /\ call'[c].on = circuit.test
      <4>1. call'[c].pc = "wait"
        BY <1>5, <2>2 DEF At
      <4>2. CASE circuit.state = "halfOpen"
        <5>1. call' = [call EXCEPT ![c] = [r EXCEPT !.pc = "wait", !.on = circuit.test]]
          BY <4>2 DEF Execute
        <5> QED BY <4>2, <5>1 DEF TypeOK, CallRecords
      <4>3. CASE circuit.state # "halfOpen"
        <5>1. \/ call' = [call EXCEPT ![c] = [r EXCEPT !.pc = "attempt"]]
              \/ call' = [call EXCEPT ![c] = NoCall]
              \/ call' = [call EXCEPT ![c] = [r EXCEPT !.pc = "attempt", !.probe = TRUE]]
          BY <4>3 DEF Execute
        <5>2. call'[c].pc \in {"attempt", "idle"}
          <6>1. \/ call'[c] = [r EXCEPT !.pc = "attempt"]
                \/ call'[c] = NoCall
                \/ call'[c] = [r EXCEPT !.pc = "attempt", !.probe = TRUE]
            BY <5>1 DEF TypeOK
          <6>2. [r EXCEPT !.pc = "attempt"].pc = "attempt"
            BY DEF CallRecords
          <6>3. [r EXCEPT !.pc = "attempt", !.probe = TRUE].pc = "attempt"
            BY DEF CallRecords
          <6>4. NoCall.pc = "idle"
            BY DEF NoCall
          <6> QED BY <6>1, <6>2, <6>3, <6>4
        <5> QED BY <4>1, <5>2
      <4> QED BY <4>2, <4>3
    <3>2. PICK t : t = circuit.test
      OBVIOUS
    <3>3. Testing(t)
      BY <3>1, <3>2, TestingForm
    <3> QED BY <1>3, <2>2, <3>1, <3>2, <3>3 DEF Testing, At
  <2> QED BY <2>1, <2>2
<1> QED BY <1>4, <1>5 DEF WaitersHaveATest, Testing

\* A call ends, and the circuit is not left half-open for it.
LEMMA SettleKeepsTests ==
    ASSUME TypeOK, WaitersHaveATest, NEW c \in Callers, Settle(c),
           \/ circuit'.state # "halfOpen"
           \/ UNCHANGED circuit /\ ~(call[c].probe /\ circuit.state = "halfOpen")
    PROVE  WaitersHaveATest'
<1>1. \A d \in Callers : At(d, "attempt") /\ d # c => call'[d] = call[d]
  BY DEF Settle, At
<1>2. ASSUME NEW d, Testing(d), d # c
      PROVE  Testing(d)'
  BY <1>1, <1>2 DEF Testing, At
<1>3. circuit'.state = "halfOpen" => Testing(circuit.test)'
  <2> SUFFICES ASSUME circuit'.state = "halfOpen"
               PROVE  Testing(circuit.test)'
    OBVIOUS
  <2>1. UNCHANGED circuit /\ circuit.state = "halfOpen" /\ ~call[c].probe
    OBVIOUS
  <2>2. PICK t : t = circuit.test
    OBVIOUS
  <2>3. Testing(t) /\ t # c
    BY <2>1, <2>2, TestingForm DEF Testing
  <2> QED BY <1>2, <2>1, <2>2, <2>3 DEF Testing, At
<1>4. ASSUME NEW d \in Callers, At(d, "wait")'
      PROVE  Testing(call[d].on)' /\ call'[d].on # d
  <2>1. d # c
    BY <1>4 DEF Settle, At, NoCall
  <2>2. At(d, "wait") /\ call[d].on # c /\ call'[d] = call[d]
    <3>1. CASE At(d, "wait") /\ call[d].on = c
      <4>1. call'[d] = [call[d] EXCEPT !.pc = "enter"]
        BY <2>1, <3>1 DEF Settle
      <4>2. call'[d].pc = "enter"
        BY <4>1 DEF TypeOK, CallRecords
      <4> QED BY <1>4, <4>2 DEF At
    <3>2. CASE ~(At(d, "wait") /\ call[d].on = c)
      <4>1. call'[d] = call[d]
        BY <2>1, <3>2 DEF Settle
      <4> QED BY <1>4, <3>2, <4>1 DEF At
    <3> QED BY <3>1, <3>2
  <2>3. PICK t : t = call[d].on
    OBVIOUS
  <2>4. Testing(t) /\ t # d
    BY <2>2, <2>3, TestingForm
  <2> QED BY <1>2, <2>2, <2>3, <2>4 DEF Testing, At
<1> QED BY <1>3, <1>4 DEF WaitersHaveATest, Testing

LEMMA TestsStep == TypeOK /\ WaitersHaveATest /\ [Next]_vars => WaitersHaveATest'
<1> SUFFICES ASSUME TypeOK, WaitersHaveATest, [Next]_vars
             PROVE  WaitersHaveATest'
  OBVIOUS
<1>1. CASE UNCHANGED <<circuit, call>>
  BY <1>1 DEF WaitersHaveATest, At
<1>2. CASE Exit
  BY <1>2 DEF Exit, Closed, NoCall, WaitersHaveATest, At
<1>3. ASSUME NEW c \in Callers, Calling(c)
      PROVE  WaitersHaveATest'
  <2>1. PICK op \in Ops, lacks \in BOOLEAN : Begin(c, op, lacks)
    BY <1>3 DEF Calling, Presign, Access, AccessMissing, Ops
  <2>2. [NoCall EXCEPT !.op = op, !.lacks = lacks] \in CallRecords
    BY CallTypes DEF CallRecords
  <2>3. Execute(c, [NoCall EXCEPT !.op = op, !.lacks = lacks]) /\ ~At(c, "attempt")
    BY <2>1 DEF Begin, At
  <2> QED BY <2>2, <2>3, ExecuteKeepsTests
<1>4. ASSUME NEW c \in Callers, Reenter(c)
      PROVE  WaitersHaveATest'
  <2>1. [call[c] EXCEPT !.on = Nil] \in CallRecords
    BY DEF TypeOK, CallRecords
  <2>2. Execute(c, [call[c] EXCEPT !.on = Nil]) /\ ~At(c, "attempt")
    BY <1>4 DEF Reenter, At
  <2> QED BY <2>1, <2>2, ExecuteKeepsTests
<1>5. ASSUME NEW c \in Callers, Succeed(c) \/ Throw(c)
      PROVE  WaitersHaveATest'
  <2>1. Settle(c)
    BY <1>5 DEF Succeed, Throw
  <2>2. \/ circuit'.state # "halfOpen"
        \/ UNCHANGED circuit /\ ~(call[c].probe /\ circuit.state = "halfOpen")
    BY <1>5 DEF Succeed, Throw, Closed, Opened
  <2> QED BY <2>1, <2>2, SettleKeepsTests
<1>6. ASSUME NEW c \in Callers, Retry(c)
      PROVE  WaitersHaveATest'
  <2>1. \A d \in Callers : call'[d].pc = call[d].pc /\ call'[d].probe = call[d].probe
                           /\ call'[d].on = call[d].on
    BY <1>6 DEF Retry, TypeOK, CallRecords
  <2>2. UNCHANGED circuit
    BY <1>6 DEF Retry
  <2> QED BY <2>1, <2>2 DEF WaitersHaveATest, At
<1>7. CASE CoolDown
  <2>1. call' = call /\ circuit'.state = "open"
    BY <1>7 DEF CoolDown, TypeOK
  <2> QED BY <2>1 DEF WaitersHaveATest, At
<1>8. CASE \E c \in Callers : Calling(c) \/ CallStep(c)
  BY <1>3, <1>4, <1>5, <1>6, <1>8 DEF CallStep
<1>9. \/ UNCHANGED <<circuit, call>> \/ Exit \/ CoolDown
      \/ \E c \in Callers : Calling(c) \/ CallStep(c)
  <2>1. CASE CheckBucket \/ MakeBucket \/ Restart \/ Outage \/ Recover
    BY <2>1 DEF CheckBucket, MakeBucket, Restart, Outage, Recover, policies
  <2>2. CASE \E b \in {"uploads", "processed"} : OtherMakesBucket(b)
    BY <2>2 DEF OtherMakesBucket, policies
  <2>3. CASE BootFails \/ Crash
    BY <2>3 DEF BootFails, Crash
  <2>4. CASE UNCHANGED vars
    BY <2>4 DEF vars
  <2> QED BY <2>1, <2>2, <2>3, <2>4, Zenon DEF Next, BootStep
<1> QED BY <1>1, <1>2, <1>7, <1>8, <1>9

\* Nobody waits for a test that is not under way: no call can be left waiting
\* by a circuit that has moved on.
THEOREM NobodyWaitsForNothing == Spec => []WaitersHaveATest
<1>1. Init => WaitersHaveATest
  BY DEF Init, WaitersHaveATest, Closed, NoCall, At
<1> QED BY <1>1, TypeCorrect, TestsStep, PTL DEF Spec

-----------------------------------------------------------------------------
(* OpensForCause: as long as MinIO has been reachable, every failure counted  *)
(* and every call that can still fail is one of the misses.                  *)

Missing == {c \in Callers : call[c].lacks}

MissesCoverFailures ==
    outages = 0 =>
        /\ reachable
        /\ fails + Cardinality(Missing) <= misses
        /\ misses < Threshold =>
               circuit.state = "closed" /\ \A c \in Callers : ~call[c].probe

LEMMA MissingFinite == IsFiniteSet(Missing) /\ Cardinality(Missing) \in Nat
<1>1. IsFiniteSet(Missing)
  BY StorageAssumption, FS_Subset DEF Missing
<1> QED BY <1>1, FS_CardinalityType

\* A step that adds no failure keeps the bound, if it adds no missing object.
LEMMA CoverageKept ==
    ASSUME TypeOK, MissesCoverFailures, UNCHANGED <<outages, misses>>,
           outages = 0 => reachable', fails' \in 0 .. fails, Missing' \subseteq Missing,
           outages = 0 /\ misses < Threshold
               => circuit'.state = "closed" /\ \A c \in Callers : ~call'[c].probe
    PROVE  MissesCoverFailures'
<1>1. Cardinality(Missing') <= Cardinality(Missing) /\ Cardinality(Missing') \in Nat
  BY MissingFinite, FS_Subset, FS_CardinalityType
<1>2. outages = 0 => fails' + Cardinality(Missing') <= misses
  BY <1>1, MissingFinite DEF MissesCoverFailures, TypeOK
<1> QED BY <1>2 DEF MissesCoverFailures

\* Through a closed circuit a call becomes an attempt that is no test.
LEMMA ExecuteKeepsClosed ==
    ASSUME TypeOK, NEW c \in Callers, NEW r \in CallRecords, Execute(c, r)
    PROVE  /\ Missing' \subseteq IF r.lacks THEN Missing \cup {c} ELSE Missing
           /\ circuit.state = "closed" /\ ~r.probe /\ (\A d \in Callers : ~call[d].probe)
              => circuit'.state = "closed" /\ \A d \in Callers : ~call'[d].probe
<1>1. \/ /\ call' = [call EXCEPT ![c] = NoCall]
         /\ UNCHANGED circuit
      \/ /\ call' = [call EXCEPT ![c] = [r EXCEPT !.pc = "attempt"]]
         /\ UNCHANGED circuit
      \/ /\ call' = [call EXCEPT ![c] = [r EXCEPT !.pc = "wait", !.on = circuit.test]]
         /\ UNCHANGED circuit
      \/ /\ call' = [call EXCEPT ![c] = [r EXCEPT !.pc = "attempt", !.probe = TRUE]]
         /\ circuit.state = "open"
  BY Zenon DEF Execute
<1>2. \A d \in Callers : d # c => call'[d] = call[d]
  BY <1>1 DEF TypeOK
<1> DEFINE a == [r EXCEPT !.pc = "attempt"]
           w == [r EXCEPT !.pc = "wait", !.on = circuit.test]
           t == [r EXCEPT !.pc = "attempt", !.probe = TRUE]
<1>3. /\ ~NoCall.lacks /\ ~NoCall.probe
      /\ a.lacks = r.lacks /\ a.probe = r.probe
      /\ w.lacks = r.lacks /\ w.probe = r.probe
      /\ t.lacks = r.lacks
  BY DEF NoCall, CallRecords
<1>4. call'[c] \in {NoCall, a, w} \/ (call'[c] = t /\ circuit.state = "open")
  BY <1>1 DEF TypeOK
<1> HIDE DEF a, w, t
<1>5. call'[c].lacks => r.lacks
  BY <1>3, <1>4
<1>6. circuit.state # "open" /\ call'[c].probe => r.probe
  BY <1>3, <1>4
<1>7. circuit.state # "open" => UNCHANGED circuit
  BY <1>1
<1> QED BY <1>2, <1>5, <1>6, <1>7 DEF Missing

LEMMA CoverageStep == TypeOK /\ MissesCoverFailures /\ [Next]_vars => MissesCoverFailures'
<1> SUFFICES ASSUME TypeOK, MissesCoverFailures, [Next]_vars
             PROVE  MissesCoverFailures'
  OBVIOUS
<1>1. CASE UNCHANGED <<circuit, fails, call, outages, misses>>
           /\ (reachable => reachable')
  <2>1. Missing' = Missing
    BY <1>1 DEF Missing
  <2> QED BY <1>1, <2>1 DEF MissesCoverFailures
<1>2. CASE Exit /\ UNCHANGED <<reachable, outages, misses>>
  <2>1. Missing' = {} /\ \A c \in Callers : ~call'[c].probe
    BY <1>2 DEF Missing, Exit, NoCall
  <2>2. fails' = 0 /\ circuit'.state = "closed"
    BY <1>2 DEF Exit, Closed
  <2>3. outages = 0 => reachable'
    BY <1>2 DEF MissesCoverFailures
  <2> QED BY <1>2, <2>1, <2>2, <2>3, CoverageKept DEF TypeOK
<1>3. ASSUME NEW c \in Callers, Calling(c)
      PROVE  MissesCoverFailures'
  <2>1. PICK op \in Ops, lacks \in BOOLEAN :
            Begin(c, op, lacks) /\ misses' = IF lacks THEN misses + 1 ELSE misses
    BY <1>3 DEF Calling, Presign, Access, AccessMissing, Ops
  <2> DEFINE r == [NoCall EXCEPT !.op = op, !.lacks = lacks]
  <2>2. r \in CallRecords /\ r.lacks = lacks /\ ~r.probe
    BY CallTypes DEF CallRecords, NoCall
  <2>3. Execute(c, r) /\ UNCHANGED <<reachable, fails, outages>>
    BY <2>1 DEF Begin
  <2> HIDE DEF r
  <2>4. Missing' \subseteq IF lacks THEN Missing \cup {c} ELSE Missing
    BY <2>2, <2>3, ExecuteKeepsClosed
  <2>5. Cardinality(Missing') <= Cardinality(Missing) + (IF lacks THEN 1 ELSE 0)
        /\ Cardinality(Missing') \in Nat
    <3>1. /\ IsFiniteSet(Missing \cup {c})
          /\ Cardinality(Missing \cup {c}) <= Cardinality(Missing) + 1
          /\ Cardinality(Missing \cup {c}) \in Nat
      <4>1. Cardinality(Missing \cup {c}) =
                IF c \in Missing THEN Cardinality(Missing) ELSE Cardinality(Missing) + 1
        BY MissingFinite, FS_AddElement
      <4>2. IsFiniteSet(Missing \cup {c})
        BY MissingFinite, FS_AddElement
      <4> QED BY <4>1, <4>2, MissingFinite
    <3> QED BY <2>4, <3>1, MissingFinite, FS_Subset, FS_CardinalityType
  <2>6. outages = 0 => fails' + Cardinality(Missing') <= misses'
    BY <2>1, <2>3, <2>5, MissingFinite DEF MissesCoverFailures, TypeOK
  <2>7. misses' < Threshold => misses < Threshold
    BY <2>1, StorageAssumption DEF TypeOK
  <2>8. outages = 0 /\ misses' < Threshold
        => circuit'.state = "closed" /\ \A d \in Callers : ~call'[d].probe
    BY <2>2, <2>3, <2>7, ExecuteKeepsClosed DEF MissesCoverFailures
  <2> QED BY <2>3, <2>6, <2>8 DEF MissesCoverFailures
<1>4. ASSUME NEW c \in Callers, Reenter(c)
      PROVE  MissesCoverFailures'
  <2> DEFINE r == [call[c] EXCEPT !.on = Nil]
  <2>1. r \in CallRecords /\ r.lacks = call[c].lacks /\ r.probe = call[c].probe
    BY DEF TypeOK, CallRecords
  <2>2. Execute(c, r) /\ UNCHANGED <<reachable, fails, outages, misses>>
    BY <1>4 DEF Reenter, bounds
  <2> HIDE DEF r
  <2>3. Missing' \subseteq Missing
    BY <2>1, <2>2, ExecuteKeepsClosed DEF Missing
  <2>4. outages = 0 /\ misses < Threshold
        => circuit'.state = "closed" /\ \A d \in Callers : ~call'[d].probe
    BY <2>1, <2>2, ExecuteKeepsClosed DEF MissesCoverFailures
  <2>5. fails' \in 0 .. fails /\ (outages = 0 => reachable')
    BY <2>2 DEF MissesCoverFailures, TypeOK
  <2> QED BY <2>2, <2>3, <2>4, <2>5, CoverageKept
<1>5. ASSUME NEW c \in Callers, Settle(c)
      PROVE  /\ Missing' \subseteq Missing \ {c}
             /\ (\A d \in Callers : ~call[d].probe) => \A d \in Callers : ~call'[d].probe
  <2>1. ASSUME NEW d \in Callers
        PROVE  /\ call'[d].lacks => call[d].lacks /\ d # c
               /\ call'[d].probe => call[d].probe
    <3>1. \/ call'[d] = NoCall
          \/ d # c /\ call'[d] = [call[d] EXCEPT !.pc = "enter"]
          \/ d # c /\ call'[d] = call[d]
      BY <1>5 DEF Settle
    <3> QED BY <3>1 DEF TypeOK, CallRecords, NoCall
  <2> QED BY <2>1 DEF Missing
<1>6. ASSUME NEW c \in Callers, Succeed(c)
      PROVE  MissesCoverFailures'
  <2>1. /\ Settle(c) /\ fails' = 0 /\ circuit' \in {circuit, Closed}
        /\ UNCHANGED <<reachable, outages, misses>>
    BY <1>6 DEF Succeed, bounds
  <2>2. outages = 0 => reachable'
    BY <2>1 DEF MissesCoverFailures
  <2>3. outages = 0 /\ misses < Threshold
        => circuit'.state = "closed" /\ \A d \in Callers : ~call'[d].probe
    BY <1>5, <2>1 DEF MissesCoverFailures, Closed
  <2> QED BY <1>5, <2>1, <2>2, <2>3, CoverageKept DEF TypeOK
<1>7. ASSUME NEW c \in Callers, Throw(c)
      PROVE  MissesCoverFailures'
  <2>1. /\ Settle(c) /\ MayThrow(c)
        /\ fails' = IF fails < Threshold THEN fails + 1 ELSE fails
        /\ circuit' = IF (call[c].probe \/ fails' = Threshold) /\ circuit.state # "open"
                      THEN Opened ELSE circuit
        /\ UNCHANGED <<reachable, outages, misses>>
    BY <1>7 DEF Throw, bounds
  <2> SUFFICES ASSUME outages = 0
               PROVE  /\ reachable'
                      /\ fails' + Cardinality(Missing') <= misses
                      /\ misses < Threshold =>
                             circuit'.state = "closed" /\ \A d \in Callers : ~call'[d].probe
    BY <2>1 DEF MissesCoverFailures
  <2>2. reachable /\ c \in Missing
    BY <2>1 DEF MissesCoverFailures, MayThrow, Missing
  <2>3. Cardinality(Missing') <= Cardinality(Missing) - 1 /\ Cardinality(Missing') \in Nat
    <3>1. /\ IsFiniteSet(Missing \ {c})
          /\ Cardinality(Missing \ {c}) = Cardinality(Missing) - 1
      BY <2>2, MissingFinite, FS_RemoveElement
    <3>2. Missing' \subseteq Missing \ {c}
      BY <1>5, <2>1
    <3> QED BY <3>1, <3>2, FS_Subset, FS_CardinalityType
  <2>4. fails' + Cardinality(Missing') <= misses
    BY <2>1, <2>3, MissingFinite, StorageAssumption DEF MissesCoverFailures, TypeOK
  <2>5. misses < Threshold => fails' # Threshold
    BY <2>1, <2>3, <2>4, StorageAssumption DEF TypeOK
  <2>6. misses < Threshold => circuit' = circuit
    BY <2>1, <2>5 DEF MissesCoverFailures
  <2> QED BY <1>5, <2>1, <2>2, <2>4, <2>6 DEF MissesCoverFailures
<1>8. ASSUME NEW c \in Callers, Retry(c)
      PROVE  MissesCoverFailures'
  <2>1. UNCHANGED <<reachable, circuit, fails, outages, misses>>
    BY <1>8 DEF Retry, bounds
  <2>2. \A d \in Callers : call'[d].lacks = call[d].lacks /\ call'[d].probe = call[d].probe
    BY <1>8 DEF Retry, TypeOK, CallRecords
  <2>3. Missing' = Missing
    BY <2>2 DEF Missing
  <2> QED BY <2>1, <2>2, <2>3 DEF MissesCoverFailures
<1>9. CASE CoolDown
  <2>1. UNCHANGED <<reachable, fails, call, outages, misses>> /\ circuit'.state = circuit.state
    BY <1>9 DEF CoolDown, bounds, TypeOK
  <2>2. Missing' = Missing
    BY <2>1 DEF Missing
  <2> QED BY <2>1, <2>2 DEF MissesCoverFailures
<1>10. CASE Outage
  <2>1. outages' # 0
    BY <1>10 DEF Outage, TypeOK
  <2> QED BY <2>1 DEF MissesCoverFailures
<1>11. CASE \E c \in Callers : Calling(c) \/ CallStep(c)
  BY <1>3, <1>4, <1>6, <1>7, <1>8, <1>11 DEF CallStep
<1>12. CASE CheckBucket \/ MakeBucket \/ Restart \/ Recover
  BY <1>1, <1>12 DEF CheckBucket, MakeBucket, Restart, Recover, policies, bounds
<1>13. CASE \E b \in {"uploads", "processed"} : OtherMakesBucket(b)
  BY <1>1, <1>13 DEF OtherMakesBucket, policies, bounds
<1>14. CASE BootFails \/ Crash
  BY <1>2, <1>14 DEF BootFails, Crash, bounds
<1>15. CASE UNCHANGED vars
  BY <1>1, <1>15 DEF vars
<1> QED
  BY <1>9, <1>10, <1>11, <1>12, <1>13, <1>14, <1>15, Zenon DEF Next, BootStep

\* The circuit never opens without as many failed calls as the threshold says,
\* in particular not because one call was retried that often.
THEOREM CircuitOpensForCause == Spec => []OpensForCause
<1>1. Init => MissesCoverFailures
  <2> SUFFICES ASSUME Init
               PROVE  MissesCoverFailures
    OBVIOUS
  <2>1. Missing = {}
    BY DEF Init, Missing, NoCall
  <2>2. Cardinality(Missing) = 0
    BY <2>1, FS_EmptySet
  <2> QED BY <2>2 DEF Init, MissesCoverFailures, Closed, NoCall
<1>2. MissesCoverFailures => OpensForCause
  BY DEF MissesCoverFailures, OpensForCause
<1> QED BY <1>1, <1>2, TypeCorrect, CoverageStep, PTL DEF Spec
=============================================================================
