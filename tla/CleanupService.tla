--------------------------- MODULE CleanupService ---------------------------
(***************************************************************************)
(* CleanupService.handleCleanup (cleanup.service.ts), the hourly cron job  *)
(* of the API process. A pass is assumed to end before the next hour of    *)
(* the same process; every API process runs its own.                       *)
(***************************************************************************)
EXTENDS VaultStore

CONSTANT Outliving  \* bound: the files a behaviour lasts long enough to expire

ASSUME OutlivingAssumption == Outliving \subseteq Files

VARIABLES
    expired,  \* files whose createdAt is more than 24 hours ago
    pass      \* per process: the pass under way

cleanupVars == <<expired, pass>>

DeletePcs == {"delUpload", "delProcessed", "deleteRow"}

\* todo: the files found and not yet visited; keyed: the files found that had a
\* processedKey when the pass read them.
NoPass == [pc |-> "idle", todo |-> {}, keyed |-> {}, cur |-> Nil]
Passes == {NoPass}
    \cup [pc : {"loop"}, todo : SUBSET Files, keyed : SUBSET Files, cur : {Nil}]
    \cup [pc : DeletePcs, todo : SUBSET Files, keyed : SUBSET Files, cur : Files]

CleanupInit ==
    /\ expired = {}
    /\ pass = [p \in Procs |-> NoPass]

CleanupTypeOK ==
    /\ expired \in SUBSET Files
    /\ pass \in [Procs -> Passes]

\* Time passes: a row gets older than 24 hours.
Expire(f) ==
    /\ f \in Outliving
    /\ HasFile(f)
    /\ f \notin expired
    /\ expired' = expired \cup {f}
    /\ UNCHANGED <<storeVars, pass>>

HandleCleanup(p) ==
    LET found == {f \in expired : HasFile(f)} IN
    /\ pass[p].pc = "idle"
    /\ found # {}
    /\ pass' = [pass EXCEPT
           ![p] = [pc |-> "loop", todo |-> found, cur |-> Nil,
                   keyed |-> {f \in found : file[f].key = "key"}]]
    /\ UNCHANGED <<storeVars, expired>>

PassTo(p, pc, cur) ==
    pass' = [pass EXCEPT ![p] = [@ EXCEPT !.pc = pc, !.cur = cur]]

NextExpired(p) ==
    /\ pass[p].pc = "loop"
    /\ \E f \in pass[p].todo :
           pass' = [pass EXCEPT ![p].pc = "delUpload", ![p].cur = f,
                                ![p].todo = @ \ {f}]
    /\ UNCHANGED <<storeVars, expired>>

\* An error ends the visit of one file, not the pass.
PassGoto(p, service, next) ==
    \/ PassTo(p, next, pass[p].cur)
    \/ MayFail(service) /\ PassTo(p, "loop", Nil)

\* Mutant: an error of the deletion is swallowed, as deleteFile does.
DelExpiredUploadSwallows(p) ==
    /\ pass[p].pc = "delUpload"
    /\ \/ uploads' = uploads \ {pass[p].cur}
       \/ MayFail("storage") /\ uploads' = uploads
    /\ doomed' = doomed \cup {pass[p].cur}
    /\ pass' = [pass EXCEPT ![p].pc = IF pass[p].cur \in pass[p].keyed
                                      THEN "delProcessed" ELSE "deleteRow"]
    /\ UNCHANGED <<file, job, processed, expired>>

\* Mutant: the deletion of an object that is no longer there fails.
DelExpiredUploadOnce(p) ==
    LET f == pass[p].cur IN
    /\ pass[p].pc = "delUpload"
    /\ uploads' = uploads \ {f}
    /\ doomed' = doomed \cup {f}
    /\ IF f \in uploads
       THEN PassGoto(p, "storage", IF f \in pass[p].keyed THEN "delProcessed"
                                   ELSE "deleteRow")
       ELSE PassTo(p, "loop", Nil)
    /\ UNCHANGED <<file, job, processed, expired>>

DelExpiredUpload(p) ==
    LET f == pass[p].cur IN
    /\ pass[p].pc = "delUpload"
    /\ uploads' = uploads \ {f}
    /\ doomed' = doomed \cup {f}
    /\ PassGoto(p, "storage", IF f \in pass[p].keyed THEN "delProcessed"
                              ELSE "deleteRow")
    /\ UNCHANGED <<file, job, processed, expired>>

DelExpiredProcessed(p) ==
    /\ pass[p].pc = "delProcessed"
    /\ processed' = processed \ {pass[p].cur}
    /\ PassGoto(p, "storage", "deleteRow")
    /\ UNCHANGED <<file, job, uploads, doomed, expired>>

DeleteExpiredRow(p) ==
    /\ pass[p].pc = "deleteRow"
    /\ DeleteFileRow(pass[p].cur)
    /\ PassTo(p, "loop", Nil)
    /\ UNCHANGED <<uploads, processed, doomed, expired>>

VisitFails(p) ==
    /\ \/ pass[p].pc \in {"delUpload", "delProcessed"} /\ MayFail("storage")
       \/ /\ pass[p].pc = "deleteRow"
          /\ ~HasFile(pass[p].cur) \/ MayFail("db")
    /\ PassTo(p, "loop", Nil)
    /\ UNCHANGED <<storeVars, expired>>

CleanupDone(p) ==
    /\ pass[p].pc = "loop"
    /\ pass[p].todo = {}
    /\ pass' = [pass EXCEPT ![p] = NoPass]
    /\ UNCHANGED <<storeVars, expired>>

CleanupStep(p) ==
    \/ NextExpired(p) \/ DelExpiredUpload(p) \/ DelExpiredProcessed(p)
    \/ DeleteExpiredRow(p) \/ VisitFails(p) \/ CleanupDone(p)

PassCrash(p) == pass' = [pass EXCEPT ![p] = NoPass]
=============================================================================
