------------------------ MODULE VaporVaultLifecycle ------------------------
(***************************************************************************)
(* The pipeline implements FileLifecycle: what its tables and buckets show *)
(* of a file only ever changes as promised there, although several         *)
(* processes, requests and cleanup passes change them without any lock.    *)
(***************************************************************************)
EXTENDS VaporVault

\* What getFileStatus and getDownloadUrl make of the File row.
Listing(row) ==
    CASE row.status = "NONE" -> "absent"
      [] row.status = "DELETED" -> "gone"
      [] row.status \in {"UPLOADED", "COMPLETED"} -> "listed"
      [] OTHER -> "held"

Lifecycle == INSTANCE FileLifecycle WITH
    listing <- [f \in Files |-> Listing(file[f])],
    ready <- {f \in Files : file[f].key = "key"},
    content <- uploads,
    result <- processed,
    closing <- doomed,
    verdict <- {f \in Files : job[f].status = "COMPLETED"}

\* Every behaviour of the pipeline is one FileLifecycle allows: nothing is
\* published, completed or removed out of turn, by whichever component.
ImplementsLifecycle == Lifecycle!Spec
=============================================================================
