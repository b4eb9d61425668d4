--------------------------- MODULE FileLifecycle ---------------------------
(***************************************************************************)
(* What VapourVault promises about its files, whoever works on them:       *)
(*                                                                         *)
(*  - a file offered for download has its object;                          *)
(*  - a file is published only when its result is stored, stays published  *)
(*    until it is deleted, and its processing is only then over;           *)
(*  - objects and rows go away only once the file is being closed, and a   *)
(*    deleted file never comes back.                                       *)
(*                                                                         *)
(* There are no processes, queues, requests or checkpoints here, and a step*)
(* concerns one file.                                                      *)
(***************************************************************************)
CONSTANT Files

VARIABLES
    listing,  \* what a client is told: no such file (yet, or any more), a
              \* file it cannot download now, one it can
    ready,    \* the files that have been published
    content,  \* the files whose upload is stored
    result,   \* the files whose result is stored
    closing,  \* the files someone began to destroy
    verdict   \* the files whose processing is reported to be over

vars == <<listing, ready, content, result, closing, verdict>>

Listings == {"absent", "held", "listed", "gone"}

TypeOK ==
    /\ listing \in [Files -> Listings]
    /\ ready \in SUBSET Files
    /\ content \in SUBSET Files
    /\ result \in SUBSET Files
    /\ closing \in SUBSET Files
    /\ verdict \in SUBSET Files

Init ==
    /\ listing = [f \in Files |-> "absent"]
    /\ ready = {}
    /\ content = {}
    /\ result = {}
    /\ closing = {}
    /\ verdict = {}

-----------------------------------------------------------------------------
Exists(f) == listing[f] \in {"held", "listed"}
Available(f) == f \in content \cup closing
Show(f, as) == listing' = [listing EXCEPT ![f] = as]

StoreContent(f) ==
    /\ content' = content \cup {f}
    /\ UNCHANGED <<listing, ready, result, closing, verdict>>

StoreResult(f) ==
    /\ result' = result \cup {f}
    /\ UNCHANGED <<listing, ready, content, closing, verdict>>

\* A file becomes known, or what is told of it changes.
Hold(f) ==
    /\ listing[f] # "gone"
    /\ Show(f, "held")
    /\ UNCHANGED <<ready, content, result, closing, verdict>>

List(f) ==
    /\ listing[f] # "gone"
    /\ Available(f)
    /\ Show(f, "listed")
    /\ UNCHANGED <<ready, content, result, closing, verdict>>

Publish(f) ==
    /\ Exists(f)
    /\ Available(f)
    /\ f \in result \cup closing
    /\ Show(f, "listed")
    /\ ready' = ready \cup {f}
    /\ UNCHANGED <<content, result, closing, verdict>>

\* Processing is over, or, a repetition under way, it is not.
Complete(f) ==
    /\ f \in ready
    /\ verdict' = verdict \cup {f}
    /\ UNCHANGED <<listing, ready, content, result, closing>>

Reopen(f) ==
    /\ verdict' = verdict \ {f}
    /\ UNCHANGED <<listing, ready, content, result, closing>>

\* The destruction of a file begins with its upload, which may resist.
Close(f) ==
    /\ closing' = closing \cup {f}
    /\ content' \in {content, content \ {f}}
    /\ UNCHANGED <<listing, ready, result, verdict>>

RemoveResult(f) ==
    /\ f \in closing
    /\ result' = result \ {f}
    /\ UNCHANGED <<listing, ready, content, closing, verdict>>

Delete(f) ==
    /\ Exists(f)
    /\ f \in closing
    /\ Show(f, "gone")
    /\ ready' = ready \ {f}
    /\ verdict' = verdict \ {f}
    /\ UNCHANGED <<content, result, closing>>

Step(f) ==
    \/ StoreContent(f) \/ StoreResult(f)
    \/ Hold(f) \/ List(f) \/ Publish(f)
    \/ Complete(f) \/ Reopen(f)
    \/ Close(f) \/ RemoveResult(f) \/ Delete(f)

Next == \E f \in Files : Step(f)

Spec == Init /\ [][Next]_vars
=============================================================================
