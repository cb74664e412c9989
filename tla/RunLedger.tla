----------------------------- MODULE RunLedger -----------------------------
(***************************************************************************)
(* What the ingestion history promises its reader, whatever the worker and *)
(* the API do to keep it: runs are opened one at a time, a file is         *)
(* recorded together with the statement it produced, and a finished run    *)
(* never changes again.                                                    *)
(***************************************************************************)
CONSTANTS
    Run,        \* identities of ingestion runs
    File,       \* files of the Drive folder
    ContentOf   \* ContentOf[f]: the content hash of file f

VARIABLES
    status,     \* "none", "active" or how the run ended
    outcome,    \* outcome[r][f]: what run r recorded for file f, or "none"
    held        \* contents of the statements held

vars == <<status, outcome, held>>

RecordedOutcome == {"processed", "skipped", "failed"}
FinalStatus == {"completed", "completed_with_failures", "failed", "cancelled"}

Init ==
    /\ status = [r \in Run |-> "none"]
    /\ outcome = [r \in Run |-> [f \in File |-> "none"]]
    /\ held = {}

Open(r) ==
    /\ \A q \in Run : status[q] # "active"
    /\ status[r] = "none"
    /\ status' = [status EXCEPT ![r] = "active"]
    /\ UNCHANGED <<outcome, held>>

\* A statement becomes held in the step that records its file as processed, and
\* no content is ever processed while it is held.
Record(r, f) ==
    /\ status[r] = "active"
    /\ outcome[r][f] = "none"
    /\ \E o \in RecordedOutcome :
          /\ outcome' = [outcome EXCEPT ![r][f] = o]
          /\ o = "processed" => ContentOf[f] \notin held
          /\ held' = IF o = "processed" THEN held \cup {ContentOf[f]} ELSE held
    /\ UNCHANGED status

\* A run that completed says whether one of its files failed.
Close(r) ==
    /\ status[r] = "active"
    /\ \E s \in FinalStatus :
          /\ s \in {"completed", "completed_with_failures"} =>
                (s = "completed_with_failures" <=> \E f \in File : outcome[r][f] = "failed")
          /\ status' = [status EXCEPT ![r] = s]
    /\ UNCHANGED <<outcome, held>>

Next == \E r \in Run : Open(r) \/ Close(r) \/ \E f \in File : Record(r, f)

Spec == Init /\ [][Next]_vars
============================================================================
