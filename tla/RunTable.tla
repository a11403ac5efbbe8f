------------------------------ MODULE RunTable ------------------------------
(***************************************************************************)
(* What the run-history table promises its readers (the History tab, the   *)
(* dashboard, GET /api/v1/history): a row appears as RUNNING, is closed as  *)
(* COMPLETED or FAILED, and is never RUNNING again afterwards.  A closed   *)
(* row may still be corrected from one terminal status to the other, since *)
(* the repository has no transition guard.  Several rows may be closed in  *)
(* one transaction (bulk_update).                                          *)
(***************************************************************************)
CONSTANT Rows    \* identities of the rows, RunRecord.id

VARIABLE table   \* table[r]: the status column, or "absent"

Terminal == {"COMPLETED", "FAILED"}

TypeOK == table \in [Rows -> {"absent", "RUNNING"} \cup Terminal]

Init == table = [r \in Rows |-> "absent"]

\* A new row starts its life RUNNING.
Open(r) ==
    /\ table[r] = "absent"
    /\ table' = [table EXCEPT ![r] = "RUNNING"]

\* One transaction writes terminal statuses into existing rows.
Close ==
    /\ table' \in [Rows -> {"absent", "RUNNING"} \cup Terminal]
    /\ \A r \in Rows : table'[r] # table[r] =>
           /\ table[r] # "absent"
           /\ table'[r] \in Terminal

Next == Close \/ \E r \in Rows : Open(r)

Spec == Init /\ [][Next]_table
=============================================================================
