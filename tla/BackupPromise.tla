---------------------------- MODULE BackupPromise ----------------------------
(***************************************************************************)
(* What a reader of the audit trail relies on: while the last word about a *)
(* (job, date) is a success, the Hive table shows every source row exactly *)
(* once and stays that way.  Until then the table may show anything.       *)
(***************************************************************************)
EXTENDS Integers

CONSTANT Rows

VARIABLES
  table,    \* table[r]: how often Hive shows row r (2 for "more than once")
  vouched   \* the audit trail says success

Init == table = [r \in Rows |-> 0] /\ vouched = FALSE

\* clearing, writing, registering: only while nobody relies on the table
Rework ==
  /\ ~vouched
  /\ table' \in [Rows -> 0..2]
  /\ UNCHANGED vouched

Vouch ==
  /\ \A r \in Rows : table[r] = 1
  /\ vouched' = TRUE
  /\ UNCHANGED table

\* an operator forces a new run
Reopen ==
  /\ vouched' = FALSE
  /\ UNCHANGED table

Next == Rework \/ Vouch \/ Reopen

Spec == Init /\ [][Next]_<<table, vouched>>
==============================================================================
