----------------------------- MODULE MCBackupRun -----------------------------
(* Instances of BackupRun for TLC. *)
EXTENDS BackupRunProps, TLC

CONSTANTS u1, u2, u3, p1, p2, r1, r2, r3

\* one load table, two partition values: every unit has a path of its own
OneTable     == [u \in {u1, u2} |-> 1]
PrivatePaths == u1 :> p1 @@ u2 :> p2
PrivateRows  == r1 :> u1 @@ r2 :> u1 @@ r3 :> u2

\* two load tables: u1 and u2 write the same partition value, u3 another
TwoTables   == u1 :> 1 @@ u2 :> 2 @@ u3 :> 1
SharedPaths == u1 :> p1 @@ u2 :> p1 @@ u3 :> p2
SharedRows  == r1 :> u1 @@ r2 :> u2 @@ r3 :> u3
==============================================================================
