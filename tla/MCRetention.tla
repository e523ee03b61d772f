----------------------------- MODULE MCRetention -----------------------------
(* An instance of Retention for TLC. *)
EXTENDS RetentionProps, TLC

CONSTANTS a, b

\* stderr overflows its pipe while stdout says nothing
Output == "stdout" :> <<>> @@ "stderr" :> <<a, b>>

Days == 1 :> 1 @@ 2 :> 2
==============================================================================
