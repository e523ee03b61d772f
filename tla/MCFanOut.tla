------------------------------- MODULE MCFanOut -------------------------------
(* Instances of FanOut for TLC. *)
EXTENDS FanOutProps, TLC

CONSTANTS u1, u2, u3, p1, p2, r1, r2, r3

\* two load tables: u1 and u2 write the same partition value, u3 another
SharedPaths == u1 :> p1 @@ u2 :> p1 @@ u3 :> p2
SharedRows  == r1 :> u1 @@ r2 :> u2 @@ r3 :> u3
===============================================================================
