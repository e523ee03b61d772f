----------------------------- MODULE MCOnboarding -----------------------------
(* Instances of Onboarding for TLC. *)
EXTENDS OnboardingProps, TLC

CONSTANTS a, b, k, s, u1, u2, c1

Table     == <<a, k, s, b>>   \* the partition columns lie between the others
Existing  == {<<b, a>>}       \* not the order of the source
AllInt    == a :> {"I"} @@ b :> {"I", "I2"} @@ s :> {"I"} @@ k :> {"I"}
CharKey   == a :> {"I"} @@ b :> {"D", "I"} @@ s :> {"I"} @@ k :> {"CV", "CF"}
Mixed     == a :> {"I", "CV"} @@ b :> {"I"} @@ s :> {"I"} @@ k :> {"I"}
AllTypes  == {AllInt, CharKey, Mixed}
PlanOrder == <<u1, u2>>
RowsOf    == u1 :> 2 @@ u2 :> 1
==============================================================================
