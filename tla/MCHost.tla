-------------------------------- MODULE MCHost --------------------------------
(* An instance of Host for TLC. *)
EXTENDS HostProps, TLC

CONSTANTS i1, i2, x, v1, v2, v3, o1

Same    == i1 :> x @@ i2 :> x
AtHand  == {<<"app", v2>>, <<"datax", v1>>, <<"datax", v2>>, <<"datax", v3>>}
==============================================================================
