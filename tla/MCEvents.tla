------------------------------ MODULE MCEvents ------------------------------
EXTENDS EventReport

(* A measurement: the settings that are on, the samples where the          *)
(* difference leaves the noise, the saturated samples                      *)
Input(on, out, s) ==
    [conf |-> [k \in {"manual", "long", "wide", "concat", "upload"} |-> k \in on],
     delta |-> [i \in Pos |-> IF i \in DOMAIN out THEN out[i] ELSE 0],
     sat |-> s]

MCInputs ==
    {Input({"upload"}, 0 :> 1 @@ 1 :> -1 @@ 5 :> 1 @@ 6 :> 1, {0, 1}),
     Input({"upload"}, 0 :> 1 @@ 3 :> 1 @@ 7 :> -1, {4, 5, 7, 8}),
     Input({"upload"}, 0 :> 1 @@ 4 :> 1 @@ 8 :> -1 @@ 12 :> 1 @@ 16 :> 1, {}),
     Input({"upload", "long"}, 0 :> 1 @@ 3 :> 1 @@ 6 :> 1 @@ 9 :> 1 @@ 13 :> 1
                               @@ [i \in 17 .. 20 |-> 1], {}),
     Input({"upload"}, <<>>, {4, 5}),
     Input({"upload", "long", "wide"}, 0 :> 1 @@ 5 :> 1 @@ 6 :> 1, {}),
     Input({"upload", "long", "wide"}, <<>>, {0, 1}),
     Input({"upload", "concat"}, 0 :> 2 @@ 2 :> 1 @@ 6 :> -1 @@ 9 :> 1, {5, 6}),
     Input({"upload", "concat"}, 0 :> 2 @@ 2 :> -1, {0}),
     Input({"upload", "manual"}, 0 :> 1, {}),
     Input({"long"}, 1 :> 1 @@ 2 :> -1, {1, 2})}
=============================================================================
