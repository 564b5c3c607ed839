--------------------------- MODULE MCRecommendation --------------------------
(* Small instances of Recommendation for TLC. *)
EXTENDS Recommendation, TLC

CONSTANTS o, a, b, c, ghost

Roads == (o :> {a, b}) @@ (a :> {o, c}) @@ (b :> {o}) @@ (c :> {a})
Looks == ("c1" :> a) @@ ("c2" :> c) @@ ("c3" :> c) @@ ("c4" :> b)
Ids   == <<"c1", "c2", "c3", "c4">>

Op(i, d) == [target |-> i, delta |-> d]
Operations ==
  {<<Op(i, 100)>> : i \in {a, b, c, ghost}}
    \cup {<<Op(a, 5)>>, <<Op(a, 260), Op(c, 250)>>, <<Op(c, 250), Op(c, 100)>>,
          <<Op(ghost, 100), Op(b, 100), Op(a, 100)>>}
Plans == [kind : {"plan"}, certainty : {-1, 100}, operations : Operations]
Answers == {[kind |-> "unavailable"]} \cup Plans
=============================================================================
