----------------------------- MODULE MCGraphics -----------------------------
(* Instances of Graphics for TLC. *)
EXTENDS Graphics

WindowSizes == {<<5, 3>>, <<4, 8>>}

TtySizes == {<<1, 2, 4>>, <<3, 2, 4>>, <<3, 2, 2>>}

TwoViews == {[v |-> 1, persp |-> FALSE], [v |-> 2, persp |-> TRUE]}

Lights(n_dir, n_point, shadows, v) ==
    [n_dir |-> n_dir, n_point |-> n_point, shadows |-> shadows, v |-> v]
ThreeLights == {Lights(1, 1, TRUE, 1), Lights(1, 2, TRUE, 2), Lights(1, 1, FALSE, 2)}
=============================================================================
