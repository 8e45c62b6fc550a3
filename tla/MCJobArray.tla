----------------------------- MODULE MCJobArray -----------------------------
(* JobArray for TLC: up to three tokens, of one and of two digits, without a *)
(* first index, an end or a step, that overlap in every way.                *)
EXTENDS JobArray

MCTokens ==
    {t \in [lower : {0, 2, 9}, dash : BOOLEAN, upper : {0, 3, 10}, step : {0, 2}] :
        /\ t.dash \/ (t.upper = 0 /\ t.step = 0)
        /\ t.upper = 0 \/ t.lower <= t.upper}

MCTokenLists == {<<>>} \cup UNION {[1 .. n -> MCTokens] : n \in 1 .. 3}
=============================================================================
