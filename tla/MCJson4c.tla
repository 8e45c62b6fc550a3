------------------------------ MODULE MCJson4c ------------------------------
(* Json4c for TLC: strings with quotes side by side, and one that ends in a *)
(* backslash.                                                              *)
EXTENDS Json4c

MCValues == {<<"quote", "quote">>, <<"a", "backslash">>}
=============================================================================
