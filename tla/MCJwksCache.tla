----------------------------- MODULE MCJwksCache ------------------------------
(* Two requests, two RSA keys and one of another kind. *)
EXTENDS JwksCache, TLC

CONSTANTS k1, k2, e1, r1, r2

Symm == Permutations(Requests) \cup Permutations(Usable)
===============================================================================
