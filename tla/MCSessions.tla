----------------------------- MODULE MCSessions -----------------------------
(* Two browsers of one user, requests that are interchangeable. *)
EXTENDS Sessions, TLC

Symmetry == Permutations(Requests) \union Permutations(Browsers)
=============================================================================
