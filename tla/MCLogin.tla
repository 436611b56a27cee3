------------------------------- MODULE MCLogin -------------------------------
(***************************************************************************)
(* Login for TLC.  Requests, tokens and addresses are interchangeable, and *)
(* no temporal property is checked, so their permutations are symmetries.  *)
(***************************************************************************)
EXTENDS Login, TLC

Symmetry ==
    Permutations(Requests) \cup Permutations(Tokens) \cup Permutations(Addresses)
=============================================================================
