------------------------- MODULE MCClientRegistration ------------------------
(* TLC instance of ClientRegistration: starts are interchangeable.         *)
EXTENDS ClientRegistration, TLC

MCSymmetry == Permutations(Start) \cup Permutations(View)
==============================================================================
