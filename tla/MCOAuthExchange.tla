--------------------------- MODULE MCOAuthExchange ---------------------------
(* TLC instance of OAuthExchange.  Requests are interchangeable: every     *)
(* invariant and the abstract specification treat them alike.              *)
EXTENDS OAuthExchange, TLC

MCSymmetry == Permutations(Request)
==============================================================================
