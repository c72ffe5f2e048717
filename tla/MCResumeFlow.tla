----------------------------- MODULE MCResumeFlow ----------------------------
(* TLC instance of ResumeFlow: turns and users are interchangeable.        *)
EXTENDS ResumeFlow, TLC

MCSymmetry == Permutations(Turn) \cup Permutations(User)
==============================================================================
