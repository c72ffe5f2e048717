------------------------------ MODULE VersionLog ------------------------------
(***************************************************************************)
(* What the versions of prompt documents promise: every document has a log *)
(* of texts, numbered 1, 2, 3 ...; saving appends one, and no version ever *)
(* changes or goes away.                                                   *)
(***************************************************************************)
EXTENDS Naturals, Sequences

CONSTANTS Name, Content

VARIABLE log

LogInit == log = [n \in Name |-> <<>>]

Save(n, c) == log' = [log EXCEPT ![n] = Append(@, c)]

LogNext == \E n \in Name, c \in Content : Save(n, c)

LogSpec == LogInit /\ [][LogNext]_log
==============================================================================
