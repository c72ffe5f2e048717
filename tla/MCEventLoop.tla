----------------------------- MODULE MCEventLoop -----------------------------
(* TLC instance of EventLoop: a mention m1, a reply m2 in the thread of m1, *)
(* and a slash command m3.                                                 *)
EXTENDS EventLoop

CONSTANTS m1, m2, m3

MCThreadOf == [m \in Message |-> IF m = m2 THEN m1 ELSE None]
==============================================================================
