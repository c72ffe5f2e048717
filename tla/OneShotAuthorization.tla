------------------------ MODULE OneShotAuthorization -------------------------
(***************************************************************************)
(* What the OAuth endpoints promise for one authorization, named by the    *)
(* nonce of its signed state: it is issued once, redeemed by at most one   *)
(* callback, and then either connects the user or is spent for good.  An   *)
(* authorization that has not connected does not survive the process.      *)
(***************************************************************************)
CONSTANT Nonce

VARIABLE status   \* of each authorization

Status == {"none", "issued", "redeemed", "connected", "spent"}

Init == status = [n \in Nonce |-> "none"]

Move(n, from, to) == status[n] = from /\ status' = [status EXCEPT ![n] = to]

Issue(n)   == Move(n, "none", "issued")
Redeem(n)  == Move(n, "issued", "redeemed")
Connect(n) == Move(n, "redeemed", "connected")
Spend(n)   == Move(n, "redeemed", "spent")

\* The process stops.
Lose ==
  status' = [n \in Nonce |-> IF status[n] \in {"issued", "redeemed"} THEN "spent" ELSE status[n]]

Next ==
  \/ \E n \in Nonce : Issue(n) \/ Redeem(n) \/ Connect(n) \/ Spend(n)
  \/ Lose

Spec == Init /\ [][Next]_status
==============================================================================
