---------------------------- MODULE MCNeighbour ----------------------------
(***************************************************************************)
(* Two neighbours, three routing tables, and ARP frames with good and bad  *)
(* MAC addresses, among them one that claims the own address.              *)
(***************************************************************************)
EXTENDS Neighbour

TwoHops == {"h1", "h2"}
Macs == [h \in TwoHops |-> IF h = "h1" THEN "m1" ELSE "m2"]

Routes ==
    {[table |-> [d \in {"d1"} |-> "h1"], default |-> "none"],
     [table |-> [d \in {"d1"} |-> "h1"], default |-> "h2"],
     [table |-> <<>>, default |-> "h1"]}

SomeArp ==
    [oper: {"request", "reply"}, sha: {"m1"}, spa: {"h1"}, tpa: {"me"}]
    \cup [oper: {"request", "reply"}, sha: {"m3"}, spa: {"me"}, tpa: {"h1"}]
    \cup [oper: {"reply"}, sha: {"zero"}, spa: {"h1"}, tpa: {"me"}]

=============================================================================
