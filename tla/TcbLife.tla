------------------------------ MODULE TcbLife ------------------------------
(***************************************************************************)
(* What a TCB promises to the TCB manager: the states it goes through, and *)
(* that it reports an established connection at most once, in the step in  *)
(* which it leaves the handshake.  Tcb implements this specification;      *)
(* TcbManager relies on it.                                                *)
(***************************************************************************)
EXTENDS TcbLifeOps

VARIABLE life

Init == life \in {Born("Listen"), Born("SynSent")}

Next == life' \in Successors(life)

Spec == Init /\ [][Next]_life

=============================================================================
