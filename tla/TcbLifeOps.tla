----------------------------- MODULE TcbLifeOps -----------------------------
(***************************************************************************)
(* The life of a TCB as its users see it: the state and whether its        *)
(* on_connection_established_ callback has been posted.                    *)
(***************************************************************************)

LifeState == {"Listen", "SynSent", "SynReceived", "Established", "CloseWait", "TimeWait"}

Life == [state: LifeState, notified: BOOLEAN]

Born(state) == [state |-> state, notified |-> FALSE]

\* Where one handler can take a TCB.  A FIN without ACK takes SYN-RECEIVED to
\* CLOSE-WAIT with no report; the first segment sent in CLOSE-WAIT completes the
\* move to TIME-WAIT that the FIN has left in next_state_.
Successors(l) ==
    CASE l.state = "Listen" -> {[l EXCEPT !.state = "SynReceived"]}
      [] l.state = "SynSent" -> {[state |-> "Established", notified |-> TRUE]}
      [] l.state = "SynReceived" ->
            {[state |-> "Established", notified |-> TRUE],
             [state |-> "CloseWait", notified |-> TRUE],
             [state |-> "CloseWait", notified |-> FALSE]}
      [] l.state = "Established" -> {[l EXCEPT !.state = "CloseWait"]}
      [] l.state = "CloseWait" -> {[l EXCEPT !.state = "TimeWait"]}
      [] OTHER -> {}

=============================================================================
