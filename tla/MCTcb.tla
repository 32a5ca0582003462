------------------------------- MODULE MCTcb -------------------------------
(***************************************************************************)
(* One TCB against every segment of a small sequence number space.         *)
(***************************************************************************)
EXTENDS Tcb

CONSTANTS MaxSeq, MaxAck, MaxData

\* Bits a segment may carry: SYN and SYN,ACK for the handshake, ACK and FIN
\* for the data phase, FIN without ACK and RST as odd ones.
AllFlags == {{"SYN"}, {"SYN", "ACK"}, {"ACK"}, {"FIN", "ACK"}, {"FIN"}, {"RST"}}

AnySegment ==
    {s \in [flags: AllFlags, seq_no: 0 .. MaxSeq, ack_no: 0 .. MaxAck,
            window: {2}, mss: {NoMss, 1},
            data: UNION {[1 .. n -> Byte] : n \in 0 .. MaxData}] :
        /\ "SYN" \in s.flags => s.data = <<>> /\ s.seq_no = 0
        /\ "SYN" \notin s.flags => s.mss = NoMss}

SmallBufs == UNION {[1 .. n -> Byte] : n \in 1 .. 2}

=============================================================================
