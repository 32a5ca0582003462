------------------------------ MODULE Channel ------------------------------
(***************************************************************************)
(* What the layers below IPv4 and ARP and the device promise together: one *)
(* FIFO channel.                                                           *)
(***************************************************************************)
EXTENDS Naturals, Sequences

VARIABLES
    queue,  \* what has been put in and has not come out
    out     \* what has come out

vars == <<queue, out>>

Init == queue = <<>> /\ out = <<>>

\* One handler may put in several frames, such as the ones that waited for the
\* same ARP reply.
Put ==
    /\ Len(queue') > Len(queue)
    /\ SubSeq(queue', 1, Len(queue)) = queue
    /\ UNCHANGED out

Deliver ==
    /\ queue # <<>>
    /\ out' = Append(out, Head(queue))
    /\ queue' = Tail(queue)

Next == Put \/ Deliver

Spec == Init /\ [][Next]_vars

=============================================================================
