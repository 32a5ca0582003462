----------------------------- MODULE Connection -----------------------------
(***************************************************************************)
(* Two hosts that both run mstack and share one TCP connection: the client *)
(* connects, the server has an acceptor whose rule matches.  Each host is  *)
(* one io_context with one thread: its handlers are atomic and run in the  *)
(* order they were posted.  The device read completes into the same queue  *)
(* and is started again only when its handler returns, so at most one      *)
(* received segment waits there.                                           *)
(*                                                                         *)
(* The layers under the TCB deliver in order; what the network itself may  *)
(* do to the segments on their way is given by Faults.                     *)
(***************************************************************************)
EXTENDS Application, SequencesExt

CONSTANTS
    ClientBytes, ServerBytes,   \* bound: what each application writes in all
    MaxWrite,                   \* bound: what it writes with one call
    Isns, UninitMss, MyMss,     \* as in Tcb
    Faults,                     \* which of the FaultKinds the network has
    MaxFaults                   \* bound: how many of them happen

FaultKinds == {"lose", "duplicate", "swap"}

ASSUME ConnectionConstants ==
    /\ {ClientBytes, ServerBytes, MaxWrite, MyMss, MaxFaults} \subseteq Nat
    /\ Isns \subseteq SeqNr
    /\ UninitMss \subseteq Nat
    /\ Faults \subseteq FaultKinds
    /\ 1 .. ClientBytes + ServerBytes \subseteq Byte

Node == {"client", "server"}
Peer(n) == IF n = "client" THEN "server" ELSE "client"

VARIABLES
    tcb,        \* the TCB of each host; "Closed" while tcbs_ holds none
    ioq,        \* the handlers in its io_context
    net,        \* the segments on their way to it
    sock,       \* does its application hold a connected socket
    abort,      \* the assert that ended it, or "none"
    written,    \* how many bytes its application has written
    got,        \* the bytes its application has read
    faults      \* how often the network has had each kind of fault

vars == <<tcb, ioq, net, sock, abort, written, got, faults>>

RxHandler == [kind: {"rx"}, seg: Segment]

-----------------------------------------------------------------------------

Init ==
    /\ tcb = [n \in Node |-> new_tcb("Closed", 0)]
    /\ ioq = [n \in Node |-> <<>>]
    /\ net = [n \in Node |-> <<>>]
    /\ sock = [n \in Node |-> FALSE]
    /\ abort = [n \in Node |-> "none"]
    /\ written = [n \in Node |-> 0]
    /\ got = [n \in Node |-> <<>>]
    /\ faults = [k \in FaultKinds |-> 0]

\* Bytes carry their position in the stream of the application that wrote them.
NextBufs(n) ==
    LET budget == IF n = "client" THEN ClientBytes ELSE ServerBytes
    IN  {[i \in 1 .. k |-> written[n] + i] :
            k \in {j \in 1 .. MaxWrite : written[n] + j <= budget}}

\* A step of host n leaves context c behind, with q the handlers that still wait.
Commit(n, c, q) ==
    /\ tcb' = [tcb EXCEPT ![n] = c.tcb]
    /\ ioq' = [ioq EXCEPT ![n] = q \o c.posts]
    /\ net' = [net EXCEPT ![Peer(n)] = @ \o c.out]
    /\ abort' = [abort EXCEPT ![n] = c.abort]

Wrote(n, call, c) ==
    written' = [written EXCEPT ![n] = IF c.abort = "none" THEN @ + Len(call.buf) ELSE @]

Next_handler(n, kind) ==
    /\ abort[n] = "none"
    /\ ioq[n] # <<>>
    /\ Head(ioq[n]).kind = kind

\* tcb_manager::async_connect.
async_connect ==
    /\ tcb["client"].state = "Closed"
    /\ abort["client"] = "none"
    /\ \E isn \in Isns, m \in UninitMss :
            Commit("client", start_connecting(Call(new_tcb("Connecting", m)), isn, MyMss),
                   ioq["client"])
    /\ UNCHANGED <<sock, written, got, faults>>

\* The device has read a frame: its handler joins the queue.
RxReady(n) ==
    /\ abort[n] = "none"
    /\ net[n] # <<>>
    /\ \A i \in DOMAIN ioq[n] : ioq[n][i].kind # "rx"
    /\ ioq' = [ioq EXCEPT ![n] = Append(@, [kind |-> "rx", seg |-> Head(net[n])])]
    /\ net' = [net EXCEPT ![n] = Tail(@)]
    /\ UNCHANGED <<tcb, sock, abort, written, got, faults>>

\* tcb_manager::process: the TCB of the segment's two ends, which on the server
\* is created by the first segment the rule matches, processes it.
lookup(n) ==
    IF n = "server" /\ tcb[n].state = "Closed"
    THEN {new_tcb("Listen", m) : m \in UninitMss}
    ELSE {tcb[n]}

RunRx(n) ==
    /\ Next_handler(n, "rx")
    /\ LET s == Head(ioq[n]).seg
       IN  \E t \in lookup(n), isn \in Isns :
            \E una \in clamp(s.ack_no, t.seq_nr_unack, t.seq_nr_next) :
                Commit(n, process(Call(t), s, isn, una), Tail(ioq[n]))
    /\ UNCHANGED <<sock, written, got, faults>>

RunEstablished(n) ==
    /\ Next_handler(n, "established")
    /\ sock' = [sock EXCEPT ![n] = TRUE]
    /\ \E call \in Calls(tcb[n], NextBufs(n)) :
            LET c == app_call(Call(tcb[n]), call)
            IN  Commit(n, c, Tail(ioq[n])) /\ Wrote(n, call, c)
    /\ UNCHANGED <<got, faults>>

RunRead(n) ==
    /\ Next_handler(n, "read")
    /\ got' = [got EXCEPT ![n] = @ \o Head(ioq[n]).data]
    /\ \E call \in Calls(tcb[n], NextBufs(n)) :
            LET c == read_handler(Call(tcb[n]), call)
            IN  Commit(n, c, Tail(ioq[n])) /\ Wrote(n, call, c)
    /\ UNCHANGED <<sock, faults>>

RunWrite(n) ==
    /\ Next_handler(n, "write")
    /\ \E call \in Calls(tcb[n], NextBufs(n)) :
            LET c == app_call(Call(tcb[n]), call)
            IN  Commit(n, c, Tail(ioq[n])) /\ Wrote(n, call, c)
    /\ UNCHANGED <<sock, got, faults>>

RunSendAppData(n) ==
    /\ Next_handler(n, "send_app_data")
    /\ Commit(n, send_app_data(Call(tcb[n])), Tail(ioq[n]))
    /\ UNCHANGED <<sock, written, got, faults>>

\* A handler of the application's own makes the call.
AppCall(n, op) ==
    /\ abort[n] = "none"
    /\ sock[n]
    /\ \E call \in {k \in Calls(tcb[n], NextBufs(n)) : k.op = op} :
            LET c == app_call(Call(tcb[n]), call)
            IN  Commit(n, c, ioq[n]) /\ Wrote(n, call, c)
    /\ UNCHANGED <<sock, got, faults>>

-----------------------------------------------------------------------------
(* The network: external, known by what the code must cope with *)

Fault(kind) ==
    /\ kind \in Faults
    /\ faults["lose"] + faults["duplicate"] + faults["swap"] < MaxFaults
    /\ faults' = [faults EXCEPT ![kind] = @ + 1]
    /\ UNCHANGED <<tcb, ioq, sock, abort, written, got>>

Lose(n) ==
    /\ Fault("lose")
    /\ \E i \in DOMAIN net[n] : net' = [net EXCEPT ![n] = RemoveAt(@, i)]

Duplicate(n) ==
    /\ Fault("duplicate")
    /\ \E i \in DOMAIN net[n] : net' = [net EXCEPT ![n] = InsertAt(@, i, @[i])]

Swap(n) ==
    /\ Fault("swap")
    /\ \E i \in 1 .. Len(net[n]) - 1 :
            net' = [net EXCEPT ![n] = [@ EXCEPT ![i] = net[n][i + 1], ![i + 1] = net[n][i]]]

-----------------------------------------------------------------------------

RunHandler(n) ==
    \/ RunRx(n)
    \/ RunEstablished(n)
    \/ RunRead(n)
    \/ RunWrite(n)
    \/ RunSendAppData(n)

Next ==
    \/ async_connect
    \/ \E n \in Node :
        \/ RxReady(n)
        \/ RunHandler(n)
        \/ AppCall(n, "read")
        \/ AppCall(n, "write")
        \/ Lose(n)
        \/ Duplicate(n)
        \/ Swap(n)

Spec == Init /\ [][Next]_vars

\* The io_context runs what is posted and reads the device whenever a frame is
\* there; the client application connects and both applications keep reading.
Fairness ==
    /\ WF_vars(async_connect)
    /\ \A n \in Node : /\ WF_vars(RxReady(n))
                       /\ WF_vars(RunHandler(n))
                       /\ WF_vars(AppCall(n, "read"))

FairSpec == Spec /\ Fairness

-----------------------------------------------------------------------------
(* Properties *)

TypeOK ==
    /\ tcb \in [Node -> TcbT]
    /\ ioq \in [Node -> Seq(Handler \cup RxHandler)]
    /\ net \in [Node -> Seq(Segment)]
    /\ sock \in [Node -> BOOLEAN]
    /\ abort \in [Node -> Assertion]
    /\ written \in [Node -> Nat]
    /\ got \in [Node -> Seq(Byte)]
    /\ faults \in [FaultKinds -> Nat]

\* The text that the completed reads in the queue q of an io_context hold.
ReadText(q) ==
    FlattenSeq([i \in DOMAIN q |-> IF q[i].kind = "read" THEN q[i].data ELSE <<>>])

\* Everything host n has taken out of the network, in stream order: what the
\* application has, what completed reads are about to give it, what is queued.
Received(n) == got[n] \o ReadText(ioq[n]) \o tcb[n].rcv_pq

\* The segments on their way to host n: the one its device has read, if there is
\* one, and those still in the network.
Line(n) ==
    LET rx == {h \in Range(ioq[n]) : h.kind = "rx"}
    IN  (IF rx = {} THEN <<>> ELSE <<(CHOOSE h \in rx : TRUE).seg>>) \o net[n]

\* Their text.
InFlight(n) == FlattenSeq([i \in DOMAIN Line(n) |-> Line(n)[i].data])

Unsent(n) == Drop(tcb[n].snd_pq, app_data_unacknowleged(tcb[n]))

\* Over a network that neither loses nor reorders, every byte written is at
\* each moment in exactly one place and in its place: read, received, on its
\* way or waiting in the send queue, in the order in which it was written.
StreamIntact ==
    \A n \in Node : Received(n) \o InFlight(n) \o Unsent(Peer(n))
                        = [i \in 1 .. written[Peer(n)] |-> i]

\* What a host received is a prefix of what the other one wrote: the comment of
\* tcp_check_segment, "further processing is done in SEG.SEQ order".
ReceivedInOrder ==
    \A n \in Node : /\ Len(Received(n)) <= written[Peer(n)]
                    /\ \A i \in DOMAIN Received(n) : Received(n)[i] = i

\* A byte leaves the send queue only when the other host has it: acknowledgments
\* never make the sender forget what it might have to send again.
NothingForgotten ==
    \A n \in Node : \A i \in 1 .. written[n] :
        i \in Range(tcb[n].snd_pq) \cup Range(Received(Peer(n)))

\* Both hold, and nothing is received twice, when the network only duplicates:
\* the old duplicates that the sequence number test is there to discard, whether
\* the first copy was text, an acknowledgment or part of the handshake.
DuplicatesHarmless ==
    faults["lose"] + faults["swap"] = 0 => ReceivedInOrder /\ NothingForgotten

Synchronised(n) == tcb[n].state = "Established"

\* The two hosts agree on where the stream is, whatever the network does: a host
\* acknowledges only what it received, and receives no more than was sent, so
\* SND.UNA =< RCV.NXT and RCV.NXT plus the queued text =< SND.NXT.
WindowsAgree ==
    \A n \in Node : Synchronised(n) /\ Synchronised(Peer(n)) =>
        LET r == tcb[n]
            s == tcb[Peer(n)]
        IN  /\ s.seq_nr_unack <= r.rcv_next
            /\ r.rcv_next + Len(r.rcv_pq) <= s.seq_nr_next

\* The receive queue never overflows between two such hosts, although neither
\* the sequence number test nor the sender compares anything with the window.
NoReceiveOverflow == \A n \in Node : abort[n] # "rcv_overflow"

\* The server is told of a connection only when the client has established it,
\* whatever became of the segments of the handshake.
ServerAfterClient == Synchronised("server") => Synchronised("client")

\* The handshake ends with a socket on both sides.
Connects == <>(sock["client"] /\ sock["server"])

\* What one application writes, the other one reads.
Delivered ==
    \A n \in Node : (Len(got[Peer(n)]) < written[n]) ~> (Len(got[Peer(n)]) = written[n])

AcknowledgedTo(n) == tcb[n].snd_pq # <<>> ~> tcb[n].snd_pq = <<>>

\* What was written is in the end acknowledged and leaves the send queue, also
\* when the other side writes: the comments of process() have every acknowledgment
\* sent as "<SEQ=SND.NXT><ACK=RCV.NXT><CTL=ACK>", which the writer can accept.
Acknowledged == \A n \in Node : AcknowledgedTo(n)

\* It is when the other side never writes: the read handlers of a host that only
\* reads acknowledge everything.
ReaderAcknowledges ==
    \A n \in Node : [](written[Peer(n)] = 0) => AcknowledgedTo(n)

=============================================================================
