-------------------------------- MODULE Tcb --------------------------------
(***************************************************************************)
(* One TCB in an arbitrary environment: the peer may send any segment of   *)
(* Segments at any time, the application may call the socket whenever a    *)
(* handler of its own runs.  The io_context has one thread, so handlers are*)
(* atomic and the posted ones run in the order they were posted; the       *)
(* handler that reads the device can come between any two of them.         *)
(***************************************************************************)
EXTENDS Application

CONSTANTS
    Segments,   \* what the peer may send
    Bufs,       \* what the application may write
    Isns,       \* the initial sequence numbers generate_isn() may return
    UninitMss,  \* the values an uninitialised send_.state.mss may have
    MyMss,      \* 1446 in the code
    MaxPosted   \* bound: no arrival or call is taken with more posted handlers

ASSUME TcbEnvironment ==
    /\ Segments \subseteq Segment
    /\ Bufs \subseteq Seq(Byte)
    /\ Isns \subseteq SeqNr
    /\ UninitMss \subseteq Nat
    /\ MyMss \in Nat
    /\ MaxPosted \in Nat

VARIABLES
    tcb,        \* the TCB
    ioq,        \* the handlers it posted to the io_context and that did not run
    sock,       \* does the application hold a socket with this TCB
    abort,      \* the assert that ended the program, or "none"
    out,        \* the segments enqueued by the last step
    notified    \* how often on_connection_established_ was posted

vars == <<tcb, ioq, sock, abort, out, notified>>

-----------------------------------------------------------------------------

\* tcb_manager creates a TCB for the first segment of a peer (LISTEN) or for
\* async_connect, which calls start_connecting at once.
Init ==
    /\ \E m \in UninitMss :
        \/ tcb = new_tcb("Listen", m) /\ out = <<>>
        \/ \E isn \in Isns :
            LET c == start_connecting(Call(new_tcb("Connecting", m)), isn, MyMss)
            IN  tcb = c.tcb /\ out = c.out
    /\ ioq = <<>>
    /\ sock = FALSE
    /\ abort = "none"
    /\ notified = 0

\* Is on_connection_established_ among the handlers of q.
Reports(q) == \E i \in DOMAIN q : q[i].kind = "established"

\* The step leaves context c behind, q being the handlers still waiting.
Commit(c, q) ==
    /\ tcb' = c.tcb
    /\ ioq' = q \o c.posts
    /\ abort' = c.abort
    /\ out' = c.out
    /\ notified' = IF Reports(c.posts) THEN notified + 1 ELSE notified

Running == abort = "none"

\* The device handler hands a segment of the peer to process().
Receive(s) ==
    /\ Running
    /\ Len(ioq) <= MaxPosted
    /\ \E isn \in Isns, una \in clamp(s.ack_no, tcb.seq_nr_unack, tcb.seq_nr_next) :
            Commit(process(Call(tcb), s, isn, una), ioq)
    /\ UNCHANGED sock

\* A handler of the application's own calls the socket.
AppCall ==
    /\ Running
    /\ sock
    /\ Len(ioq) <= MaxPosted
    /\ \E call \in Calls(tcb, Bufs) \ {Idle} : Commit(app_call(Call(tcb), call), ioq)
    /\ UNCHANGED sock

Next_handler(kind) ==
    /\ Running
    /\ ioq # <<>>
    /\ Head(ioq).kind = kind

\* on_connection_established_: the socket gets the TCB, then the application's
\* callback runs.
RunEstablished ==
    /\ Next_handler("established")
    /\ sock' = TRUE
    /\ \E call \in Calls(tcb, Bufs) : Commit(app_call(Call(tcb), call), Tail(ioq))

RunRead ==
    /\ Next_handler("read")
    /\ \E call \in Calls(tcb, Bufs) : Commit(read_handler(Call(tcb), call), Tail(ioq))
    /\ UNCHANGED sock

RunWrite ==
    /\ Next_handler("write")
    /\ \E call \in Calls(tcb, Bufs) : Commit(app_call(Call(tcb), call), Tail(ioq))
    /\ UNCHANGED sock

RunSendAppData ==
    /\ Next_handler("send_app_data")
    /\ Commit(send_app_data(Call(tcb)), Tail(ioq))
    /\ UNCHANGED sock

Next ==
    \/ \E s \in Segments : Receive(s)
    \/ AppCall
    \/ RunEstablished
    \/ RunRead
    \/ RunWrite
    \/ RunSendAppData

Spec == Init /\ [][Next]_vars

-----------------------------------------------------------------------------
(* Properties *)

\* Every variable has its type: a TCB whose sequence numbers stay in 0..2^32-1,
\* posted handlers and enqueued segments that are well formed.
TypeOK ==
    /\ tcb \in TcbT
    /\ ioq \in Seq(Handler)
    /\ sock \in BOOLEAN
    /\ abort \in Assertion
    /\ out \in Seq(Segment)
    /\ notified \in Nat

\* The pairs of state_ and next_state_ a TCB can be in between two handlers.
\* No method closes a connection, so FIN-WAIT-1, FIN-WAIT-2, CLOSING, LAST-ACK
\* and CLOSED are never entered, and next_state_ runs ahead of state_ only in
\* SYN-SENT and in CLOSE-WAIT.  "Enter the CLOSE-WAIT state" and "Remain in the
\* CLOSE-WAIT state", the comments of the FIN cases, ask for CLOSE-WAIT in both,
\* which the pairs allow; their fall-through leaves TIME-WAIT in next_state_, to
\* which the next segment sent moves the TCB.
StatePairs ==
    {<<"Listen", "Listen">>, <<"SynSent", "Established">>,
     <<"SynReceived", "SynReceived">>, <<"Established", "Established">>,
     <<"CloseWait", "CloseWait">>, <<"CloseWait", "TimeWait">>, <<"TimeWait", "TimeWait">>}
Lifecycle == <<tcb.state, tcb.next_state>> \in StatePairs

Handshake == {"Listen", "SynSent", "SynReceived"}
\* listen_finish() runs at most once per TCB and not before the handshake is over;
\* until then no handler of the TCB waits, so none can send a segment that would
\* move it on, and the application holds a socket only after the report: a peer
\* that repeats or reorders segments never makes one connection look like two.
NotifiedOnce ==
    /\ notified <= 1
    /\ tcb.state \in Handshake => notified = 0 /\ ioq = <<>>
    /\ sock \/ Reports(ioq) => notified = 1

in_flight(t) == Sub(t.seq_nr_next, t.seq_nr_unack)

\* What is in flight never exceeds the window the peer announced with its SYN
\* (the SYN itself aside), whatever it acknowledges later, and neither does the
\* send queue.  The code never compares anything with the send window when it
\* sends: the bound is only implied by the capacity of the send queue and by how
\* acknowledgments empty it.
FlightBounded(t) ==
    /\ Len(t.snd_pq) <= t.snd_cap
    /\ in_flight(t) <= 1 \/ in_flight(t) <= t.snd_cap
InFlightBounded ==
    /\ FlightBounded(tcb)
    /\ tcb.state = "SynSent" => in_flight(tcb) <= 1

\* While a read waits there is no received data it could have been given, which
\* is what assert(rcv_.pq->empty()) relies on: it never fails, whatever the
\* peer sends, as long as at most one read waits at a time.
WaitingReadMeansNoData ==
    /\ tcb.on_data_receive # <<>> => tcb.rcv_pq = <<>>
    /\ abort # "rcv_pq_not_empty"

FinTaken == tcb.state \in {"CloseWait", "TimeWait"}

\* What comes behind the FIN, an old segment or one out of order, is never taken
\* for text of the stream, in whichever state the handlers that still wait leave
\* the TCB.  A read that waits at the FIN then waits for ever: the comment of
\* the FIN step, "return any pending RECEIVEs", is not what the code does.
NothingAfterFin ==
    [][FinTaken => LET waiting == tcb.on_data_receive
                   IN  /\ Len(tcb'.rcv_pq) <= Len(tcb.rcv_pq)
                       /\ Len(tcb'.on_data_receive) >= Len(waiting)
                       /\ SubSeq(tcb'.on_data_receive, 1, Len(waiting)) = waiting]_vars

-----------------------------------------------------------------------------
(* Refinement *)

Abstract == INSTANCE TcbLife WITH
    life <- [state |-> tcb.state, notified |-> notified > 0]

\* Whatever the peer and the application do, every handler moves the TCB along
\* the abstract life cycle, and on_connection_established_ is posted exactly in
\* the step that ends the handshake: what tcb_manager builds on.
ImplementsTcbLife == Abstract!Spec

=============================================================================
