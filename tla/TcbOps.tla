------------------------------- MODULE TcbOps -------------------------------
(***************************************************************************)
(* The operations of one TCP control block, tcb_t (mstack/tcb.cpp), as     *)
(* operators over records: no variables, no scheduling.  Every method that *)
(* changes a TCB maps a CONTEXT to a context.  A context holds the TCB, the*)
(* handlers the method posted to the io_context, the segments it enqueued  *)
(* towards the network, whether process() has returned early and which     *)
(* assert() failed, if any (the default build is Debug, so a failed assert *)
(* ends the program).                                                      *)
(*                                                                         *)
(* Sequence numbers are uint32_t in the code: every + and - on two of them *)
(* wraps modulo SeqSpace, every comparison is the plain one of C++.        *)
(*                                                                         *)
(* A definition whose name ends in _faulty is its namesake with one mistake*)
(* in it.  No other definition uses it: it stands beside the correct one to*)
(* show that the properties notice the mistake.                            *)
(***************************************************************************)
EXTENDS Integers, Sequences

CONSTANTS
    SeqSpace,     \* 2^32 in the code: the size of the sequence number space
    RcvWindow,  \* 0xFAF0 in the code: receive window and receive queue capacity
    Byte        \* what applications send to each other

ASSUME TcbConstants ==
    /\ SeqSpace \in Nat
    /\ RcvWindow \in Nat
    /\ 0 < RcvWindow
    /\ RcvWindow < SeqSpace

-----------------------------------------------------------------------------
(* The data *)

SeqNr == 0 .. SeqSpace - 1

TcpState == {"Closed", "Connecting", "Listen", "SynSent", "SynReceived",
             "Established", "FinWait_1", "FinWait_2", "CloseWait", "Closing",
             "LastAck", "TimeWait"}

\* The header bits process() looks at.  PSH and URG have no effect on a TCB.
Flag == {"SYN", "ACK", "RST", "FIN"}

\* The mss field of a segment whose options hold no MSS option.
NoMss == -1

\* A TCP segment after tcp_header_t::consume_from_net and decode_options.
\* window is a uint16_t, far below SeqSpace.
Segment == [flags: SUBSET Flag, seq_no: SeqNr, ack_no: SeqNr, window: SeqNr,
            mss: Nat \cup {NoMss}, data: Seq(Byte)]

\* tcb_t: the fields of send_, rcv_ and the state pair that some method reads.
\* snd_cap is the capacity of send_.pq, on_data_receive the sizes of the
\* buffers of the reads that wait for data.
TcbT == [state: TcpState, next_state: TcpState,
         seq_nr_unack: SeqNr, seq_nr_next: SeqNr, mss: Nat,
         snd_cap: SeqNr, snd_pq: Seq(Byte),
         rcv_next: SeqNr, rcv_pq: Seq(Byte), on_data_receive: Seq(Nat)]

\* What a TCB posts to the io_context; data is what a completed read copied
\* into the buffer of the application.
HandlerKind == {"established", "read", "write", "send_app_data"}
Handler == [kind: HandlerKind, data: Seq(Byte)]
Post(kind, data) == [kind |-> kind, data |-> data]

\* The asserts of tcb.cpp that depend on the state of the TCB.
Assertion == {"none", "snd_overflow", "rcv_overflow", "rcv_pq_not_empty"}

Context == [tcb: TcbT, posts: Seq(Handler), out: Seq(Segment),
            ret: BOOLEAN, abort: Assertion]

\* The context in which a method of TCB t is called.
Call(t) == [tcb |-> t, posts |-> <<>>, out |-> <<>>, ret |-> FALSE,
            abort |-> "none"]

-----------------------------------------------------------------------------
(* C++ arithmetic *)

\* The sum is kept in more than 32 bits.
Add_faulty(a, n) == a + n
Add(a, n) == (a + n) % SeqSpace
Sub(a, b) == (a - b) % SeqSpace
Lesser(a, b) == IF a < b THEN a ELSE b

\* std::clamp.  With hi < lo it is undefined; the library's two forms of it
\* return lo or hi, so both are possible outcomes.
clamp(v, lo, hi) ==
    IF hi < lo THEN {lo, hi}
    ELSE {IF v < lo THEN lo ELSE IF hi < v THEN hi ELSE v}

\* The bytes of a buffer behind its first n.
Drop(s, n) == SubSeq(s, n + 1, Len(s))
Take(s, n) == SubSeq(s, 1, n)

-----------------------------------------------------------------------------
(* Construction *)

\* tcb_t::tcb_t.  send_ is not initialised: m stands for whatever value
\* send_.state.mss happens to have.  The sequence numbers are not read before
\* they are set, and send_.pq does not exist before the SYN exchange.
new_tcb(state, m) ==
    [state |-> state, next_state |-> state, seq_nr_unack |-> 0,
     seq_nr_next |-> 0, mss |-> m, snd_cap |-> 0, snd_pq |-> <<>>,
     rcv_next |-> 0, rcv_pq |-> <<>>, on_data_receive |-> <<>>]

\* tcb_t::start_connecting: the SYN leaves with the MSS option of 1446 bytes.
start_connecting(c, isn, my_mss) ==
    [c EXCEPT
        !.tcb = [@ EXCEPT !.seq_nr_unack = isn, !.seq_nr_next = Add(isn, 1),
                          !.state = "SynSent", !.next_state = "Established"],
        !.out = Append(@, [flags |-> {"SYN"}, seq_no |-> isn, ack_no |-> 0,
                           window |-> RcvWindow, mss |-> my_mss,
                           data |-> <<>>])]

-----------------------------------------------------------------------------
(* Sending *)

\* What is in flight is forgotten.
app_data_unacknowleged_faulty(t) == 0

\* The bytes at the front of the send queue that are sent and not acknowledged.
app_data_unacknowleged(t) ==
    Lesser(Len(t.snd_pq), Sub(t.seq_nr_next, t.seq_nr_unack))

app_data_to_send_left(t) ==
    Lesser(t.mss, Len(t.snd_pq) - app_data_unacknowleged(t))

\* The header and the payload that make_packet builds.
packet(t, seq_no, data) ==
    [flags |-> {"ACK"} \cup (IF t.next_state = "SynReceived" THEN {"SYN"} ELSE {}),
     seq_no |-> seq_no, ack_no |-> t.rcv_next, window |-> RcvWindow,
     mss |-> NoMss, data |-> data]

\* The state is not brought up to the next state.
make_and_send_pkt_faulty(c) ==
    LET t       == c.tcb
        from    == app_data_unacknowleged(t)
        seg_len == app_data_to_send_left(t)
        seq_no  == IF seg_len = 0 THEN t.seq_nr_unack ELSE t.seq_nr_next
    IN  [c EXCEPT
            !.tcb.seq_nr_next = Add(@, seg_len),
            !.out = Append(@, packet(t, seq_no,
                                     SubSeq(t.snd_pq, from + 1, from + seg_len)))]

\* enqueue(make_packet()): at most one MSS of unsent data leaves, and the TCB
\* catches up with its next state.
make_and_send_pkt(c) ==
    LET t       == c.tcb
        from    == app_data_unacknowleged(t)
        seg_len == app_data_to_send_left(t)
        seq_no  == IF seg_len = 0 THEN t.seq_nr_unack ELSE t.seq_nr_next
    IN  [c EXCEPT
            !.tcb = [t EXCEPT !.seq_nr_next = Add(@, seg_len),
                              !.state = t.next_state],
            !.out = Append(@, packet(t, seq_no,
                                     SubSeq(t.snd_pq, from + 1, from + seg_len)))]

\* The handler enqueue_app_data posts: while (has_app_data_to_send())
\* make_and_send_pkt().  The loop cuts the unsent bytes into pieces of one MSS;
\* with an MSS of 0 nothing is ever left to send.
send_app_data(c) ==
    LET t    == c.tcb
        from == app_data_unacknowleged(t)
        left == Len(t.snd_pq) - from
        piece(i) == SubSeq(t.snd_pq, from + (i - 1) * t.mss + 1,
                           Lesser(from + i * t.mss, Len(t.snd_pq)))
    IN  IF app_data_to_send_left(t) = 0 THEN c
        ELSE [c EXCEPT
                !.tcb = [t EXCEPT !.seq_nr_next = Add(@, left),
                                  !.state = t.next_state],
                !.out = @ \o [i \in 1 .. (left + t.mss - 1) \div t.mss |->
                                packet(t, Add(t.seq_nr_next, (i - 1) * t.mss),
                                       piece(i))]]

\* The queue takes what does not fit the peer's window.
async_write_faulty(c, buf) ==
    [c EXCEPT !.tcb.snd_pq = @ \o buf,
              !.posts = @ \o <<Post("send_app_data", <<>>), Post("write", <<>>)>>]

\* Nobody is asked to send what was written.
async_write_unsent_faulty(c, buf) ==
    IF Len(c.tcb.snd_pq) + Len(buf) > c.tcb.snd_cap
    THEN [c EXCEPT !.abort = "snd_overflow"]
    ELSE [c EXCEPT !.tcb.snd_pq = @ \o buf, !.posts = Append(@, Post("write", <<>>))]

\* tcb_t::async_write and enqueue_app_data.
async_write(c, buf) ==
    IF Len(c.tcb.snd_pq) + Len(buf) > c.tcb.snd_cap
    THEN [c EXCEPT !.abort = "snd_overflow"]
    ELSE [c EXCEPT !.tcb.snd_pq = @ \o buf,
                   !.posts = @ \o <<Post("send_app_data", <<>>),
                                    Post("write", <<>>)>>]

-----------------------------------------------------------------------------
(* Receiving *)

\* A read waits although there is data, because there is not enough of it.
async_read_some_faulty(c, size) ==
    LET t == c.tcb
    IN  IF t.rcv_pq # <<>> /\ Len(t.rcv_pq) >= size
        THEN [c EXCEPT
                !.tcb = [t EXCEPT !.rcv_pq = Drop(@, size),
                                  !.rcv_next = Add(@, size)],
                !.posts = Append(@, Post("read", Take(t.rcv_pq, size)))]
        ELSE [c EXCEPT !.tcb.on_data_receive = Append(@, size)]

\* RCV.NXT advances by the size of the buffer, not by what is copied into it.
async_read_some_size_faulty(c, size) ==
    LET t == c.tcb
        n == Lesser(Len(t.rcv_pq), size)
    IN  IF t.rcv_pq # <<>>
        THEN [c EXCEPT
                !.tcb = [t EXCEPT !.rcv_pq = Drop(@, n),
                                  !.rcv_next = Add(@, size)],
                !.posts = Append(@, Post("read", Take(t.rcv_pq, n)))]
        ELSE [c EXCEPT !.tcb.on_data_receive = Append(@, size)]

\* tcb_t::async_read_some with a buffer of size bytes.
async_read_some(c, size) ==
    LET t == c.tcb
        n == Lesser(Len(t.rcv_pq), size)
    IN  IF t.rcv_pq # <<>>
        THEN [c EXCEPT
                !.tcb = [t EXCEPT !.rcv_pq = Drop(@, n),
                                  !.rcv_next = Add(@, n)],
                !.posts = Append(@, Post("read", Take(t.rcv_pq, n)))]
        ELSE [c EXCEPT !.tcb.on_data_receive = Append(@, size)]

listen_finish(c) == [c EXCEPT !.posts = Append(@, Post("established", <<>>))]

\* The MSS option is taken from a SYN that has none.
accept_mss_faulty(t, s) == s.mss

\* The MSS option of a SYN; without one send_.state.mss keeps its value.
accept_mss(t, s) == IF s.mss = NoMss THEN t.mss ELSE s.mss

\* Every segment is discarded without an answer.
tcp_handle_close_state(c) == c

\* The SYN alone establishes the connection.
tcp_handle_listen_state_faulty(c, s, isn) ==
    IF s.flags \cap {"RST", "ACK", "SYN"} # {"SYN"} THEN c
    ELSE make_and_send_pkt(
            [c EXCEPT !.tcb = [@ EXCEPT
                !.mss = accept_mss(c.tcb, s), !.rcv_next = Add(s.seq_no, 1),
                !.snd_cap = s.window, !.snd_pq = <<>>,
                !.seq_nr_next = Add(isn, 1), !.seq_nr_unack = isn,
                !.next_state = "Established"]])

\* The SYN is already reported as a connection.
tcp_handle_listen_state_report_faulty(c, s, isn) ==
    IF s.flags \cap {"RST", "ACK", "SYN"} # {"SYN"} THEN c
    ELSE listen_finish(make_and_send_pkt(
            [c EXCEPT !.tcb = [@ EXCEPT
                !.mss = accept_mss(c.tcb, s), !.rcv_next = Add(s.seq_no, 1),
                !.snd_cap = s.window, !.snd_pq = <<>>,
                !.seq_nr_next = Add(isn, 1), !.seq_nr_unack = isn,
                !.next_state = "SynReceived"]]))

tcp_handle_listen_state(c, s, isn) ==
    IF s.flags \cap {"RST", "ACK", "SYN"} # {"SYN"} THEN c
    ELSE make_and_send_pkt(
            [c EXCEPT !.tcb = [@ EXCEPT
                !.mss = accept_mss(c.tcb, s), !.rcv_next = Add(s.seq_no, 1),
                !.snd_cap = s.window, !.snd_pq = <<>>,
                !.seq_nr_next = Add(isn, 1), !.seq_nr_unack = isn,
                !.next_state = "SynReceived"]])

\* SEG.ACK < SND.NXT instead of =<.
syn_ack_acceptable_faulty(t, s) ==
    /\ {"SYN", "ACK"} \subseteq s.flags
    /\ t.seq_nr_unack <= s.ack_no
    /\ s.ack_no < t.seq_nr_next

\* The condition under which SYN-SENT takes a SYN,ACK.
syn_ack_acceptable(t, s) ==
    /\ {"SYN", "ACK"} \subseteq s.flags
    /\ t.seq_nr_unack <= s.ack_no
    /\ s.ack_no <= t.seq_nr_next

tcp_handle_syn_sent(c, s) ==
    IF ~syn_ack_acceptable(c.tcb, s) THEN c
    ELSE listen_finish(make_and_send_pkt(
            [c EXCEPT !.tcb = [@ EXCEPT
                !.mss = accept_mss(c.tcb, s), !.rcv_next = Add(s.seq_no, 1),
                !.snd_cap = s.window, !.snd_pq = <<>>,
                !.seq_nr_unack = s.ack_no,
                !.state = "Established", !.next_state = "Established"]]))

\* The sequence number test.  In the code the first alternative for a segment
\* with data lacks "SEG.SEQ <": what is left is RCV.NXT + RCV.WND # 0.
tcp_check_segment(t, s) ==
    LET seglen == Len(s.data)
        last   == Add(s.seq_no, seglen - 1)
        edge   == Add(t.rcv_next, RcvWindow)
    IN  /\ t.state \in {"SynReceived", "Established", "FinWait_1", "FinWait_2",
                        "CloseWait", "Closing", "LastAck", "TimeWait"}
        /\ IF seglen = 0
           THEN t.rcv_next <= s.seq_no /\ s.seq_no < edge
           ELSE \/ t.rcv_next <= s.seq_no /\ edge # 0
                \/ t.rcv_next <= last /\ last < edge

\* One byte too many is erased.
take_ack_faulty(t, s, una) ==
    [t EXCEPT
        !.snd_pq = Drop(@, Lesser(Len(@), Sub(s.ack_no, t.seq_nr_unack) + 1)),
        !.seq_nr_unack = una]

\* What an ACK does to the send queue and to SND.UNA.  The distance from SND.UNA
\* wraps when SEG.ACK is behind it.  una is an outcome of the clamp of SEG.ACK
\* between SND.UNA and SND.NXT.
take_ack(t, s, una) ==
    [t EXCEPT
        !.snd_pq = Drop(@, Lesser(Len(@), Sub(s.ack_no, t.seq_nr_unack))),
        !.seq_nr_unack = una]

\* Fifth step of process(): the ACK field.
process_ack(c, s, una) ==
    LET t == c.tcb
        acked == take_ack(t, s, una)
    IN  CASE "ACK" \notin s.flags -> c
          [] "ACK" \in s.flags /\ t.state = "SynReceived" ->
                IF t.seq_nr_unack <= s.ack_no /\ s.ack_no <= t.seq_nr_next
                THEN listen_finish([c EXCEPT !.tcb = [t EXCEPT
                        !.seq_nr_unack = una, !.state = "Established",
                        !.next_state = "Established"]])
                ELSE [c EXCEPT !.ret = TRUE]
          [] "ACK" \in s.flags /\ t.state \in {"Established", "FinWait_1",
                                    "FinWait_2", "CloseWait", "Closing"} ->
                IF s.ack_no > t.seq_nr_next
                THEN [make_and_send_pkt([c EXCEPT !.tcb = acked])
                        EXCEPT !.ret = TRUE]
                ELSE [c EXCEPT !.tcb = [acked EXCEPT !.next_state =
                        IF t.state = "FinWait_1" THEN "FinWait_2"
                        ELSE IF t.state = "Closing" THEN "TimeWait" ELSE @]]
          [] "ACK" \in s.flags /\ t.state = "LastAck" ->
                [c EXCEPT !.tcb.next_state = "Closed", !.ret = TRUE]
          [] "ACK" \in s.flags /\ t.state = "TimeWait" -> make_and_send_pkt(c)
          [] OTHER -> c

\* Text is taken whatever its sequence number.
process_text_faulty(c, s) ==
    LET t == c.tcb
        n == Lesser(Len(s.data), Head(t.on_data_receive))
        new_text == /\ s.data # <<>>
                    /\ t.state \in {"Established", "FinWait_1", "FinWait_2"}
    IN  IF c.ret \/ ~new_text THEN c
        ELSE IF t.on_data_receive = <<>>
        THEN IF Len(t.rcv_pq) + Len(s.data) > RcvWindow
             THEN [c EXCEPT !.abort = "rcv_overflow"]
             ELSE [c EXCEPT !.tcb.rcv_pq = @ \o s.data]
        ELSE [c EXCEPT
                !.tcb = [t EXCEPT !.on_data_receive = Tail(@),
                                  !.rcv_next = Add(@, n),
                                  !.rcv_pq = Drop(s.data, n)],
                !.posts = Append(@, Post("read", Take(s.data, n)))]

\* Text is also taken in CLOSE-WAIT.
process_text_late_faulty(c, s) ==
    LET t == c.tcb
        n == Lesser(Len(s.data), Head(t.on_data_receive))
        new_text == /\ s.data # <<>>
                    /\ t.state \in {"Established", "FinWait_1", "FinWait_2", "CloseWait"}
                    /\ s.seq_no >= t.rcv_next + Len(t.rcv_pq)
    IN  IF c.ret \/ ~new_text THEN c
        ELSE IF t.on_data_receive = <<>>
        THEN IF Len(t.rcv_pq) + Len(s.data) > RcvWindow
             THEN [c EXCEPT !.abort = "rcv_overflow"]
             ELSE [c EXCEPT !.tcb.rcv_pq = @ \o s.data]
        ELSE [c EXCEPT
                !.tcb = [t EXCEPT !.on_data_receive = Tail(@),
                                  !.rcv_next = Add(@, n),
                                  !.rcv_pq = Drop(s.data, n)],
                !.posts = Append(@, Post("read", Take(s.data, n)))]

\* Seventh step: the text.  It goes to the first waiting read, the rest to the
\* receive queue.  rcv_.state.next + rcv_.pq->size() is a 64-bit sum.
process_text(c, s) ==
    LET t == c.tcb
        n == Lesser(Len(s.data), Head(t.on_data_receive))
        new_text == /\ s.data # <<>>
                    /\ t.state \in {"Established", "FinWait_1", "FinWait_2"}
                    /\ s.seq_no >= t.rcv_next + Len(t.rcv_pq)
    IN  IF c.ret \/ ~new_text THEN c
        ELSE IF t.on_data_receive = <<>>
        THEN IF Len(t.rcv_pq) + Len(s.data) > RcvWindow
             THEN [c EXCEPT !.abort = "rcv_overflow"]
             ELSE [c EXCEPT !.tcb.rcv_pq = @ \o s.data]
        ELSE IF t.rcv_pq # <<>>
        THEN [c EXCEPT !.abort = "rcv_pq_not_empty"]
        ELSE [c EXCEPT
                !.tcb = [t EXCEPT !.on_data_receive = Tail(@),
                                  !.rcv_next = Add(@, n),
                                  !.rcv_pq = Drop(s.data, n)],
                !.posts = Append(@, Post("read", Take(s.data, n)))]

\* Eighth step: the FIN bit.  The cases fall through, so whatever the state the
\* FIN was taken in, the next state ends up as TIME-WAIT.
process_fin(c, s) ==
    LET t == c.tcb
        in_close_wait == make_and_send_pkt([c EXCEPT !.tcb = [t EXCEPT
                            !.rcv_next = Add(@, 1),
                            !.next_state = "CloseWait"]])
    IN  CASE c.ret \/ c.abort # "none" \/ "FIN" \notin s.flags -> c
          [] OTHER ->
                IF t.state \in {"SynReceived", "Established"}
                THEN [in_close_wait EXCEPT !.tcb.next_state = "TimeWait"]
                ELSE IF t.state \in {"FinWait_1", "FinWait_2"}
                THEN [c EXCEPT !.tcb.next_state = "TimeWait"]
                ELSE c

\* tcb_t::process.  isn is what generate_isn() returns, una the outcome of the
\* clamp in the ACK step.  RST and SYN end the processing in every state that
\* passes the sequence check.
process(c, s, isn, una) ==
    CASE c.tcb.state = "Closed"  -> tcp_handle_close_state(c)
      [] c.tcb.state = "Listen"  -> tcp_handle_listen_state(c, s, isn)
      [] c.tcb.state = "SynSent" -> tcp_handle_syn_sent(c, s)
      [] OTHER ->
            IF ~tcp_check_segment(c.tcb, s) \/ s.flags \cap {"RST", "SYN"} # {}
            THEN c
            ELSE process_fin(process_text(process_ack(c, s, una), s), s)

=============================================================================
