----------------------------- MODULE TcbProofs -----------------------------
(***************************************************************************)
(* What holds of one TCB for every value of the constants: any size of the *)
(* sequence number space and of the window, any segments, any application. *)
(* First the types and the bound on what is in flight, then the life cycle:*)
(* the states a TCB goes through, that it reports its connection once, and *)
(* that Tcb implements TcbLife.                                            *)
(***************************************************************************)
EXTENDS Tcb, TcbOpsProofs

-----------------------------------------------------------------------------
(* Type correctness *)

\* A step that leaves a well formed context behind leaves a well formed state.
LEMMA CommitType ==
    ASSUME TypeOK, NEW c \in Context, NEW q \in Seq(Handler), Commit(c, q), sock' \in BOOLEAN
    PROVE  TypeOK'
<1>1. q \o c.posts \in Seq(Handler)
  BY ConcatProperties DEF Context
<1>2. notified' \in Nat
  BY DEF Commit, TypeOK
<1>3. QED
  BY <1>1, <1>2 DEF Commit, TypeOK, Context

\* Every step of Next commits the context of one operation, and leaves a suffix
\* of the handlers that were waiting.
LEMMA StepCommits ==
    ASSUME TypeOK, Next
    PROVE  \E c \in Context, q \in Seq(Handler) : Commit(c, q) /\ sock' \in BOOLEAN
<1>1. tcb \in TcbT /\ Call(tcb) \in Context /\ ioq \in Seq(Handler) /\ sock \in BOOLEAN
  BY CallType DEF TypeOK
<1>2. Bufs \subseteq Seq(Byte)
  BY TcbEnvironment
<1>3. ASSUME NEW s \in Segments, Receive(s)
      PROVE  \E c \in Context, q \in Seq(Handler) : Commit(c, q) /\ sock' \in BOOLEAN
  <2>1. PICK isn \in Isns, una \in clamp(s.ack_no, tcb.seq_nr_unack, tcb.seq_nr_next) :
            Commit(process(Call(tcb), s, isn, una), ioq)
    BY <1>3 DEF Receive
  <2>2. s \in Segment /\ isn \in SeqNr
    BY TcbEnvironment
  <2>3. una \in SeqNr
    BY <1>1, <2>2, ClampType DEF Segment, TcbT
  <2>4. process(Call(tcb), s, isn, una) \in Context
    BY <1>1, <2>2, <2>3, ProcessType
  <2>5. QED
    BY <1>1, <1>3, <2>1, <2>4 DEF Receive
<1>4. ASSUME AppCall
      PROVE  \E c \in Context, q \in Seq(Handler) : Commit(c, q) /\ sock' \in BOOLEAN
  <2>1. PICK call \in Calls(tcb, Bufs) : Commit(app_call(Call(tcb), call), ioq)
    BY <1>4 DEF AppCall
  <2>2. app_call(Call(tcb), call) \in Context
    BY <1>1, <1>2, AppCallType
  <2>3. QED
    BY <1>1, <1>4, <2>1, <2>2 DEF AppCall
<1>5. ASSUME ioq # <<>> PROVE Tail(ioq) \in Seq(Handler)
  BY <1>1, <1>5, HeadTailProperties
<1>6. ASSUME RunEstablished
      PROVE  \E c \in Context, q \in Seq(Handler) : Commit(c, q) /\ sock' \in BOOLEAN
  <2>1. PICK call \in Calls(tcb, Bufs) : Commit(app_call(Call(tcb), call), Tail(ioq))
    BY <1>6 DEF RunEstablished
  <2>2. app_call(Call(tcb), call) \in Context /\ Tail(ioq) \in Seq(Handler)
    BY <1>1, <1>2, <1>5, <1>6, AppCallType DEF RunEstablished, Next_handler
  <2>3. QED
    BY <1>6, <2>1, <2>2 DEF RunEstablished
<1>7. ASSUME RunRead
      PROVE  \E c \in Context, q \in Seq(Handler) : Commit(c, q) /\ sock' \in BOOLEAN
  <2>1. PICK call \in Calls(tcb, Bufs) : Commit(read_handler(Call(tcb), call), Tail(ioq))
    BY <1>7 DEF RunRead
  <2>2. read_handler(Call(tcb), call) \in Context /\ Tail(ioq) \in Seq(Handler)
    BY <1>1, <1>2, <1>5, <1>7, ReadHandlerType DEF RunRead, Next_handler
  <2>3. QED
    BY <1>1, <1>7, <2>1, <2>2 DEF RunRead
<1>8. ASSUME RunWrite
      PROVE  \E c \in Context, q \in Seq(Handler) : Commit(c, q) /\ sock' \in BOOLEAN
  <2>1. PICK call \in Calls(tcb, Bufs) : Commit(app_call(Call(tcb), call), Tail(ioq))
    BY <1>8 DEF RunWrite
  <2>2. app_call(Call(tcb), call) \in Context /\ Tail(ioq) \in Seq(Handler)
    BY <1>1, <1>2, <1>5, <1>8, AppCallType DEF RunWrite, Next_handler
  <2>3. QED
    BY <1>1, <1>8, <2>1, <2>2 DEF RunWrite
<1>9. ASSUME RunSendAppData
      PROVE  \E c \in Context, q \in Seq(Handler) : Commit(c, q) /\ sock' \in BOOLEAN
  <2>1. send_app_data(Call(tcb)) \in Context /\ Tail(ioq) \in Seq(Handler)
    BY <1>1, <1>5, <1>9, SendAppDataType DEF RunSendAppData, Next_handler
  <2>2. QED
    BY <1>1, <1>9, <2>1 DEF RunSendAppData
<1>10. QED
  BY <1>3, <1>4, <1>6, <1>7, <1>8, <1>9 DEF Next

\* A TCB is well formed when tcb_manager has created it.
LEMMA InitType == Init => TypeOK
<1> SUFFICES ASSUME Init PROVE TypeOK
  OBVIOUS
<1>1. PICK m \in UninitMss :
        \/ tcb = new_tcb("Listen", m) /\ out = <<>>
        \/ \E isn \in Isns :
            LET c == start_connecting(Call(new_tcb("Connecting", m)), isn, MyMss)
            IN  tcb = c.tcb /\ out = c.out
  BY DEF Init
<1>2. m \in Nat /\ Isns \subseteq SeqNr
  BY TcbEnvironment
<1>3. new_tcb("Listen", m) \in TcbT /\ new_tcb("Connecting", m) \in TcbT
  BY <1>2, NewTcbType DEF TcpState
<1>4. \A isn \in Isns :
        start_connecting(Call(new_tcb("Connecting", m)), isn, MyMss) \in Context
  BY <1>2, <1>3, CallType, StartConnectingType, TcbEnvironment
<1>5. \A c \in Context : c.tcb \in TcbT /\ c.out \in Seq(Segment)
  BY DEF Context
<1>6. <<>> \in Seq(Handler) /\ <<>> \in Seq(Segment)
  BY EmptySeq
<1>7. tcb \in TcbT /\ out \in Seq(Segment)
  BY <1>1, <1>3, <1>4, <1>5, <1>6
<1>8. QED
  BY <1>6, <1>7 DEF Init, TypeOK, Assertion

\* The TCB, the handlers it posts and the segments it sends are well formed in
\* every state: the type invariant of Tcb, for every value of the constants.
THEOREM TypeCorrect == Spec => []TypeOK
<1>1. TypeOK /\ [Next]_vars => TypeOK'
  <2> SUFFICES ASSUME TypeOK, [Next]_vars PROVE TypeOK'
    OBVIOUS
  <2>1. CASE Next
    <3>1. PICK c \in Context, q \in Seq(Handler) : Commit(c, q) /\ sock' \in BOOLEAN
      BY <2>1, StepCommits
    <3>2. QED
      BY <3>1, CommitType
  <2>2. CASE UNCHANGED vars
    BY <2>2 DEF vars, TypeOK
  <2>3. QED
    BY <2>1, <2>2
<1>2. QED
  BY <1>1, InitType, PTL DEF Spec

-----------------------------------------------------------------------------
(* The amount in flight *)

\* No acknowledgment increases what is in flight, not even when the sequence
\* numbers have wrapped and the bounds of the clamp are crossed.
LEMMA ClampShrinks ==
    ASSUME NEW v \in SeqNr, NEW una \in SeqNr, NEW nxt \in SeqNr, NEW u \in clamp(v, una, nxt)
    PROVE  u \in SeqNr /\ Sub(nxt, u) <= Sub(nxt, una)
<1>1. u \in SeqNr /\ (nxt < una => u \in {una, nxt}) /\ (~(nxt < una) => una <= u /\ u <= nxt)
  BY DEF clamp, SeqNr
<1>2. Sub(nxt, una) = IF nxt >= una THEN nxt - una ELSE nxt - una + SeqSpace
  BY SubExact
<1>3. Sub(nxt, u) = IF nxt >= u THEN nxt - u ELSE nxt - u + SeqSpace
  BY <1>1, SubExact
<1>4. QED
  BY <1>1, <1>2, <1>3, TcbConstants DEF SeqNr

\* The bound only depends on four fields of the TCB.
LEMMA FlightFrame ==
    ASSUME NEW t, NEW u, FlightBounded(t),
           u.seq_nr_next = t.seq_nr_next, u.seq_nr_unack = t.seq_nr_unack,
           u.snd_cap = t.snd_cap, u.snd_pq = t.snd_pq
    PROVE  FlightBounded(u) /\ in_flight(u) = in_flight(t)
  BY DEF FlightBounded, in_flight

\* Sending n unsent bytes of the queue keeps the bound.
LEMMA AdvanceFlight ==
    ASSUME NEW t \in TcbT, FlightBounded(t), NEW n \in Nat,
           n <= Len(t.snd_pq) - app_data_unacknowleged(t)
    PROVE  Sub(Add(t.seq_nr_next, n), t.seq_nr_unack) <= 1
             \/ Sub(Add(t.seq_nr_next, n), t.seq_nr_unack) <= t.snd_cap
<1> DEFINE d == in_flight(t)
<1>1. /\ t.seq_nr_next \in SeqNr /\ t.seq_nr_unack \in SeqNr /\ t.snd_cap \in SeqNr
      /\ Len(t.snd_pq) \in Nat
  BY DEF TcbT
<1>2. d \in SeqNr
  BY <1>1, SubType DEF in_flight
<1>3. Len(t.snd_pq) <= t.snd_cap /\ (d <= 1 \/ d <= t.snd_cap)
  BY DEF FlightBounded
<1>4. app_data_unacknowleged(t) = IF Len(t.snd_pq) < d THEN Len(t.snd_pq) ELSE d
  BY DEF app_data_unacknowleged, Lesser, in_flight
<1> HIDE DEF d
<1>5. n = 0 \/ d + n <= t.snd_cap
  BY <1>1, <1>2, <1>3, <1>4 DEF SeqNr
<1>6. d + n < SeqSpace
  BY <1>1, <1>2, <1>5, TcbConstants DEF SeqNr
<1>7. Sub(Add(t.seq_nr_next, n), t.seq_nr_unack) = d + n
  BY <1>1, <1>6, SendGrows DEF d, in_flight
<1>8. QED
  BY <1>1, <1>2, <1>3, <1>5, <1>7 DEF SeqNr

\* make_and_send_pkt keeps what is in flight within the send queue.
LEMMA MakeAndSendFlight ==
    ASSUME NEW c \in Context, FlightBounded(c.tcb)
    PROVE  FlightBounded(make_and_send_pkt(c).tcb)
<1> DEFINE t == c.tcb
           n == app_data_to_send_left(t)
           u == make_and_send_pkt(c).tcb
<1>1. t \in TcbT
  BY DEF Context
<1>2. n \in Nat /\ n <= Len(t.snd_pq) - app_data_unacknowleged(t)
  BY <1>1, SendSizes
<1>3. u = [t EXCEPT !.seq_nr_next = Add(@, n), !.state = t.next_state]
  BY DEF make_and_send_pkt, Context
<1> HIDE DEF t, n, u
<1>4. /\ u.seq_nr_next = Add(t.seq_nr_next, n) /\ u.seq_nr_unack = t.seq_nr_unack
      /\ u.snd_cap = t.snd_cap /\ u.snd_pq = t.snd_pq
  BY <1>1, <1>3 DEF TcbT
<1>5. \/ Sub(Add(t.seq_nr_next, n), t.seq_nr_unack) <= 1
      \/ Sub(Add(t.seq_nr_next, n), t.seq_nr_unack) <= t.snd_cap
  BY <1>1, <1>2, AdvanceFlight DEF t
<1>6. QED
  BY <1>4, <1>5 DEF FlightBounded, in_flight, t, u

\* The sending loop of enqueue_app_data does too.
LEMMA SendAppDataFlight ==
    ASSUME NEW c \in Context, FlightBounded(c.tcb)
    PROVE  FlightBounded(send_app_data(c).tcb)
<1> DEFINE t == c.tcb
           n == Len(t.snd_pq) - app_data_unacknowleged(t)
           u == send_app_data(c).tcb
<1>1. t \in TcbT
  BY DEF Context
<1>2. n \in Nat /\ n <= Len(t.snd_pq) - app_data_unacknowleged(t)
  BY <1>1, SendSizes
<1>3. u = t \/ u = [t EXCEPT !.seq_nr_next = Add(@, n), !.state = t.next_state]
  BY DEF send_app_data, Context
<1> HIDE DEF t, n, u
<1>4. CASE u = t
  BY <1>4 DEF t, u
<1>5. CASE u = [t EXCEPT !.seq_nr_next = Add(@, n), !.state = t.next_state]
  <2>1. /\ u.seq_nr_next = Add(t.seq_nr_next, n) /\ u.seq_nr_unack = t.seq_nr_unack
        /\ u.snd_cap = t.snd_cap /\ u.snd_pq = t.snd_pq
    BY <1>1, <1>5 DEF TcbT
  <2>2. \/ Sub(Add(t.seq_nr_next, n), t.seq_nr_unack) <= 1
        \/ Sub(Add(t.seq_nr_next, n), t.seq_nr_unack) <= t.snd_cap
    BY <1>1, <1>2, AdvanceFlight DEF t
  <2>3. QED
    BY <2>1, <2>2 DEF FlightBounded, in_flight, t, u
<1>6. QED
  BY <1>3, <1>4, <1>5

\* A call of the application keeps the bound: async_write by its assert.
LEMMA AppCallFlight ==
    ASSUME NEW t, NEW c \in Context, NEW call \in Calls(t, Bufs), FlightBounded(c.tcb)
    PROVE  FlightBounded(app_call(c, call).tcb) /\ in_flight(app_call(c, call).tcb) = in_flight(c.tcb)
<1>1. ASSUME NEW size \in Nat
      PROVE  /\ FlightBounded(async_read_some(c, size).tcb)
             /\ in_flight(async_read_some(c, size).tcb) = in_flight(c.tcb)
  <2> DEFINE u == async_read_some(c, size).tcb
  <2>1. /\ u.seq_nr_next = c.tcb.seq_nr_next /\ u.seq_nr_unack = c.tcb.seq_nr_unack
        /\ u.snd_cap = c.tcb.snd_cap /\ u.snd_pq = c.tcb.snd_pq
    BY DEF async_read_some, Context, TcbT
  <2> HIDE DEF u
  <2>2. QED
    BY <2>1, FlightFrame DEF u
<1>2. ASSUME NEW buf \in Seq(Byte)
      PROVE  /\ FlightBounded(async_write(c, buf).tcb)
             /\ in_flight(async_write(c, buf).tcb) = in_flight(c.tcb)
  <2> DEFINE u == async_write(c, buf).tcb
  <2>1. /\ u.seq_nr_next = c.tcb.seq_nr_next /\ u.seq_nr_unack = c.tcb.seq_nr_unack
        /\ u.snd_cap = c.tcb.snd_cap
        /\ \/ u.snd_pq = c.tcb.snd_pq
           \/ /\ u.snd_pq = c.tcb.snd_pq \o buf
              /\ ~(Len(c.tcb.snd_pq) + Len(buf) > c.tcb.snd_cap)
    BY DEF async_write, Context, TcbT
  <2>2. /\ c.tcb.snd_pq \in Seq(Byte) /\ c.tcb.snd_cap \in Nat
        /\ Len(c.tcb.snd_pq) \in Nat /\ Len(buf) \in Nat
    BY DEF Context, TcbT, SeqNr
  <2>3. Len(c.tcb.snd_pq \o buf) = Len(c.tcb.snd_pq) + Len(buf)
    BY <2>2, ConcatProperties
  <2> HIDE DEF u
  <2>4. Len(u.snd_pq) <= u.snd_cap
    BY <2>1, <2>2, <2>3 DEF FlightBounded
  <2>5. QED
    BY <2>1, <2>4 DEF FlightBounded, in_flight, u
<1>3. CASE call = Idle
  BY <1>3 DEF Idle, app_call
<1>4. CASE \E k \in ReadSizes : call = [op |-> "read", size |-> k, buf |-> <<>>]
  BY <1>1, <1>4, ApplicationConstants DEF app_call
<1>5. CASE \E b \in Bufs : call = [op |-> "write", size |-> 0, buf |-> b]
  BY <1>2, <1>5, TcbEnvironment DEF app_call
<1>6. QED
  BY <1>3, <1>4, <1>5 DEF Calls

\* So does the handler of a completed read, whatever the application calls.
LEMMA ReadHandlerFlight ==
    ASSUME NEW t, NEW c \in Context, NEW call \in Calls(t, Bufs), FlightBounded(c.tcb)
    PROVE  FlightBounded(read_handler(c, call).tcb)
<1>1. app_call(c, call) \in Context /\ FlightBounded(app_call(c, call).tcb)
  BY AppCallType, AppCallFlight, TcbEnvironment
<1>2. QED
  BY <1>1, MakeAndSendFlight DEF read_handler

\* An acknowledgment shortens the queue and what is in flight.
LEMMA TakeAckFlight ==
    ASSUME NEW t \in TcbT, NEW s \in Segment, FlightBounded(t),
           NEW una \in clamp(s.ack_no, t.seq_nr_unack, t.seq_nr_next)
    PROVE  FlightBounded(take_ack(t, s, una))
<1> DEFINE u == take_ack(t, s, una)
<1>1. /\ t.seq_nr_next \in SeqNr /\ t.seq_nr_unack \in SeqNr /\ s.ack_no \in SeqNr
      /\ t.snd_cap \in SeqNr /\ Len(t.snd_pq) \in Nat
  BY DEF TcbT, Segment
<1>2. una \in SeqNr /\ Sub(t.seq_nr_next, una) <= Sub(t.seq_nr_next, t.seq_nr_unack)
  BY <1>1, ClampShrinks
<1>3. u \in TcbT /\ Len(u.snd_pq) <= Len(t.snd_pq)
  BY <1>2, TakeAckType
<1>4. u.seq_nr_next = t.seq_nr_next /\ u.seq_nr_unack = una /\ u.snd_cap = t.snd_cap
  BY DEF take_ack, TcbT
<1>5. /\ Sub(t.seq_nr_next, una) \in Nat /\ Sub(t.seq_nr_next, t.seq_nr_unack) \in Nat
      /\ Len(u.snd_pq) \in Nat
  <2>1. Sub(t.seq_nr_next, una) \in Nat /\ Sub(t.seq_nr_next, t.seq_nr_unack) \in Nat
    <3>1. Sub(t.seq_nr_next, una) \in SeqNr /\ Sub(t.seq_nr_next, t.seq_nr_unack) \in SeqNr
      BY <1>1, <1>2, SubType
    <3>2. QED
      BY <3>1 DEF SeqNr
  <2>2. Len(u.snd_pq) \in Nat
    BY <1>3 DEF TcbT
  <2>3. QED
    BY <2>1, <2>2
<1> HIDE DEF u
<1>6. QED
  BY <1>1, <1>2, <1>3, <1>4, <1>5 DEF FlightBounded, in_flight, SeqNr, u

\* LISTEN starts with one sequence number in flight, the SYN.
LEMMA ListenStateFlight ==
    ASSUME NEW c \in Context, NEW s \in Segment, NEW isn \in SeqNr, FlightBounded(c.tcb)
    PROVE  FlightBounded(tcp_handle_listen_state(c, s, isn).tcb)
<1> DEFINE t == c.tcb
           u == [t EXCEPT
                !.mss = accept_mss(t, s), !.rcv_next = Add(s.seq_no, 1),
                !.snd_cap = s.window, !.snd_pq = <<>>,
                !.seq_nr_next = Add(isn, 1), !.seq_nr_unack = isn,
                !.next_state = "SynReceived"]
<1>1. t \in TcbT /\ s.seq_no \in SeqNr /\ s.window \in SeqNr
  BY DEF Context, Segment
<1>2. accept_mss(t, s) \in Nat /\ Add(s.seq_no, 1) \in SeqNr /\ Add(isn, 1) \in SeqNr
  BY <1>1, AcceptMssType, AddType
<1>3. u \in TcbT
  <2> HIDE DEF t
  <2>1. <<>> \in Seq(Byte) /\ "SynReceived" \in TcpState
    BY EmptySeq DEF TcpState
  <2>2. QED
    BY <1>1, <1>2, <2>1 DEF TcbT
<1>4. FlightBounded(u)
  <2>1. /\ u.snd_cap = s.window /\ u.snd_pq = <<>>
        /\ u.seq_nr_next = Add(isn, 1) /\ u.seq_nr_unack = isn
    <3> HIDE DEF t
    <3>1. QED
      BY <1>1 DEF TcbT
  <2>2. Sub(isn, isn) = 0
    <3>1. Sub(isn, isn) = IF isn >= isn THEN isn - isn ELSE isn - isn + SeqSpace
      BY SubExact
    <3>2. QED
      BY <3>1 DEF SeqNr
  <2>3. Sub(Add(isn, 1), isn) <= 1
    <3>1. Sub(isn, isn) + 1 < SeqSpace
      BY <2>2, TcbConstants
    <3>2. Sub(Add(isn, 1), isn) = Sub(isn, isn) + 1
      BY <3>1, SendGrows
    <3>3. QED
      BY <2>2, <3>2
  <2>4. Len(<<>>) <= s.window
    BY <1>1 DEF SeqNr
  <2> HIDE DEF u
  <2>5. QED
    BY <2>1, <2>3, <2>4 DEF FlightBounded, in_flight
<1>5. FlightBounded(make_and_send_pkt([c EXCEPT !.tcb = u]).tcb)
  <2> HIDE DEF u
  <2>1. [c EXCEPT !.tcb = u] \in Context /\ [c EXCEPT !.tcb = u].tcb = u
    BY <1>3 DEF Context
  <2>2. QED
    BY <1>4, <2>1, MakeAndSendFlight
<1>6. QED
  BY <1>5 DEF tcp_handle_listen_state

\* SYN-SENT: the accepted acknowledgment lies between SND.UNA and SND.NXT.
LEMMA SynSentFlight ==
    ASSUME NEW c \in Context, NEW s \in Segment, FlightBounded(c.tcb), in_flight(c.tcb) <= 1
    PROVE  FlightBounded(tcp_handle_syn_sent(c, s).tcb)
<1> DEFINE t == c.tcb
           u == [t EXCEPT
                !.mss = accept_mss(t, s), !.rcv_next = Add(s.seq_no, 1),
                !.snd_cap = s.window, !.snd_pq = <<>>,
                !.seq_nr_unack = s.ack_no,
                !.state = "Established", !.next_state = "Established"]
<1>1. CASE ~syn_ack_acceptable(t, s)
  BY <1>1 DEF tcp_handle_syn_sent
<1>2. CASE syn_ack_acceptable(t, s)
  <2>1. /\ t \in TcbT /\ s.seq_no \in SeqNr /\ s.window \in SeqNr /\ s.ack_no \in SeqNr
        /\ t.seq_nr_next \in SeqNr /\ t.seq_nr_unack \in SeqNr
    BY DEF Context, Segment, TcbT
  <2>2. accept_mss(t, s) \in Nat /\ Add(s.seq_no, 1) \in SeqNr
    BY <2>1, AcceptMssType, AddType
  <2>3. u \in TcbT
    <3> HIDE DEF t
    <3>1. <<>> \in Seq(Byte) /\ "Established" \in TcpState
      BY EmptySeq DEF TcpState
    <3>2. QED
      BY <2>1, <2>2, <3>1 DEF TcbT
  <2>4. FlightBounded(u)
    <3>1. /\ u.snd_cap = s.window /\ u.snd_pq = <<>>
          /\ u.seq_nr_next = t.seq_nr_next /\ u.seq_nr_unack = s.ack_no
      <4> HIDE DEF t
      <4>1. QED
        BY <2>1 DEF TcbT
    <3>2. t.seq_nr_unack <= s.ack_no /\ s.ack_no <= t.seq_nr_next
      BY <1>2 DEF syn_ack_acceptable
    <3>3. Sub(t.seq_nr_next, s.ack_no) <= 1
      <4>1. Sub(t.seq_nr_next, s.ack_no) =
              IF t.seq_nr_next >= s.ack_no THEN t.seq_nr_next - s.ack_no
              ELSE t.seq_nr_next - s.ack_no + SeqSpace
        BY <2>1, SubExact
      <4>2. Sub(t.seq_nr_next, t.seq_nr_unack) =
              IF t.seq_nr_next >= t.seq_nr_unack THEN t.seq_nr_next - t.seq_nr_unack
              ELSE t.seq_nr_next - t.seq_nr_unack + SeqSpace
        BY <2>1, SubExact
      <4>3. Sub(t.seq_nr_next, t.seq_nr_unack) <= 1
        BY DEF in_flight
      <4> HIDE DEF t
      <4>4. QED
        BY <2>1, <3>2, <4>1, <4>2, <4>3 DEF SeqNr
    <3>4. Len(<<>>) <= s.window
      BY <2>1 DEF SeqNr
    <3> HIDE DEF u
    <3>5. QED
      BY <3>1, <3>3, <3>4 DEF FlightBounded, in_flight
  <2>5. tcp_handle_syn_sent(c, s) = listen_finish(make_and_send_pkt([c EXCEPT !.tcb = u]))
    BY <1>2 DEF tcp_handle_syn_sent
  <2> HIDE DEF u
  <2>6. [c EXCEPT !.tcb = u] \in Context /\ [c EXCEPT !.tcb = u].tcb = u
    BY <2>3 DEF Context
  <2>7. /\ make_and_send_pkt([c EXCEPT !.tcb = u]) \in Context
        /\ FlightBounded(make_and_send_pkt([c EXCEPT !.tcb = u]).tcb)
    BY <2>4, <2>6, MakeAndSendType, MakeAndSendFlight
  <2>8. \A d \in Context : listen_finish(d).tcb = d.tcb
    BY DEF listen_finish, Context
  <2>9. QED
    BY <2>5, <2>7, <2>8
<1>3. QED
  BY <1>1, <1>2

\* The ACK step keeps the bound, for every acknowledgment number.
LEMMA ProcessAckFlight ==
    ASSUME NEW c \in Context, NEW s \in Segment, FlightBounded(c.tcb),
           NEW una \in clamp(s.ack_no, c.tcb.seq_nr_unack, c.tcb.seq_nr_next)
    PROVE  FlightBounded(process_ack(c, s, una).tcb)
<1> DEFINE t == c.tcb
           acked == take_ack(t, s, una)
           est == [t EXCEPT !.seq_nr_unack = una, !.state = "Established",
                            !.next_state = "Established"]
<1>1. /\ t \in TcbT /\ t.seq_nr_next \in SeqNr /\ t.seq_nr_unack \in SeqNr
      /\ s.ack_no \in SeqNr
  BY DEF Context, TcbT, Segment
<1>2. una \in SeqNr /\ Sub(t.seq_nr_next, una) <= Sub(t.seq_nr_next, t.seq_nr_unack)
  BY <1>1, ClampShrinks
<1>3. acked \in TcbT /\ FlightBounded(acked)
  BY <1>1, <1>2, TakeAckType, TakeAckFlight
<1>4. FlightBounded(est)
  <2>1. /\ est.seq_nr_next = t.seq_nr_next /\ est.seq_nr_unack = una
        /\ est.snd_cap = t.snd_cap /\ est.snd_pq = t.snd_pq
    <3> HIDE DEF t
    <3>1. QED
      BY <1>1 DEF TcbT
  <2>2. Sub(t.seq_nr_next, una) \in SeqNr /\ Sub(t.seq_nr_next, t.seq_nr_unack) \in SeqNr
    BY <1>1, <1>2, SubType
  <2>3. t.snd_cap \in SeqNr
    BY <1>1 DEF TcbT
  <2> HIDE DEF est
  <2>4. QED
    BY <1>2, <2>1, <2>2, <2>3 DEF FlightBounded, in_flight, SeqNr
<1>5. \A u \in TcbT : [c EXCEPT !.tcb = u] \in Context /\ [c EXCEPT !.tcb = u].tcb = u
  BY DEF Context
<1>6. [c EXCEPT !.ret = TRUE].tcb = t
  BY DEF Context
<1>7. listen_finish([c EXCEPT !.tcb = est]).tcb = est
  BY DEF listen_finish, Context
<1>8. FlightBounded([make_and_send_pkt([c EXCEPT !.tcb = acked]) EXCEPT !.ret = TRUE].tcb)
  <2> HIDE DEF acked
  <2>1. FlightBounded(make_and_send_pkt([c EXCEPT !.tcb = acked]).tcb)
    BY <1>3, <1>5, MakeAndSendFlight
  <2>2. make_and_send_pkt([c EXCEPT !.tcb = acked]) \in Context
    BY <1>3, <1>5, MakeAndSendType
  <2>3. \A d \in Context : [d EXCEPT !.ret = TRUE].tcb = d.tcb
    BY DEF Context
  <2>4. QED
    BY <2>1, <2>2, <2>3
<1>9. \A x : FlightBounded([c EXCEPT !.tcb = [acked EXCEPT !.next_state = x]].tcb)
  <2> HIDE DEF acked
  <2> TAKE x
  <2> DEFINE v == [acked EXCEPT !.next_state = x]
  <2>1. [c EXCEPT !.tcb = v].tcb = v
    BY DEF Context
  <2>2. /\ v.seq_nr_next = acked.seq_nr_next /\ v.seq_nr_unack = acked.seq_nr_unack
        /\ v.snd_cap = acked.snd_cap /\ v.snd_pq = acked.snd_pq
    BY <1>3 DEF TcbT
  <2> HIDE DEF v
  <2>3. FlightBounded(v)
    BY <1>3, <2>2, FlightFrame
  <2>4. QED
    BY <2>1, <2>3 DEF v
<1>10. FlightBounded([c EXCEPT !.tcb.next_state = "Closed", !.ret = TRUE].tcb)
  <2> DEFINE v == [c EXCEPT !.tcb.next_state = "Closed", !.ret = TRUE].tcb
  <2>1. /\ v.seq_nr_next = t.seq_nr_next /\ v.seq_nr_unack = t.seq_nr_unack
        /\ v.snd_cap = t.snd_cap /\ v.snd_pq = t.snd_pq
    BY DEF Context, TcbT
  <2> HIDE DEF v
  <2>2. FlightBounded(v)
    BY <2>1, FlightFrame
  <2>3. QED
    BY <2>2 DEF v
<1>11. FlightBounded(make_and_send_pkt(c).tcb)
  BY MakeAndSendFlight
<1> DEFINE x == IF t.state = "FinWait_1" THEN "FinWait_2"
                ELSE IF t.state = "Closing" THEN "TimeWait" ELSE acked.next_state
<1>12. \/ process_ack(c, s, una) = c
       \/ process_ack(c, s, una) = [c EXCEPT !.ret = TRUE]
       \/ process_ack(c, s, una) = listen_finish([c EXCEPT !.tcb = est])
       \/ process_ack(c, s, una) =
                [make_and_send_pkt([c EXCEPT !.tcb = acked]) EXCEPT !.ret = TRUE]
       \/ process_ack(c, s, una) = [c EXCEPT !.tcb = [acked EXCEPT !.next_state = x]]
       \/ process_ack(c, s, una) = [c EXCEPT !.tcb.next_state = "Closed", !.ret = TRUE]
       \/ process_ack(c, s, una) = make_and_send_pkt(c)
  BY <1>2, ProcessAckCases
<1> HIDE DEF t, acked, est, x
<1>13. QED
  BY <1>4, <1>6, <1>7, <1>8, <1>9, <1>10, <1>11, <1>12 DEF t

\* The text and FIN steps keep the bound: they touch the send side only to send.
LEMMA ProcessTextFlight ==
    ASSUME NEW c \in Context, NEW s \in Segment, FlightBounded(c.tcb)
    PROVE  FlightBounded(process_text(c, s).tcb)
  BY ProcessTextFrame, FlightFrame

\* The FIN step of process keeps the bound.
LEMMA ProcessFinFlight ==
    ASSUME NEW c \in Context, NEW s \in Segment, FlightBounded(c.tcb)
    PROVE  FlightBounded(process_fin(c, s).tcb)
<1> DEFINE t == c.tcb
           u == [t EXCEPT !.rcv_next = Add(@, 1), !.next_state = "CloseWait"]
           d == make_and_send_pkt([c EXCEPT !.tcb = u])
<1>1. u \in TcbT
  <2>1. t \in TcbT /\ t.rcv_next \in SeqNr /\ "CloseWait" \in TcpState
    BY DEF Context, TcbT, TcpState
  <2>2. Add(t.rcv_next, 1) \in SeqNr
    BY <2>1, AddType
  <2> HIDE DEF t
  <2>3. QED
    BY <2>1, <2>2 DEF TcbT
<1>2. FlightBounded(u)
  <2>1. /\ u.seq_nr_next = t.seq_nr_next /\ u.seq_nr_unack = t.seq_nr_unack
        /\ u.snd_cap = t.snd_cap /\ u.snd_pq = t.snd_pq
    BY DEF Context, TcbT
  <2> HIDE DEF u
  <2>2. QED
    BY <2>1, FlightFrame
<1>3. \A e \in Context : FlightBounded(e.tcb) =>
            FlightBounded([e EXCEPT !.tcb.next_state = "TimeWait"].tcb)
  <2> TAKE e \in Context
  <2> HAVE FlightBounded(e.tcb)
  <2> DEFINE v == [e EXCEPT !.tcb.next_state = "TimeWait"].tcb
  <2>1. /\ v.seq_nr_next = e.tcb.seq_nr_next /\ v.seq_nr_unack = e.tcb.seq_nr_unack
        /\ v.snd_cap = e.tcb.snd_cap /\ v.snd_pq = e.tcb.snd_pq
    BY DEF Context, TcbT
  <2> HIDE DEF v
  <2>2. FlightBounded(v)
    BY <2>1, FlightFrame
  <2>3. QED
    BY <2>2 DEF v
<1>4. FlightBounded([d EXCEPT !.tcb.next_state = "TimeWait"].tcb)
  <2> HIDE DEF u
  <2>1. [c EXCEPT !.tcb = u] \in Context /\ [c EXCEPT !.tcb = u].tcb = u
    BY <1>1 DEF Context
  <2>2. d \in Context /\ FlightBounded(d.tcb)
    BY <1>2, <2>1, MakeAndSendType, MakeAndSendFlight
  <2> HIDE DEF d
  <2>3. QED
    BY <1>3, <2>2
<1>5. QED
  BY <1>3, <1>4, ProcessFinCases

\* tcb_t::process keeps the bound for every segment in every state.
LEMMA ProcessFlight ==
    ASSUME NEW c \in Context, NEW s \in Segment, NEW isn \in SeqNr, FlightBounded(c.tcb),
           c.tcb.state = "SynSent" => in_flight(c.tcb) <= 1,
           NEW una \in clamp(s.ack_no, c.tcb.seq_nr_unack, c.tcb.seq_nr_next)
    PROVE  FlightBounded(process(c, s, isn, una).tcb)
<1>1. una \in SeqNr
  BY ClampType DEF Context, TcbT, Segment
<1>2. process_ack(c, s, una) \in Context /\ FlightBounded(process_ack(c, s, una).tcb)
  BY <1>1, ProcessAckType, ProcessAckFlight
<1>3. /\ process_text(process_ack(c, s, una), s) \in Context
      /\ FlightBounded(process_text(process_ack(c, s, una), s).tcb)
  BY <1>2, ProcessTextType, ProcessTextFlight
<1>4. FlightBounded(process_fin(process_text(process_ack(c, s, una), s), s).tcb)
  BY <1>3, ProcessFinFlight
<1>5. QED
  BY <1>4, ListenStateFlight, SynSentFlight DEF process, tcp_handle_close_state

-----------------------------------------------------------------------------
(* The life cycle *)

InPairs(t) == <<t.state, t.next_state>> \in StatePairs

\* The states one handler can lead to, with and without a report.
QuietMoves ==
    {<<"Listen", "SynReceived">>, <<"SynReceived", "CloseWait">>,
     <<"Established", "CloseWait">>, <<"CloseWait", "TimeWait">>}
ReportMoves ==
    {<<"SynSent", "Established">>, <<"SynReceived", "Established">>,
     <<"SynReceived", "CloseWait">>}

\* Context r is what a handler leaves behind that found the TCB in state from.
Moved(from, r) ==
    /\ InPairs(r.tcb)
    /\ IF Reports(r.posts) THEN <<from, r.tcb.state>> \in ReportMoves
       ELSE from = r.tcb.state \/ <<from, r.tcb.state>> \in QuietMoves
    /\ r.tcb.state \in Handshake => r.posts = <<>>

\* An empty queue of handlers holds no report.
LEMMA NoReports == ~Reports(<<>>)
  BY DEF Reports

\* Handlers posted behind others add their reports and remove none.
LEMMA ReportsConcat ==
    ASSUME NEW p \in Seq(Handler), NEW q \in Seq(Handler)
    PROVE  Reports(p \o q) <=> Reports(p) \/ Reports(q)
<1>1. /\ DOMAIN (p \o q) = 1 .. Len(p) + Len(q) /\ DOMAIN p = 1 .. Len(p)
      /\ DOMAIN q = 1 .. Len(q) /\ Len(p) \in Nat /\ Len(q) \in Nat
      /\ \A i \in 1 .. Len(p) + Len(q) :
            (p \o q)[i] = IF i <= Len(p) THEN p[i] ELSE q[i - Len(p)]
  BY ConcatProperties, LenProperties
<1>2. ASSUME NEW i \in 1 .. Len(p) + Len(q), (p \o q)[i].kind = "established"
      PROVE  Reports(p) \/ Reports(q)
  <2>1. CASE i <= Len(p)
    BY <1>1, <1>2, <2>1 DEF Reports
  <2>2. CASE ~(i <= Len(p))
    <3>1. i - Len(p) \in 1 .. Len(q) /\ q[i - Len(p)].kind = "established"
      BY <1>1, <1>2, <2>2
    <3>2. QED
      BY <1>1, <3>1 DEF Reports
  <2>3. QED
    BY <2>1, <2>2
<1>3. ASSUME NEW i \in 1 .. Len(p), p[i].kind = "established" PROVE Reports(p \o q)
  <2>1. i \in 1 .. Len(p) + Len(q) /\ (p \o q)[i] = p[i]
    BY <1>1
  <2>2. QED
    BY <1>1, <1>3, <2>1 DEF Reports
<1>4. ASSUME NEW i \in 1 .. Len(q), q[i].kind = "established" PROVE Reports(p \o q)
  <2>1. i + Len(p) \in 1 .. Len(p) + Len(q) /\ (p \o q)[i + Len(p)] = q[i]
    BY <1>1
  <2>2. QED
    BY <1>1, <1>4, <2>1 DEF Reports
<1>5. QED
  BY <1>1, <1>2, <1>3, <1>4 DEF Reports

\* Running a handler brings no report into the queue.
LEMMA ReportsTail ==
    ASSUME NEW q \in Seq(Handler), q # <<>>, Reports(Tail(q))
    PROVE  Reports(q)
<1>1. /\ Tail(q) \in Seq(Handler) /\ Len(Tail(q)) = Len(q) - 1 /\ Len(q) \in Nat
      /\ \A i \in 1 .. Len(Tail(q)) : Tail(q)[i] = q[i + 1]
  BY HeadTailProperties, LenProperties
<1>2. DOMAIN Tail(q) = 1 .. Len(Tail(q)) /\ DOMAIN q = 1 .. Len(q)
  BY <1>1, LenProperties
<1>3. PICK i \in 1 .. Len(Tail(q)) : Tail(q)[i].kind = "established"
  BY <1>2 DEF Reports
<1>4. i + 1 \in 1 .. Len(q) /\ q[i + 1].kind = "established"
  BY <1>1, <1>3
<1>5. QED
  BY <1>2, <1>4 DEF Reports

\* Of the handlers that are posted only "established" is a report.
LEMMA ReportsAppend ==
    ASSUME NEW q \in Seq(Handler), NEW kind \in HandlerKind, NEW data \in Seq(Byte)
    PROVE  Reports(Append(q, Post(kind, data))) <=> Reports(q) \/ kind = "established"
<1> DEFINE h == Post(kind, data)
<1>1. h \in Handler /\ h.kind = kind
  BY DEF Post, Handler
<1> HIDE DEF h
<1>2. <<h>> \in Seq(Handler) /\ Append(q, h) = q \o <<h>>
  BY <1>1, AppendIsConcat
<1>3. Reports(<<h>>) <=> kind = "established"
  BY <1>1 DEF Reports
<1>4. Reports(q \o <<h>>) <=> Reports(q) \/ Reports(<<h>>)
  BY <1>2, ReportsConcat
<1>5. Reports(Append(q, h)) <=> Reports(q) \/ kind = "established"
  BY <1>2, <1>3, <1>4
<1>6. QED
  BY <1>5 DEF h

\* The text step leaves the state alone and posts nothing but a completed read,
\* and it does nothing before the connection is established.
LEMMA ProcessTextPosts ==
    ASSUME NEW c \in Context, NEW s \in Segment
    PROVE  /\ Reports(process_text(c, s).posts) <=> Reports(c.posts)
           /\ c.tcb.state \in Handshake => process_text(c, s) = c
<1> DEFINE t == c.tcb
           n == Lesser(Len(s.data), Head(t.on_data_receive))
<1>1. c.tcb.state \in Handshake => process_text(c, s) = c
  BY DEF process_text, Handshake
<1>2. t \in TcbT /\ c.posts \in Seq(Handler) /\ s.data \in Seq(Byte) /\ Len(s.data) \in Nat
  BY DEF Context, Segment
<1>3. \/ process_text(c, s).posts = c.posts
      \/ /\ t.on_data_receive # <<>>
         /\ process_text(c, s).posts = Append(c.posts, Post("read", Take(s.data, n)))
  <2>1. c.posts = c.posts /\ [c EXCEPT !.abort = "rcv_overflow"].posts = c.posts
        /\ [c EXCEPT !.tcb.rcv_pq = @ \o s.data].posts = c.posts
        /\ [c EXCEPT !.abort = "rcv_pq_not_empty"].posts = c.posts
    BY DEF Context
  <2>2. [c EXCEPT !.tcb = [t EXCEPT !.on_data_receive = Tail(@), !.rcv_next = Add(@, n),
                                          !.rcv_pq = Drop(s.data, n)],
                  !.posts = Append(@, Post("read", Take(s.data, n)))].posts
            = Append(c.posts, Post("read", Take(s.data, n)))
    BY DEF Context
  <2>3. QED
    BY <2>1, <2>2, ProcessTextCases
<1>4. CASE t.on_data_receive # <<>>
  <2>1. Head(t.on_data_receive) \in Nat
    BY <1>2, <1>4, HeadTailProperties DEF TcbT
  <2>2. n \in Nat /\ n <= Len(s.data)
    BY <1>2, <2>1, LesserType
  <2>3. Take(s.data, n) \in Seq(Byte)
    BY <1>2, <2>2, TakeType
  <2> HIDE DEF n
  <2>4. Reports(Append(c.posts, Post("read", Take(s.data, n)))) <=> Reports(c.posts)
    BY <1>2, <2>3, ReportsAppend DEF HandlerKind
  <2>5. QED
    BY <1>1, <1>3, <2>4
<1>5. QED
  BY <1>1, <1>3, <1>4

\* So it changes nothing in the life of the TCB.
LEMMA ProcessTextLife ==
    ASSUME NEW from, NEW c \in Context, NEW s \in Segment, Moved(from, c)
    PROVE  Moved(from, process_text(c, s))
  BY ProcessTextPosts, ProcessTextFrame DEF Moved, InPairs

\* The states in which process() gets as far as the ACK step.
Synchronized == {"SynReceived", "Established", "CloseWait", "TimeWait"}

\* A FIN leads to CLOSE-WAIT, and only from SYN-RECEIVED or ESTABLISHED.
LEMMA ProcessFinLife ==
    ASSUME NEW from \in Synchronized, NEW c \in Context, NEW s \in Segment, Moved(from, c)
    PROVE  Moved(from, process_fin(c, s))
<1> DEFINE u == [c.tcb EXCEPT !.rcv_next = Add(@, 1), !.next_state = "CloseWait"]
           d == make_and_send_pkt([c EXCEPT !.tcb = u])
           r == [d EXCEPT !.tcb.next_state = "TimeWait"]
<1>1. CASE process_fin(c, s) = c
  BY <1>1
<1>2. CASE c.tcb.state \in {"SynReceived", "Established"} /\ process_fin(c, s) = r
  <2>1. /\ c.tcb \in TcbT /\ c.tcb.rcv_next \in SeqNr /\ "CloseWait" \in TcpState
        /\ Add(c.tcb.rcv_next, 1) \in SeqNr
    BY AddType DEF Context, TcbT, TcpState
  <2>2. u \in TcbT
    BY <2>1 DEF TcbT
  <2>3. u.next_state = "CloseWait"
    BY <2>1 DEF TcbT
  <2> HIDE DEF u
  <2>4. [c EXCEPT !.tcb = u] \in Context
    BY <2>2 DEF Context
  <2>5. [c EXCEPT !.tcb = u].tcb = u /\ [c EXCEPT !.tcb = u].posts = c.posts
    BY DEF Context
  <2>6. d \in Context /\ d.tcb.state = "CloseWait" /\ d.posts = c.posts
    BY <2>3, <2>4, <2>5, MakeAndSendType, MakeAndSendFrame
  <2> HIDE DEF d
  <2>7. r.tcb.state = "CloseWait" /\ r.tcb.next_state = "TimeWait" /\ r.posts = c.posts
    BY <2>6 DEF Context, TcbT
  <2> HIDE DEF r
  <2>8. QED
    BY <1>2, <2>7 DEF Moved, InPairs, StatePairs, Synchronized, ReportMoves, QuietMoves, Handshake
<1>3. ~(c.tcb.state \in {"FinWait_1", "FinWait_2"})
  BY DEF Moved, InPairs, StatePairs
<1>4. QED
  BY <1>1, <1>2, <1>3, ProcessFinCases

\* An ACK ends the handshake of a passive connection and reports it; in
\* CLOSE-WAIT the answer to an ACK from the future moves the TCB on.
LEMMA ProcessAckLife ==
    ASSUME NEW c \in Context, NEW s \in Segment, NEW una \in SeqNr,
           c.posts = <<>>, c.tcb.state \in Synchronized, InPairs(c.tcb)
    PROVE  Moved(c.tcb.state, process_ack(c, s, una))
<1> DEFINE t == c.tcb
           e == [c EXCEPT !.tcb = [t EXCEPT !.seq_nr_unack = una, !.state = "Established",
                                            !.next_state = "Established"]]
           acked == take_ack(t, s, una)
           d == make_and_send_pkt([c EXCEPT !.tcb = acked])
           a == [c EXCEPT !.tcb = [acked EXCEPT !.next_state =
                        IF t.state = "FinWait_1" THEN "FinWait_2"
                        ELSE IF t.state = "Closing" THEN "TimeWait" ELSE @]]
<1>1. t \in TcbT /\ ~Reports(<<>>)
  BY NoReports DEF Context
<1>2. \A x \in Context : x.posts = <<>> /\ x.tcb.state = t.state /\ x.tcb.next_state = t.next_state
            => Moved(t.state, x)
  BY <1>1 DEF Moved, InPairs
<1>3. CASE process_ack(c, s, una) = c
  BY <1>2, <1>3
<1>4. CASE process_ack(c, s, una) = [c EXCEPT !.ret = TRUE]
  <2>1. [c EXCEPT !.ret = TRUE] \in Context
    BY DEF Context
  <2>2. [c EXCEPT !.ret = TRUE].posts = <<>> /\ [c EXCEPT !.ret = TRUE].tcb = t
    BY DEF Context
  <2>3. QED
    BY <1>2, <1>4, <2>1, <2>2
<1>5. CASE t.state = "SynReceived" /\ process_ack(c, s, una) = listen_finish(e)
  <2>1. e.tcb.state = "Established" /\ e.tcb.next_state = "Established" /\ e.posts = <<>>
    BY <1>1 DEF Context, TcbT
  <2>2. /\ listen_finish(e).tcb = e.tcb
        /\ listen_finish(e).posts = Append(e.posts, Post("established", <<>>))
    BY DEF listen_finish, Context
  <2>3. Reports(Append(e.posts, Post("established", <<>>)))
    BY <2>1, ReportsAppend, EmptySeq DEF HandlerKind
  <2> HIDE DEF e
  <2>4. QED
    BY <1>5, <2>1, <2>2, <2>3 DEF Moved, InPairs, StatePairs, ReportMoves, Handshake
<1>6. acked \in TcbT /\ acked.state = t.state /\ acked.next_state = t.next_state
  <2>1. acked.state = t.state /\ acked.next_state = t.next_state
    BY <1>1 DEF take_ack, TcbT
  <2>2. QED
    BY <1>1, <2>1, TakeAckType
<1> HIDE DEF acked
<1>7. CASE /\ t.state \in {"Established", "FinWait_1", "FinWait_2", "CloseWait", "Closing"}
           /\ process_ack(c, s, una) = [d EXCEPT !.ret = TRUE]
  <2>1. [c EXCEPT !.tcb = acked] \in Context
    BY <1>6 DEF Context
  <2>2. [c EXCEPT !.tcb = acked].tcb = acked /\ [c EXCEPT !.tcb = acked].posts = <<>>
    BY DEF Context
  <2>3. /\ d \in Context /\ d.tcb.state = t.next_state /\ d.tcb.next_state = t.next_state
        /\ d.posts = <<>>
    BY <1>6, <2>1, <2>2, MakeAndSendType, MakeAndSendFrame
  <2> HIDE DEF d
  <2>4. [d EXCEPT !.ret = TRUE].tcb = d.tcb /\ [d EXCEPT !.ret = TRUE].posts = <<>>
    BY <2>3 DEF Context
  <2>5. QED
    BY <1>1, <1>7, <2>3, <2>4 DEF Moved, InPairs, StatePairs, QuietMoves, Handshake
<1>8. CASE /\ t.state \in {"Established", "FinWait_1", "FinWait_2", "CloseWait", "Closing"}
           /\ process_ack(c, s, una) = a
  <2>1. t.state \notin {"FinWait_1", "Closing"}
    BY DEF InPairs, StatePairs
  <2>2. a.tcb.state = t.state /\ a.tcb.next_state = t.next_state /\ a.posts = <<>>
    BY <1>6, <2>1 DEF Context, TcbT
  <2> HIDE DEF a
  <2>3. QED
    BY <1>1, <1>8, <2>2 DEF Moved, InPairs
<1>9. CASE t.state = "TimeWait" /\ process_ack(c, s, una) = make_and_send_pkt(c)
  <2>1. t.next_state = "TimeWait"
    BY <1>9 DEF InPairs, StatePairs
  <2>2. QED
    BY <1>2, <1>9, <2>1, MakeAndSendType, MakeAndSendFrame
<1>10. t.state # "LastAck"
  BY DEF InPairs, StatePairs
<1>11. QED
  BY <1>3, <1>4, <1>5, <1>7, <1>8, <1>9, <1>10, ProcessAckCases DEF acked

\* LISTEN answers a SYN and is then SYN-RECEIVED.
LEMMA ListenLife ==
    ASSUME NEW c \in Context, NEW s \in Segment, NEW isn \in SeqNr,
           c.posts = <<>>, c.tcb.state = "Listen", InPairs(c.tcb)
    PROVE  /\ Moved(c.tcb.state, tcp_handle_listen_state(c, s, isn))
           /\ tcp_handle_listen_state(c, s, isn).tcb.state # "SynSent"
<1> DEFINE t == c.tcb
           u == [t EXCEPT
                !.mss = accept_mss(t, s), !.rcv_next = Add(s.seq_no, 1),
                !.snd_cap = s.window, !.snd_pq = <<>>,
                !.seq_nr_next = Add(isn, 1), !.seq_nr_unack = isn,
                !.next_state = "SynReceived"]
           r == make_and_send_pkt([c EXCEPT !.tcb = u])
<1>1. t \in TcbT /\ s.seq_no \in SeqNr /\ s.window \in SeqNr
  BY DEF Context, Segment
<1>2. accept_mss(t, s) \in Nat /\ Add(s.seq_no, 1) \in SeqNr /\ Add(isn, 1) \in SeqNr
  BY <1>1, AcceptMssType, AddType
<1>3. u \in TcbT /\ u.next_state = "SynReceived"
  <2> HIDE DEF t
  <2>1. <<>> \in Seq(Byte) /\ "SynReceived" \in TcpState
    BY EmptySeq DEF TcpState
  <2>2. u \in TcbT
    BY <1>1, <1>2, <2>1 DEF TcbT
  <2>3. u.next_state = "SynReceived"
    BY <1>1 DEF TcbT
  <2>4. QED
    BY <2>2, <2>3
<1>4. tcp_handle_listen_state(c, s, isn) \in {c, r}
  BY DEF tcp_handle_listen_state
<1> HIDE DEF u
<1>5. [c EXCEPT !.tcb = u] \in Context
  BY <1>3 DEF Context
<1>6. [c EXCEPT !.tcb = u].tcb = u /\ [c EXCEPT !.tcb = u].posts = <<>>
  BY DEF Context
<1>7. r.tcb.state = "SynReceived" /\ r.tcb.next_state = "SynReceived" /\ r.posts = <<>>
  BY <1>3, <1>5, <1>6, MakeAndSendFrame
<1> HIDE DEF r
<1>8. Moved(t.state, c) /\ Moved(t.state, r)
  BY <1>7, NoReports DEF Moved, InPairs, StatePairs, QuietMoves
<1>9. QED
  BY <1>4, <1>7, <1>8

\* SYN-SENT takes a SYN,ACK, is ESTABLISHED and reports it, or nothing happens.
LEMMA SynSentLife ==
    ASSUME NEW c \in Context, NEW s \in Segment,
           c.posts = <<>>, c.tcb.state = "SynSent", InPairs(c.tcb)
    PROVE  /\ Moved(c.tcb.state, tcp_handle_syn_sent(c, s))
           /\ \/ tcp_handle_syn_sent(c, s) = c
              \/ tcp_handle_syn_sent(c, s).tcb.state = "Established"
<1> DEFINE t == c.tcb
           u == [t EXCEPT
                !.mss = accept_mss(t, s), !.rcv_next = Add(s.seq_no, 1),
                !.snd_cap = s.window, !.snd_pq = <<>>,
                !.seq_nr_unack = s.ack_no,
                !.state = "Established", !.next_state = "Established"]
           d == make_and_send_pkt([c EXCEPT !.tcb = u])
           r == listen_finish(d)
<1>1. t \in TcbT /\ s.seq_no \in SeqNr /\ s.window \in SeqNr /\ s.ack_no \in SeqNr
  BY DEF Context, Segment
<1>2. accept_mss(t, s) \in Nat /\ Add(s.seq_no, 1) \in SeqNr
  BY <1>1, AcceptMssType, AddType
<1>3. u \in TcbT /\ u.next_state = "Established"
  <2> HIDE DEF t
  <2>1. <<>> \in Seq(Byte) /\ "Established" \in TcpState
    BY EmptySeq DEF TcpState
  <2>2. u \in TcbT
    BY <1>1, <1>2, <2>1 DEF TcbT
  <2>3. u.next_state = "Established"
    BY <1>1 DEF TcbT
  <2>4. QED
    BY <2>2, <2>3
<1>4. tcp_handle_syn_sent(c, s) \in {c, r}
  BY DEF tcp_handle_syn_sent
<1> HIDE DEF u
<1>5. [c EXCEPT !.tcb = u] \in Context
  BY <1>3 DEF Context
<1>6. [c EXCEPT !.tcb = u].tcb = u /\ [c EXCEPT !.tcb = u].posts = <<>>
  BY DEF Context
<1>7. /\ d \in Context /\ d.tcb.state = "Established" /\ d.tcb.next_state = "Established"
      /\ d.posts = <<>>
  BY <1>3, <1>5, <1>6, MakeAndSendFrame, MakeAndSendType
<1> HIDE DEF d
<1>8. r.tcb = d.tcb /\ r.posts = Append(d.posts, Post("established", <<>>))
  BY <1>7 DEF listen_finish, Context
<1>9. Reports(Append(d.posts, Post("established", <<>>)))
  BY <1>7, ReportsAppend, EmptySeq DEF HandlerKind
<1> HIDE DEF r
<1>10. Moved(t.state, c) /\ Moved(t.state, r)
  BY <1>7, <1>8, <1>9, NoReports DEF Moved, InPairs, StatePairs, ReportMoves, Handshake
<1>11. QED
  BY <1>4, <1>7, <1>8, <1>10

\* Whatever segment arrives, process() moves the TCB along its life cycle.
LEMMA ProcessLife ==
    ASSUME NEW t \in TcbT, InPairs(t), NEW s \in Segment, NEW isn \in SeqNr, NEW una \in SeqNr
    PROVE  /\ Moved(t.state, process(Call(t), s, isn, una))
           /\ process(Call(t), s, isn, una).tcb.state = "SynSent"
                => process(Call(t), s, isn, una) = Call(t)
<1> DEFINE c == Call(t)
           r == process(c, s, isn, una)
<1>1. c \in Context /\ c.tcb = t /\ c.posts = <<>>
  BY CallType DEF Call
<1> HIDE DEF c
<1>2. t.state \in {"Listen", "SynSent"} \cup Synchronized
  BY DEF InPairs, StatePairs, Synchronized
<1>3. CASE t.state = "Listen"
  BY <1>1, <1>3, ListenLife DEF process, c
<1>4. CASE t.state = "SynSent"
  <2>1. r = tcp_handle_syn_sent(c, s)
    BY <1>1, <1>4 DEF process
  <2>2. QED
    BY <1>1, <1>4, <2>1, SynSentLife DEF c
<1>5. CASE t.state \in Synchronized
  <2> DEFINE a == process_ack(c, s, una)
             x == process_text(a, s)
             f == process_fin(x, s)
  <2>1. a \in Context /\ Moved(t.state, a)
    BY <1>1, <1>5, ProcessAckType, ProcessAckLife
  <2> HIDE DEF a
  <2>2. x \in Context /\ Moved(t.state, x)
    BY <2>1, ProcessTextType, ProcessTextLife
  <2> HIDE DEF x
  <2>3. Moved(t.state, f)
    BY <1>5, <2>2, ProcessFinLife
  <2> HIDE DEF f
  <2>4. Moved(t.state, c)
    BY <1>1, NoReports DEF Moved, Handshake
  <2>5. r \in {c, f}
    BY <1>1, <1>5 DEF process, Synchronized, f, x, a
  <2>6. c.tcb.state # "SynSent" /\ f.tcb.state # "SynSent"
    BY <1>1, <1>5, <2>3 DEF Moved, Synchronized, ReportMoves, QuietMoves
  <2>7. QED
    BY <2>3, <2>4, <2>5, <2>6 DEF c
<1>6. QED
  BY <1>2, <1>3, <1>4, <1>5

\* A call of the application leaves the state alone and reports nothing.
LEMMA AppCallLife ==
    ASSUME NEW t, NEW c \in Context, NEW call \in Calls(t, Bufs), c.posts = <<>>
    PROVE  /\ app_call(c, call).tcb.state = c.tcb.state
           /\ app_call(c, call).tcb.next_state = c.tcb.next_state
           /\ ~Reports(app_call(c, call).posts)
<1>1. CASE call = Idle
  BY <1>1, NoReports DEF Idle, app_call
<1>2. CASE \E k \in ReadSizes : call = [op |-> "read", size |-> k, buf |-> <<>>]
  <2>1. PICK k \in ReadSizes : call = [op |-> "read", size |-> k, buf |-> <<>>]
    BY <1>2
  <2>2. app_call(c, call) = async_read_some(c, k) /\ k \in Nat
    BY <2>1, ApplicationConstants DEF app_call
  <2> DEFINE n == Lesser(Len(c.tcb.rcv_pq), k)
             r == async_read_some(c, k)
  <2>3. r.tcb.state = c.tcb.state /\ r.tcb.next_state = c.tcb.next_state
    BY DEF async_read_some, Context, TcbT
  <2>4. \/ r.posts = <<>>
        \/ r.posts = Append(c.posts, Post("read", Take(c.tcb.rcv_pq, n)))
    BY DEF async_read_some, Context
  <2>5. c.tcb.rcv_pq \in Seq(Byte) /\ Len(c.tcb.rcv_pq) \in Nat
    BY DEF Context, TcbT
  <2>6. n \in Nat /\ n <= Len(c.tcb.rcv_pq)
    BY <2>2, <2>5, LesserType
  <2>7. Take(c.tcb.rcv_pq, n) \in Seq(Byte)
    BY <2>5, <2>6, TakeType
  <2> HIDE DEF n, r
  <2>8. c.posts \in Seq(Handler) /\ ~Reports(c.posts)
    BY NoReports DEF Context
  <2>9. ~Reports(Append(c.posts, Post("read", Take(c.tcb.rcv_pq, n))))
    BY <2>7, <2>8, ReportsAppend DEF HandlerKind
  <2>10. QED
    BY <2>2, <2>3, <2>4, <2>9, NoReports DEF r
<1>3. CASE \E b \in Bufs : call = [op |-> "write", size |-> 0, buf |-> b]
  <2>1. PICK b \in Bufs : call = [op |-> "write", size |-> 0, buf |-> b]
    BY <1>3
  <2> DEFINE r == async_write(c, b)
             new == <<Post("send_app_data", <<>>), Post("write", <<>>)>>
  <2>2. app_call(c, call) = r
    BY <2>1 DEF app_call
  <2>3. r.tcb.state = c.tcb.state /\ r.tcb.next_state = c.tcb.next_state
    BY DEF async_write, Context, TcbT
  <2>4. r.posts = c.posts \/ r.posts = c.posts \o new
    BY DEF async_write, Context
  <2>5. new \in Seq(Handler) /\ ~Reports(new)
    BY EmptySeq DEF Post, Handler, HandlerKind, Reports
  <2>6. <<>> \in Seq(Handler)
    BY EmptySeq
  <2> HIDE DEF r, new
  <2>7. ~Reports(c.posts \o new)
    BY <2>5, <2>6, ReportsConcat, NoReports
  <2>8. QED
    BY <2>2, <2>3, <2>4, <2>7, NoReports
<1>4. QED
  BY <1>1, <1>2, <1>3 DEF Calls

\* So do the handlers a TCB posts, except that a segment they send completes
\* the move to next_state_: outside the handshake, from CLOSE-WAIT to TIME-WAIT.
LEMMA HandlersLife ==
    ASSUME NEW t \in TcbT, InPairs(t), t.state \notin Handshake
    PROVE  /\ Moved(t.state, send_app_data(Call(t))) /\ ~Reports(send_app_data(Call(t)).posts)
           /\ \A call \in Calls(t, Bufs) :
                /\ Moved(t.state, app_call(Call(t), call)) /\ ~Reports(app_call(Call(t), call).posts)
                /\ Moved(t.state, read_handler(Call(t), call)) /\ ~Reports(read_handler(Call(t), call).posts)
<1> DEFINE c == Call(t)
<1>1. c \in Context /\ c.tcb = t /\ c.posts = <<>>
  BY CallType DEF Call
<1> HIDE DEF c
<1>2. \A r : /\ ~Reports(r.posts) /\ r.tcb.next_state = t.next_state
              /\ r.tcb.state \in {t.state, t.next_state}
              => Moved(t.state, r)
  BY DEF Moved, InPairs, StatePairs, QuietMoves, Handshake
<1>3. Moved(t.state, send_app_data(c)) /\ ~Reports(send_app_data(c).posts)
  <2>1. /\ send_app_data(c).posts = <<>>
        /\ send_app_data(c).tcb.next_state = t.next_state
        /\ send_app_data(c).tcb.state \in {t.state, t.next_state}
    BY <1>1, SendAppDataFrame
  <2>2. QED
    BY <1>2, <2>1, NoReports
<1>4. ASSUME NEW call \in Calls(t, Bufs)
      PROVE  /\ Moved(t.state, app_call(c, call)) /\ ~Reports(app_call(c, call).posts)
             /\ Moved(t.state, read_handler(c, call)) /\ ~Reports(read_handler(c, call).posts)
  <2> DEFINE a == app_call(c, call)
             r == read_handler(c, call)
  <2>1. a.tcb.state = t.state /\ a.tcb.next_state = t.next_state /\ ~Reports(a.posts)
    BY <1>1, AppCallLife
  <2>2. a \in Context
    BY <1>1, AppCallType, TcbEnvironment
  <2>3. r \in {a, make_and_send_pkt(a)}
    BY DEF read_handler
  <2> HIDE DEF a, r
  <2>4. r.tcb.next_state = t.next_state /\ r.tcb.state \in {t.state, t.next_state} /\ ~Reports(r.posts)
    BY <2>1, <2>2, <2>3, MakeAndSendFrame
  <2>5. Moved(t.state, a) /\ Moved(t.state, r)
    BY <1>2, <2>1, <2>4
  <2>6. QED
    BY <2>1, <2>4, <2>5 DEF a, r
<1>5. QED
  BY <1>3, <1>4 DEF c

\* A step that leaves context r behind, with the handlers q still waiting, when
\* the invariants hold before it.
Moves(r, q) ==
    /\ Commit(r, q)
    /\ Moved(tcb.state, r)
    /\ Reports(q) => Reports(ioq)
    /\ sock' => sock \/ Reports(ioq)
    /\ tcb.state \in Handshake => q = <<>>
    /\ InFlightBounded => FlightBounded(r.tcb)
    /\ r.tcb.state = "SynSent" => r.tcb = tcb

\* Every step moves the TCB along its life cycle: before the handshake is over
\* no handler waits and no socket exists, so the step can only be an arrival.
LEMMA StepMoves ==
    ASSUME TypeOK, Lifecycle, NotifiedOnce, Next
    PROVE  \E r \in Context, q \in Seq(Handler) : Moves(r, q)
<1>1. /\ tcb \in TcbT /\ Call(tcb) \in Context /\ Call(tcb).tcb = tcb
      /\ ioq \in Seq(Handler) /\ sock \in BOOLEAN
  BY CallType DEF TypeOK, Call
<1>2. Bufs \subseteq Seq(Byte) /\ InPairs(tcb)
  BY TcbEnvironment DEF Lifecycle, InPairs
<1>3. InFlightBounded => FlightBounded(Call(tcb).tcb)
  BY <1>1 DEF InFlightBounded
<1>4. ASSUME NEW s \in Segments, Receive(s)
      PROVE  \E r \in Context, q \in Seq(Handler) : Moves(r, q)
  <2>1. PICK isn \in Isns, una \in clamp(s.ack_no, tcb.seq_nr_unack, tcb.seq_nr_next) :
            Commit(process(Call(tcb), s, isn, una), ioq)
    BY <1>4 DEF Receive
  <2> DEFINE r == process(Call(tcb), s, isn, una)
  <2>2. s \in Segment /\ isn \in SeqNr
    BY TcbEnvironment
  <2>3. una \in SeqNr
    BY <1>1, <2>2, ClampType DEF Segment, TcbT
  <2>4. r \in Context /\ Moved(tcb.state, r)
    BY <1>1, <1>2, <2>2, <2>3, ProcessType, ProcessLife
  <2>5. r.tcb.state = "SynSent" => r.tcb = tcb
    BY <1>1, <1>2, <2>2, <2>3, ProcessLife
  <2>6. InFlightBounded => FlightBounded(r.tcb)
    BY <1>1, <2>1, <2>2, ProcessFlight DEF InFlightBounded
  <2>7. tcb.state \in Handshake => ioq = <<>>
    BY DEF NotifiedOnce
  <2> HIDE DEF r
  <2>8. Moves(r, ioq)
    BY <1>4, <2>1, <2>4, <2>5, <2>6, <2>7 DEF Moves, Receive, r
  <2>9. QED
    BY <1>1, <2>4, <2>8
\* The other steps need a socket or a posted handler.
<1>5. ASSUME tcb.state \notin Handshake, NEW r \in Context, NEW q \in Seq(Handler),
             Reports(q) => Reports(ioq), Commit(r, q), sock' => sock \/ Reports(ioq),
             Moved(tcb.state, r), ~Reports(r.posts), InFlightBounded => FlightBounded(r.tcb)
      PROVE  \E x \in Context, y \in Seq(Handler) : Moves(x, y)
  <2>1. r.tcb.state # "SynSent"
    BY <1>5 DEF Moved, Handshake, QuietMoves
  <2>2. Moves(r, q)
    BY <1>5, <2>1 DEF Moves
  <2>3. QED
    BY <2>2
<1>6. \A call \in Calls(tcb, Bufs) :
        /\ app_call(Call(tcb), call) \in Context
        /\ read_handler(Call(tcb), call) \in Context
        /\ InFlightBounded => /\ FlightBounded(app_call(Call(tcb), call).tcb)
                              /\ FlightBounded(read_handler(Call(tcb), call).tcb)
  BY <1>1, <1>2, <1>3, AppCallType, ReadHandlerType, AppCallFlight, ReadHandlerFlight
<1>7. /\ send_app_data(Call(tcb)) \in Context
      /\ InFlightBounded => FlightBounded(send_app_data(Call(tcb)).tcb)
  BY <1>1, <1>3, SendAppDataType, SendAppDataFlight
<1>8. ASSUME AppCall
      PROVE  \E r \in Context, q \in Seq(Handler) : Moves(r, q)
  <2>1. PICK call \in Calls(tcb, Bufs) : Commit(app_call(Call(tcb), call), ioq)
    BY <1>8 DEF AppCall
  <2>2. sock /\ sock' = sock /\ tcb.state \notin Handshake
    BY <1>8 DEF AppCall, NotifiedOnce
  <2>3. /\ Moved(tcb.state, app_call(Call(tcb), call))
        /\ ~Reports(app_call(Call(tcb), call).posts)
    BY <1>1, <1>2, <2>2, HandlersLife
  <2>4. QED
    BY <1>1, <1>5, <1>6, <2>1, <2>2, <2>3
<1>9. ASSUME NEW kind, Next_handler(kind)
      PROVE  /\ tcb.state \notin Handshake /\ Tail(ioq) \in Seq(Handler)
             /\ Reports(Tail(ioq)) => Reports(ioq)
  <2>1. ioq # <<>> /\ tcb.state \notin Handshake
    BY <1>9 DEF Next_handler, NotifiedOnce
  <2>2. QED
    BY <1>1, <2>1, ReportsTail, HeadTailProperties
<1>10. ASSUME RunEstablished
       PROVE  \E r \in Context, q \in Seq(Handler) : Moves(r, q)
  <2>1. PICK call \in Calls(tcb, Bufs) : Commit(app_call(Call(tcb), call), Tail(ioq))
    BY <1>10 DEF RunEstablished
  <2>2. /\ tcb.state \notin Handshake /\ Tail(ioq) \in Seq(Handler)
        /\ Reports(Tail(ioq)) => Reports(ioq)
    BY <1>9, <1>10 DEF RunEstablished
  <2>3. Reports(ioq)
    <3>1. Head(ioq) = ioq[1] /\ 1 \in DOMAIN ioq
      BY <1>1, <1>10 DEF RunEstablished, Next_handler
    <3>2. QED
      BY <1>10, <3>1 DEF RunEstablished, Next_handler, Reports
  <2>4. /\ Moved(tcb.state, app_call(Call(tcb), call))
        /\ ~Reports(app_call(Call(tcb), call).posts)
    BY <1>1, <1>2, <2>2, HandlersLife
  <2>5. QED
    BY <1>5, <1>6, <2>1, <2>2, <2>3, <2>4
<1>11. ASSUME RunRead
       PROVE  \E r \in Context, q \in Seq(Handler) : Moves(r, q)
  <2>1. PICK call \in Calls(tcb, Bufs) : Commit(read_handler(Call(tcb), call), Tail(ioq))
    BY <1>11 DEF RunRead
  <2>2. /\ tcb.state \notin Handshake /\ Tail(ioq) \in Seq(Handler) /\ sock' = sock
        /\ Reports(Tail(ioq)) => Reports(ioq)
    BY <1>9, <1>11 DEF RunRead
  <2>3. /\ Moved(tcb.state, read_handler(Call(tcb), call))
        /\ ~Reports(read_handler(Call(tcb), call).posts)
    BY <1>1, <1>2, <2>2, HandlersLife
  <2>4. QED
    BY <1>5, <1>6, <2>1, <2>2, <2>3
<1>12. ASSUME RunWrite
       PROVE  \E r \in Context, q \in Seq(Handler) : Moves(r, q)
  <2>1. PICK call \in Calls(tcb, Bufs) : Commit(app_call(Call(tcb), call), Tail(ioq))
    BY <1>12 DEF RunWrite
  <2>2. /\ tcb.state \notin Handshake /\ Tail(ioq) \in Seq(Handler) /\ sock' = sock
        /\ Reports(Tail(ioq)) => Reports(ioq)
    BY <1>9, <1>12 DEF RunWrite
  <2>3. /\ Moved(tcb.state, app_call(Call(tcb), call))
        /\ ~Reports(app_call(Call(tcb), call).posts)
    BY <1>1, <1>2, <2>2, HandlersLife
  <2>4. QED
    BY <1>5, <1>6, <2>1, <2>2, <2>3
<1>13. ASSUME RunSendAppData
       PROVE  \E r \in Context, q \in Seq(Handler) : Moves(r, q)
  <2>1. Commit(send_app_data(Call(tcb)), Tail(ioq))
    BY <1>13 DEF RunSendAppData
  <2>2. /\ tcb.state \notin Handshake /\ Tail(ioq) \in Seq(Handler) /\ sock' = sock
        /\ Reports(Tail(ioq)) => Reports(ioq)
    BY <1>9, <1>13 DEF RunSendAppData
  <2>3. /\ Moved(tcb.state, send_app_data(Call(tcb)))
        /\ ~Reports(send_app_data(Call(tcb)).posts)
    BY <1>1, <1>2, <2>2, HandlersLife
  <2>4. QED
    BY <1>5, <1>7, <2>1, <2>2, <2>3
<1>14. QED
  BY <1>4, <1>8, <1>10, <1>11, <1>12, <1>13 DEF Next

\* A TCB starts in LISTEN or in SYN-SENT.
LEMMA InitLife ==
    ASSUME Init
    PROVE  /\ Lifecycle /\ NotifiedOnce
           /\ tcb.state \in {"Listen", "SynSent"} /\ notified = 0
<1>1. PICK m \in UninitMss :
        \/ tcb = new_tcb("Listen", m) /\ out = <<>>
        \/ \E isn \in Isns :
            LET c == start_connecting(Call(new_tcb("Connecting", m)), isn, MyMss)
            IN  tcb = c.tcb /\ out = c.out
  BY DEF Init
<1>2. <<tcb.state, tcb.next_state>> \in {<<"Listen", "Listen">>, <<"SynSent", "Established">>}
  <2>1. CASE tcb = new_tcb("Listen", m)
    BY <2>1 DEF new_tcb
  <2>2. CASE \E isn \in Isns :
              tcb = start_connecting(Call(new_tcb("Connecting", m)), isn, MyMss).tcb
    BY <2>2 DEF start_connecting, Call, new_tcb
  <2>3. QED
    BY <1>1, <2>1, <2>2
<1>3. ioq = <<>> /\ sock = FALSE /\ notified = 0
  BY DEF Init
<1>4. NotifiedOnce
  BY <1>3, NoReports DEF NotifiedOnce
<1>5. QED
  BY <1>2, <1>3, <1>4 DEF Lifecycle, StatePairs

\* A step keeps the life cycle and the single report.
LEMMA StepLife ==
    ASSUME TypeOK, Lifecycle, NotifiedOnce, Next
    PROVE  Lifecycle' /\ NotifiedOnce'
<1>1. PICK r \in Context, q \in Seq(Handler) : Moves(r, q)
  BY StepMoves
<1>2. /\ tcb' = r.tcb /\ ioq' = q \o r.posts
      /\ notified' = IF Reports(r.posts) THEN notified + 1 ELSE notified
  BY <1>1 DEF Moves, Commit
<1>3. Lifecycle'
  BY <1>1, <1>2 DEF Moves, Moved, InPairs, Lifecycle, StatePairs
<1>4. Reports(r.posts) => tcb.state \in Handshake
  BY <1>1 DEF Moves, Moved, ReportMoves, Handshake
<1>5. notified' <= 1 /\ (Reports(r.posts) => notified' = 1)
  BY <1>2, <1>4 DEF NotifiedOnce, TypeOK
<1>6. ASSUME tcb'.state \in Handshake PROVE notified' = 0 /\ ioq' = <<>>
  <2>1. r.posts = <<>> /\ ~Reports(r.posts)
    BY <1>1, <1>2, <1>6, NoReports DEF Moves, Moved
  <2>2. tcb.state \in Handshake
    BY <1>1, <1>2, <1>6, <2>1 DEF Moves, Moved, QuietMoves, Handshake
  <2>3. q = <<>>
    BY <1>1, <2>2 DEF Moves
  <2>4. <<>> \o <<>> = <<>>
    OBVIOUS
  <2>5. QED
    BY <1>2, <2>1, <2>2, <2>3, <2>4 DEF NotifiedOnce
<1>7. ASSUME sock' \/ Reports(ioq') PROVE notified' = 1
  <2>1. Reports(ioq') => Reports(q) \/ Reports(r.posts)
    BY <1>2, ReportsConcat DEF Context
  <2>2. CASE Reports(r.posts)
    BY <1>5, <2>2
  <2>3. CASE ~Reports(r.posts)
    <3>1. sock \/ Reports(ioq)
      BY <1>1, <1>7, <2>1, <2>3 DEF Moves
    <3>2. QED
      BY <1>2, <2>3, <3>1 DEF NotifiedOnce
  <2>4. QED
    BY <2>2, <2>3
<1>8. NotifiedOnce'
  BY <1>5, <1>6, <1>7 DEF NotifiedOnce
<1>9. QED
  BY <1>3, <1>8

\* The two invariants hold in every reachable state, whatever segments arrive and
\* whatever the application calls: state_ and next_state_ are a pair of StatePairs,
\* and listen_finish() posts on_connection_established_ at most once, not before
\* the handshake is over.  Neither is inductive alone: a posted handler that sent
\* a segment in SYN-SENT would move the TCB with no report, and it is NotifiedOnce
\* that says there is none.
THEOREM LifeIsOrderly == Spec => [](Lifecycle /\ NotifiedOnce)
<1> DEFINE Inv == TypeOK /\ Lifecycle /\ NotifiedOnce
<1>1. Init => Inv
  BY InitType, InitLife
<1>2. Inv /\ [Next]_vars => Inv'
  <2> SUFFICES ASSUME Inv, [Next]_vars PROVE Inv'
    OBVIOUS
  <2>1. CASE Next
    BY <2>1, StepLife, StepCommits, CommitType
  <2>2. CASE UNCHANGED vars
    BY <2>2 DEF vars, TypeOK, Lifecycle, NotifiedOnce
  <2>3. QED
    BY <2>1, <2>2
<1>3. QED
  BY <1>1, <1>2, PTL DEF Spec

\* Lifecycle by itself, as the run of Tcb checks it: process(), make_packet() and
\* listen_finish() never leave state_ and next_state_ outside StatePairs.
THEOREM LifeStatesArePaired == Spec => []Lifecycle
BY LifeIsOrderly, PTL

\* Tcb implements TcbLife: each handler takes the state and the report to a
\* successor in the abstract life cycle or leaves both alone.
THEOREM TcbImplementsTcbLife == Spec => ImplementsTcbLife
<1> DEFINE Inv == TypeOK /\ Lifecycle /\ NotifiedOnce
           l == [state |-> tcb.state, notified |-> notified > 0]
<1>1. Spec => []Inv
  BY TypeCorrect, LifeIsOrderly, PTL
<1>2. Init => Abstract!Init
  <2> SUFFICES ASSUME Init PROVE Abstract!Init
    OBVIOUS
  <2>1. tcb.state \in {"Listen", "SynSent"} /\ notified = 0
    BY InitLife
  <2>2. (notified > 0) = FALSE
    BY <2>1
  <2>3. l \in {Abstract!Born("Listen"), Abstract!Born("SynSent")}
    BY <2>1, <2>2, Zenon DEF Abstract!Born
  <2>4. QED
    BY <2>3 DEF Abstract!Init
<1>3. Inv /\ [Next]_vars => [Abstract!Next]_l
  <2> SUFFICES ASSUME Inv, [Next]_vars PROVE [Abstract!Next]_l
    OBVIOUS
  <2>1. CASE UNCHANGED vars
    BY <2>1 DEF vars
  <2>2. CASE Next
    <3>1. PICK r \in Context, q \in Seq(Handler) : Moves(r, q)
      BY <2>2, StepMoves
    <3>2. /\ tcb' = r.tcb
          /\ notified' = IF Reports(r.posts) THEN notified + 1 ELSE notified
      BY <3>1 DEF Moves, Commit
    <3>3. notified \in Nat /\ (tcb.state \in Handshake => notified = 0)
      BY DEF TypeOK, NotifiedOnce
    <3>4. CASE Reports(r.posts)
      <4>1. <<tcb.state, tcb'.state>> \in ReportMoves /\ notified = 0 /\ notified' = 1
        BY <3>1, <3>2, <3>3, <3>4 DEF Moves, Moved, ReportMoves, Handshake
      <4> (notified' > 0) = TRUE
        BY <4>1
      <4>2. l' = [state |-> tcb'.state, notified |-> TRUE] /\ l.state = tcb.state
        BY Zenon
      <4>3. QED
        BY <4>1, <4>2 DEF ReportMoves, Abstract!Next, Abstract!Successors
    <3>5. CASE ~Reports(r.posts)
      <4>1. /\ tcb.state = tcb'.state \/ <<tcb.state, tcb'.state>> \in QuietMoves
            /\ notified' = notified
        BY <3>1, <3>2, <3>5 DEF Moves, Moved
      <4>2. l' = [l EXCEPT !.state = tcb'.state] /\ l.state = tcb.state
        BY <4>1
      <4>3. CASE tcb.state = tcb'.state
        BY <4>1, <4>3
      <4>4. CASE <<tcb.state, tcb'.state>> \in QuietMoves \ {<<"SynReceived", "CloseWait">>}
        BY <4>2, <4>4 DEF QuietMoves, Abstract!Next, Abstract!Successors
      <4>5. CASE tcb.state = "SynReceived" /\ tcb'.state = "CloseWait"
        <5> (notified' > 0) = FALSE
          BY <3>3, <4>1, <4>5 DEF Handshake
        <5>1. l' = [state |-> "CloseWait", notified |-> FALSE]
          BY <4>5, Zenon
        <5>2. QED
          BY <4>2, <4>5, <5>1 DEF Abstract!Next, Abstract!Successors
      <4>6. QED
        BY <4>1, <4>3, <4>4, <4>5
    <3>6. QED
      BY <3>4, <3>5
  <2>3. QED
    BY <2>1, <2>2
<1>4. QED
  BY <1>1, <1>2, <1>3, PTL DEF Spec, ImplementsTcbLife, Abstract!Spec

-----------------------------------------------------------------------------

\* What is in flight, and what waits to be sent, never exceeds the window the
\* peer announced, for any sequence number space, window and sequence of segments
\* and calls.  InFlightBounded is inductive together with the type invariant:
\* the queue is bounded by its capacity, sending moves SND.NXT no further than
\* the end of the queue, and no acknowledgment moves SND.UNA away from SND.NXT.
THEOREM FlightIsBounded == Spec => []InFlightBounded
<1>1. Init => InFlightBounded
  <2> SUFFICES ASSUME Init PROVE InFlightBounded
    OBVIOUS
  <2>1. PICK m \in UninitMss :
          \/ tcb = new_tcb("Listen", m) /\ out = <<>>
          \/ \E isn \in Isns :
              LET c == start_connecting(Call(new_tcb("Connecting", m)), isn, MyMss)
              IN  tcb = c.tcb /\ out = c.out
    BY DEF Init
  <2>2. \A x \in SeqNr : Sub(x, x) = 0
    <3> TAKE x \in SeqNr
    <3>1. Sub(x, x) = IF x >= x THEN x - x ELSE x - x + SeqSpace
      BY SubExact
    <3>2. QED
      BY <3>1 DEF SeqNr
  <2>3. CASE tcb = new_tcb("Listen", m)
    <3>1. /\ tcb.seq_nr_next = 0 /\ tcb.seq_nr_unack = 0 /\ tcb.snd_cap = 0
          /\ tcb.snd_pq = <<>> /\ tcb.state = "Listen"
      BY <2>3 DEF new_tcb
    <3>2. 0 \in SeqNr
      BY TcbConstants DEF SeqNr
    <3>3. in_flight(tcb) = 0
      BY <2>2, <3>1, <3>2 DEF in_flight
    <3>4. QED
      BY <3>1, <3>3 DEF InFlightBounded, FlightBounded
  <2>4. CASE \E isn \in Isns :
              tcb = start_connecting(Call(new_tcb("Connecting", m)), isn, MyMss).tcb
    <3>1. PICK isn \in Isns :
              tcb = start_connecting(Call(new_tcb("Connecting", m)), isn, MyMss).tcb
      BY <2>4
    <3>2. /\ tcb.seq_nr_next = Add(isn, 1) /\ tcb.seq_nr_unack = isn /\ tcb.snd_cap = 0
          /\ tcb.snd_pq = <<>>
      BY <3>1 DEF start_connecting, Call, new_tcb
    <3>3. isn \in SeqNr /\ Sub(isn, isn) = 0
      BY <2>2, TcbEnvironment
    <3>4. Sub(isn, isn) + 1 < SeqSpace
      BY <3>3, TcbConstants
    <3>5. Sub(Add(isn, 1), isn) = Sub(isn, isn) + 1
      BY <3>3, <3>4, SendGrows
    <3>6. in_flight(tcb) = 1
      BY <3>2, <3>3, <3>5 DEF in_flight
    <3>7. QED
      BY <3>2, <3>6 DEF InFlightBounded, FlightBounded
  <2>5. QED
    BY <2>1, <2>3, <2>4
<1>2. TypeOK /\ Lifecycle /\ NotifiedOnce /\ InFlightBounded /\ [Next]_vars => InFlightBounded'
  <2> SUFFICES ASSUME TypeOK, Lifecycle, NotifiedOnce, InFlightBounded, [Next]_vars
               PROVE  InFlightBounded'
    OBVIOUS
  <2>1. CASE Next
    <3>1. PICK r \in Context, q \in Seq(Handler) : Moves(r, q)
      BY <2>1, StepMoves
    <3>2. tcb' = r.tcb /\ FlightBounded(r.tcb) /\ (r.tcb.state = "SynSent" => r.tcb = tcb)
      BY <3>1 DEF Moves, Commit
    <3>3. FlightBounded(tcb) /\ (tcb.state = "SynSent" => in_flight(tcb) <= 1)
      BY DEF InFlightBounded
    <3>4. FlightBounded(tcb')
      BY <3>2
    <3>5. tcb'.state = "SynSent" => in_flight(tcb') <= 1
      BY <3>2, <3>3
    <3>6. QED
      BY <3>4, <3>5 DEF InFlightBounded, FlightBounded, in_flight
  <2>2. CASE UNCHANGED vars
    BY <2>2 DEF vars, InFlightBounded, FlightBounded, in_flight
  <2>3. QED
    BY <2>1, <2>2
<1>3. QED
  BY <1>1, <1>2, TypeCorrect, LifeIsOrderly, PTL DEF Spec

-----------------------------------------------------------------------------
(* Waiting reads and received data *)

\* Context r has the receiving side of c and no assert has failed in between.
SameReads(c, r) ==
    /\ r.tcb.rcv_pq = c.tcb.rcv_pq
    /\ r.tcb.on_data_receive = c.tcb.on_data_receive
    /\ r.abort = c.abort

\* At most one read waits, and it waits for want of data.
ReadsApart(t) ==
    /\ Len(t.on_data_receive) <= 1
    /\ t.on_data_receive # <<>> => t.rcv_pq = <<>>

\* The reads that wait with t still do with u, in their order, and no data came.
StillWait(t, u) ==
    /\ Len(u.rcv_pq) <= Len(t.rcv_pq)
    /\ Len(u.on_data_receive) >= Len(t.on_data_receive)
    /\ SubSeq(u.on_data_receive, 1, Len(t.on_data_receive)) = t.on_data_receive

\* Sending leaves the receiving side as it is.
LEMMA SendingReads ==
    ASSUME NEW c \in Context, NEW u \in TcbT,
           u.rcv_pq = c.tcb.rcv_pq, u.on_data_receive = c.tcb.on_data_receive
    PROVE  /\ SameReads(c, [c EXCEPT !.tcb = u])
           /\ SameReads(c, make_and_send_pkt([c EXCEPT !.tcb = u]))
<1> DEFINE d == [c EXCEPT !.tcb = u]
<1>1. d \in Context /\ d.tcb = u /\ d.abort = c.abort
  BY DEF Context
<1> HIDE DEF d
<1>2. /\ make_and_send_pkt(d).tcb.rcv_pq = u.rcv_pq
      /\ make_and_send_pkt(d).tcb.on_data_receive = u.on_data_receive
      /\ make_and_send_pkt(d).abort = c.abort
  BY <1>1, MakeAndSendFrame
<1>3. QED
  BY <1>1, <1>2 DEF SameReads, d

\* The SYN exchange does: what it sets is the state and the sequence numbers.
LEMMA HandshakeReads ==
    ASSUME NEW c \in Context, NEW s \in Segment, NEW isn \in SeqNr
    PROVE  /\ SameReads(c, tcp_handle_listen_state(c, s, isn))
           /\ SameReads(c, tcp_handle_syn_sent(c, s))
<1> DEFINE t == c.tcb
           u == [t EXCEPT
                !.mss = accept_mss(t, s), !.rcv_next = Add(s.seq_no, 1),
                !.snd_cap = s.window, !.snd_pq = <<>>,
                !.seq_nr_next = Add(isn, 1), !.seq_nr_unack = isn,
                !.next_state = "SynReceived"]
           v == [t EXCEPT
                !.mss = accept_mss(t, s), !.rcv_next = Add(s.seq_no, 1),
                !.snd_cap = s.window, !.snd_pq = <<>>,
                !.seq_nr_unack = s.ack_no,
                !.state = "Established", !.next_state = "Established"]
           d == make_and_send_pkt([c EXCEPT !.tcb = v])
<1>1. /\ t \in TcbT /\ s.seq_no \in SeqNr /\ s.window \in SeqNr /\ s.ack_no \in SeqNr
      /\ <<>> \in Seq(Byte) /\ "SynReceived" \in TcpState /\ "Established" \in TcpState
  BY EmptySeq DEF Context, Segment, TcpState
<1>2. accept_mss(t, s) \in Nat /\ Add(s.seq_no, 1) \in SeqNr /\ Add(isn, 1) \in SeqNr
  BY <1>1, AcceptMssType, AddType
<1>3. /\ u \in TcbT /\ u.rcv_pq = t.rcv_pq /\ u.on_data_receive = t.on_data_receive
      /\ v \in TcbT /\ v.rcv_pq = t.rcv_pq /\ v.on_data_receive = t.on_data_receive
  <2> HIDE DEF t
  <2>1. QED
    BY <1>1, <1>2 DEF TcbT
<1>4. SameReads(c, c)
  BY DEF SameReads
<1>5. tcp_handle_listen_state(c, s, isn) \in {c, make_and_send_pkt([c EXCEPT !.tcb = u])}
  BY DEF tcp_handle_listen_state
<1>6. tcp_handle_syn_sent(c, s) \in {c, listen_finish(d)}
  BY DEF tcp_handle_syn_sent
<1> HIDE DEF u, v
<1>7. SameReads(c, make_and_send_pkt([c EXCEPT !.tcb = u])) /\ SameReads(c, d)
  BY <1>3, SendingReads
<1> HIDE DEF d
<1>8. SameReads(c, listen_finish(d))
  <2>1. d \in Context
    <3>1. [c EXCEPT !.tcb = v] \in Context
      BY <1>3 DEF Context
    <3>2. QED
      BY <3>1, MakeAndSendType DEF d
  <2>2. listen_finish(d).tcb = d.tcb /\ listen_finish(d).abort = d.abort
    BY <2>1 DEF listen_finish, Context
  <2>3. QED
    BY <1>7, <2>2 DEF SameReads
<1>9. QED
  BY <1>4, <1>5, <1>6, <1>7, <1>8

\* So does the ACK step.
LEMMA AckReads ==
    ASSUME NEW c \in Context, NEW s \in Segment, NEW una \in SeqNr
    PROVE  SameReads(c, process_ack(c, s, una))
<1> DEFINE t == c.tcb
           acked == take_ack(t, s, una)
           e == [t EXCEPT !.seq_nr_unack = una, !.state = "Established", !.next_state = "Established"]
           d == [c EXCEPT !.tcb = e]
           x == IF t.state = "FinWait_1" THEN "FinWait_2"
                ELSE IF t.state = "Closing" THEN "TimeWait" ELSE acked.next_state
           y == [acked EXCEPT !.next_state = x]
           m == make_and_send_pkt([c EXCEPT !.tcb = acked])
<1>1. t \in TcbT /\ {"Established", "FinWait_2", "TimeWait", "Closed"} \subseteq TcpState
  BY DEF Context, TcpState
<1>2. acked \in TcbT
  BY <1>1, TakeAckType
<1>3. acked.rcv_pq = t.rcv_pq /\ acked.on_data_receive = t.on_data_receive
  <2> DEFINE p == Drop(t.snd_pq, Lesser(Len(t.snd_pq), Sub(s.ack_no, t.seq_nr_unack)))
  <2>1. acked = [t EXCEPT !.snd_pq = p, !.seq_nr_unack = una]
    BY DEF take_ack
  <2> HIDE DEF p, acked, t
  <2>2. QED
    BY <1>1, <2>1 DEF TcbT
<1>4. e \in TcbT /\ e.rcv_pq = t.rcv_pq /\ e.on_data_receive = t.on_data_receive
  <2> HIDE DEF t
  <2>1. QED
    BY <1>1 DEF TcbT
<1>5. x \in TcpState
  <2>1. acked.next_state \in TcpState
    <3> HIDE DEF acked
    <3>1. QED
      BY <1>2 DEF TcbT
  <2>2. QED
    BY <1>1, <2>1
<1>6. y \in TcbT /\ y.rcv_pq = t.rcv_pq /\ y.on_data_receive = t.on_data_receive
  <2> HIDE DEF acked, x
  <2>1. QED
    BY <1>2, <1>3, <1>5 DEF TcbT
<1>7. \/ process_ack(c, s, una) = c
      \/ process_ack(c, s, una) = [c EXCEPT !.ret = TRUE]
      \/ process_ack(c, s, una) = listen_finish(d)
      \/ process_ack(c, s, una) = [m EXCEPT !.ret = TRUE]
      \/ process_ack(c, s, una) = [c EXCEPT !.tcb = y]
      \/ process_ack(c, s, una) = [c EXCEPT !.tcb.next_state = "Closed", !.ret = TRUE]
      \/ process_ack(c, s, una) = make_and_send_pkt(c)
  BY ProcessAckCases
<1> HIDE DEF e, y, acked, x
<1>8. SameReads(c, c) /\ SameReads(c, [c EXCEPT !.ret = TRUE])
  BY DEF SameReads, Context
<1>9. SameReads(c, listen_finish(d))
  <2>1. d.tcb = e /\ d.abort = c.abort
    BY DEF Context
  <2>2. listen_finish(d).tcb = d.tcb /\ listen_finish(d).abort = d.abort
    BY DEF listen_finish, Context
  <2> HIDE DEF d
  <2>3. QED
    BY <1>4, <2>1, <2>2 DEF SameReads
<1>10. SameReads(c, [m EXCEPT !.ret = TRUE])
  <2>1. SameReads(c, m)
    BY <1>2, <1>3, SendingReads
  <2>2. m \in Context
    <3>1. [c EXCEPT !.tcb = acked] \in Context
      BY <1>2 DEF Context
    <3>2. QED
      BY <3>1, MakeAndSendType
  <2> HIDE DEF m
  <2>3. [m EXCEPT !.ret = TRUE].tcb = m.tcb /\ [m EXCEPT !.ret = TRUE].abort = m.abort
    BY <2>2 DEF Context
  <2>4. QED
    BY <2>1, <2>3 DEF SameReads
<1>11. SameReads(c, [c EXCEPT !.tcb = y])
  BY <1>6, SendingReads
<1>12. SameReads(c, [c EXCEPT !.tcb.next_state = "Closed", !.ret = TRUE])
  BY DEF SameReads, Context, TcbT
<1>13. SameReads(c, make_and_send_pkt(c))
  BY MakeAndSendFrame DEF SameReads
<1>14. QED
  BY <1>7, <1>8, <1>9, <1>10, <1>11, <1>12, <1>13

\* And the FIN step.
LEMMA FinReads ==
    ASSUME NEW c \in Context, NEW s \in Segment
    PROVE  SameReads(c, process_fin(c, s))
<1> DEFINE u == [c.tcb EXCEPT !.rcv_next = Add(@, 1), !.next_state = "CloseWait"]
           m == make_and_send_pkt([c EXCEPT !.tcb = u])
<1>1. u \in TcbT /\ u.rcv_pq = c.tcb.rcv_pq /\ u.on_data_receive = c.tcb.on_data_receive
  <2>1. c.tcb \in TcbT /\ c.tcb.rcv_next \in SeqNr /\ "CloseWait" \in TcpState
    BY DEF Context, TcbT, TcpState
  <2>2. Add(c.tcb.rcv_next, 1) \in SeqNr
    BY <2>1, AddType
  <2>3. QED
    BY <2>1, <2>2 DEF TcbT
<1>2. process_fin(c, s) \in {c, [m EXCEPT !.tcb.next_state = "TimeWait"],
                             [c EXCEPT !.tcb.next_state = "TimeWait"]}
  BY ProcessFinCases
<1> HIDE DEF u
<1>3. SameReads(c, m)
  BY <1>1, SendingReads
<1>4. m \in Context
  <2>1. [c EXCEPT !.tcb = u] \in Context
    BY <1>1 DEF Context
  <2>2. QED
    BY <2>1, MakeAndSendType
<1> HIDE DEF m
<1>5. SameReads(m, [m EXCEPT !.tcb.next_state = "TimeWait"])
  BY <1>4 DEF SameReads, Context, TcbT
<1>6. SameReads(c, [c EXCEPT !.tcb.next_state = "TimeWait"]) /\ SameReads(c, c)
  BY DEF SameReads, Context, TcbT
<1>7. SameReads(c, [m EXCEPT !.tcb.next_state = "TimeWait"])
  BY <1>3, <1>5 DEF SameReads
<1>8. QED
  BY <1>2, <1>6, <1>7

\* Nothing waits behind a single read.
LEMMA TailOfOne ==
    ASSUME NEW w \in Seq(Nat), w # <<>>, Len(w) <= 1
    PROVE  Len(Tail(w)) = 0 /\ Tail(w) = <<>>
<1>1. Len(w) \in Nat /\ Len(w) # 0
  BY EmptySeq
<1>2. Tail(w) \in Seq(Nat) /\ Len(Tail(w)) = Len(w) - 1
  BY HeadTailProperties
<1>3. Len(Tail(w)) = 0
  BY <1>1, <1>2
<1>4. QED
  BY <1>2, <1>3, EmptySeq

\* The text step gives text to the read that waits and keeps the rest, so it
\* leaves data behind only when that was the last one that waited.
LEMMA TextReads ==
    ASSUME NEW c \in Context, NEW s \in Segment, ReadsApart(c.tcb), c.abort # "rcv_pq_not_empty"
    PROVE  /\ ReadsApart(process_text(c, s).tcb)
           /\ process_text(c, s).abort # "rcv_pq_not_empty"
<1> DEFINE t == c.tcb
           n == Lesser(Len(s.data), Head(t.on_data_receive))
           r1 == [c EXCEPT !.abort = "rcv_overflow"]
           r2 == [c EXCEPT !.tcb.rcv_pq = @ \o s.data]
           r3 == [c EXCEPT
                    !.tcb = [t EXCEPT !.on_data_receive = Tail(@), !.rcv_next = Add(@, n),
                                      !.rcv_pq = Drop(s.data, n)],
                    !.posts = Append(@, Post("read", Take(s.data, n)))]
           Good(r) == ReadsApart(r.tcb) /\ r.abort # "rcv_pq_not_empty"
<1>1. t \in TcbT /\ t.on_data_receive \in Seq(Nat)
  BY DEF Context, TcbT
<1>2. Good(c) /\ Good(r1)
  <2>1. r1.tcb = c.tcb /\ r1.abort = "rcv_overflow"
    BY DEF Context
  <2>2. QED
    BY <2>1
<1>3. t.on_data_receive = <<>> => Good(r2)
  <2>1. r2.tcb.on_data_receive = t.on_data_receive /\ r2.abort = c.abort
    BY DEF Context, TcbT
  <2> HIDE DEF r2
  <2>2. QED
    BY <2>1 DEF ReadsApart
<1>4. t.on_data_receive # <<>> => Good(r3)
  <2>1. r3.tcb.on_data_receive = Tail(t.on_data_receive) /\ r3.abort = c.abort
    <3> HIDE DEF n
    <3>1. QED
      BY DEF Context, TcbT
  <2>2. t.on_data_receive # <<>> => Len(Tail(t.on_data_receive)) = 0 /\ Tail(t.on_data_receive) = <<>>
    <3> SUFFICES ASSUME t.on_data_receive # <<>> PROVE Len(Tail(t.on_data_receive)) = 0 /\ Tail(t.on_data_receive) = <<>>
      OBVIOUS
    <3>1. Len(t.on_data_receive) <= 1
      BY DEF ReadsApart
    <3> HIDE DEF t
    <3>2. QED
      BY <1>1, <3>1, TailOfOne
  <2> HIDE DEF r3
  <2>3. QED
    BY <2>1, <2>2 DEF ReadsApart
<1>5. t.on_data_receive # <<>> => t.rcv_pq = <<>>
  BY DEF ReadsApart
<1>6. \/ process_text(c, s) = c
      \/ process_text(c, s) = r1
      \/ t.on_data_receive = <<>> /\ process_text(c, s) = r2
      \/ t.on_data_receive # <<>> /\ process_text(c, s) = r3
  BY <1>5, ProcessTextCases
<1> HIDE DEF Good, r1, r2, r3
<1>7. Good(process_text(c, s))
  BY <1>2, <1>3, <1>4, <1>6
<1>8. QED
  BY <1>7 DEF Good

\* process() keeps waiting reads and data apart, whatever segment arrives; and
\* behind a FIN it brings no text to either.
LEMMA ProcessReads ==
    ASSUME NEW t \in TcbT, NEW s \in Segment, NEW isn \in SeqNr, NEW una \in SeqNr
    PROVE  LET r == process(Call(t), s, isn, una)
           IN  /\ ReadsApart(t) => ReadsApart(r.tcb) /\ r.abort # "rcv_pq_not_empty"
               /\ InPairs(t) /\ t.state \in {"CloseWait", "TimeWait"} => SameReads(Call(t), r)
<1> DEFINE c == Call(t)
           a == process_ack(c, s, una)
           x == process_text(a, s)
           f == process_fin(x, s)
           Good(r) == ReadsApart(r.tcb) /\ r.abort # "rcv_pq_not_empty"
           r0 == process(c, s, isn, una)
<1>1. c \in Context /\ c.tcb = t /\ c.abort = "none" /\ c.posts = <<>>
  BY CallType DEF Call
<1> HIDE DEF c
<1>2. \A d, e : SameReads(d, e) /\ Good(d) => Good(e)
  BY DEF SameReads, ReadsApart
<1>3. a \in Context /\ SameReads(c, a)
  BY <1>1, ProcessAckType, AckReads
<1>4. InPairs(t) /\ t.state \in {"CloseWait", "TimeWait"} => a.tcb.state \in {"CloseWait", "TimeWait"}
  <2> SUFFICES ASSUME InPairs(t), t.state \in {"CloseWait", "TimeWait"}
               PROVE  a.tcb.state \in {"CloseWait", "TimeWait"}
    OBVIOUS
  <2>1. Moved(t.state, a)
    BY <1>1, ProcessAckLife DEF Synchronized
  <2>2. QED
    BY <2>1 DEF Moved, ReportMoves, QuietMoves
<1> HIDE DEF a
<1>5. x \in Context /\ (ReadsApart(t) => Good(x))
  <2>1. x \in Context
    BY <1>3, ProcessTextType
  <2>2. ReadsApart(t) => Good(a)
    BY <1>1, <1>2, <1>3
  <2>3. QED
    BY <1>3, <2>1, <2>2, TextReads
<1>6. a.tcb.state \in {"CloseWait", "TimeWait"} => x = a
  BY DEF process_text
<1> HIDE DEF x
<1>7. SameReads(x, f)
  BY <1>5, FinReads
<1> HIDE DEF f
<1>8. /\ SameReads(c, tcp_handle_listen_state(c, s, isn)) /\ SameReads(c, tcp_handle_syn_sent(c, s))
      /\ SameReads(c, c)
  BY <1>1, HandshakeReads DEF SameReads
<1>9. \/ r0 = c \/ r0 = f
      \/ t.state = "Listen" /\ r0 = tcp_handle_listen_state(c, s, isn)
      \/ t.state = "SynSent" /\ r0 = tcp_handle_syn_sent(c, s)
  BY <1>1 DEF process, tcp_handle_close_state, a, x, f
<1> HIDE DEF Good, r0
<1>10. ReadsApart(t) => Good(c)
  BY <1>1 DEF Good
<1>11. ReadsApart(t) => Good(r0)
  BY <1>2, <1>5, <1>7, <1>8, <1>9, <1>10
<1>12. InPairs(t) /\ t.state \in {"CloseWait", "TimeWait"} => SameReads(c, r0)
  <2> SUFFICES ASSUME InPairs(t), t.state \in {"CloseWait", "TimeWait"} PROVE SameReads(c, r0)
    OBVIOUS
  <2>1. SameReads(c, f)
    BY <1>3, <1>4, <1>6, <1>7 DEF SameReads
  <2>2. QED
    BY <1>8, <1>9, <2>1
<1>13. QED
  BY <1>11, <1>12 DEF Good, c, r0

\* A call of the application takes data from the front or waits behind the reads
\* that wait already, and it waits only when there is no data.
LEMMA AppCallReads ==
    ASSUME NEW t \in TcbT, NEW call \in Calls(t, Bufs)
    PROVE  LET r == app_call(Call(t), call)
           IN  /\ StillWait(t, r.tcb) /\ r.abort # "rcv_pq_not_empty"
               /\ MaxReads <= 1 /\ ReadsApart(t) => ReadsApart(r.tcb)
<1> DEFINE c == Call(t)
           r == app_call(c, call)
           w == t.on_data_receive
<1>1. /\ c \in Context /\ c.tcb = t /\ c.abort = "none"
      /\ t.rcv_pq \in Seq(Byte) /\ Len(t.rcv_pq) \in Nat /\ w \in Seq(Nat) /\ Len(w) \in Nat
  BY CallType DEF Call, TcbT
<1>2. SubSeq(w, 1, Len(w)) = w
  BY <1>1
<1> HIDE DEF c
<1>3. ASSUME r.tcb.rcv_pq = t.rcv_pq, r.tcb.on_data_receive = w
      PROVE  StillWait(t, r.tcb) /\ (ReadsApart(t) => ReadsApart(r.tcb))
  BY <1>1, <1>2, <1>3 DEF StillWait, ReadsApart
<1>4. CASE call = Idle
  <2>1. r = c
    BY <1>4 DEF Idle, app_call
  <2>2. QED
    BY <1>1, <1>3, <2>1 DEF c
<1>5. CASE \E b \in Bufs : call = [op |-> "write", size |-> 0, buf |-> b]
  <2>1. PICK b \in Bufs : call = [op |-> "write", size |-> 0, buf |-> b]
    BY <1>5
  <2>2. r = async_write(c, b)
    BY <2>1 DEF app_call
  <2>3. r.tcb.rcv_pq = t.rcv_pq /\ r.tcb.on_data_receive = w /\ r.abort # "rcv_pq_not_empty"
    BY <1>1, <2>2 DEF async_write, Context, TcbT
  <2>4. QED
    BY <1>3, <2>3 DEF c
<1>6. CASE \E k \in {z \in ReadSizes : Len(t.on_data_receive) < MaxReads} :
              call = [op |-> "read", size |-> k, buf |-> <<>>]
  <2>1. PICK k \in ReadSizes : /\ Len(t.on_data_receive) < MaxReads
                               /\ call = [op |-> "read", size |-> k, buf |-> <<>>]
    BY <1>6
  <2>2. r = async_read_some(c, k) /\ k \in Nat
    BY <2>1, ApplicationConstants DEF app_call
  <2>3. CASE t.rcv_pq # <<>>
    <3> DEFINE n == Lesser(Len(t.rcv_pq), k)
    <3>1. n \in Nat /\ n <= Len(t.rcv_pq)
      BY <1>1, <2>2, LesserType
    <3>2. /\ r.tcb.rcv_pq = Drop(t.rcv_pq, n) /\ r.tcb.on_data_receive = w
          /\ r.abort = c.abort
      <4>1. r = [c EXCEPT !.tcb = [t EXCEPT !.rcv_pq = Drop(@, n), !.rcv_next = Add(@, n)],
                          !.posts = Append(@, Post("read", Take(t.rcv_pq, n)))]
        BY <1>1, <2>2, <2>3 DEF async_read_some
      <4> HIDE DEF n, r
      <4>2. QED
        BY <1>1, <4>1 DEF Context, TcbT
    <3> HIDE DEF n, r, w
    <3>3. Len(Drop(t.rcv_pq, n)) = Len(t.rcv_pq) - n
      BY <1>1, <3>1, DropType
    <3>4. StillWait(t, r.tcb)
      BY <1>1, <1>2, <3>1, <3>2, <3>3 DEF StillWait, w
    <3>5. ReadsApart(t) => ReadsApart(r.tcb)
      BY <2>3, <3>2 DEF ReadsApart, w
    <3>6. QED
      BY <1>1, <3>2, <3>4, <3>5 DEF r, c
  <2>4. CASE t.rcv_pq = <<>>
    <3>1. /\ r.tcb.rcv_pq = t.rcv_pq /\ r.tcb.on_data_receive = Append(w, k)
          /\ r.abort = c.abort
      <4>1. r = [c EXCEPT !.tcb.on_data_receive = Append(@, k)]
        BY <1>1, <2>2, <2>4 DEF async_read_some
      <4> HIDE DEF r
      <4>2. QED
        BY <1>1, <4>1 DEF Context, TcbT
    <3>2. /\ Append(w, k) \in Seq(Nat) /\ Len(Append(w, k)) = Len(w) + 1
          /\ \A i \in 1 .. Len(w) : Append(w, k)[i] = w[i]
      BY <1>1, <2>2, AppendProperties
    <3> HIDE DEF r, w
    <3>3. SubSeq(Append(w, k), 1, Len(w)) = w
      <4>1. /\ SubSeq(Append(w, k), 1, Len(w)) \in Seq(Nat)
            /\ Len(SubSeq(Append(w, k), 1, Len(w))) = Len(w)
            /\ \A i \in 1 .. Len(w) : SubSeq(Append(w, k), 1, Len(w))[i] = Append(w, k)[i]
        BY <1>1, <3>2
      <4>2. QED
        BY <1>1, <3>2, <4>1, SeqEqual
    <3>4. StillWait(t, r.tcb)
      BY <1>1, <3>1, <3>2, <3>3 DEF StillWait, w
    <3>5. MaxReads <= 1 => ReadsApart(r.tcb)
      <4>1. MaxReads <= 1 => Len(w) = 0
        BY <1>1, <2>1, ApplicationConstants DEF w
      <4>2. QED
        BY <2>4, <3>1, <3>2, <4>1 DEF ReadsApart
    <3>6. QED
      BY <1>1, <3>1, <3>4, <3>5 DEF r, c
  <2>5. QED
    BY <2>3, <2>4
<1>7. QED
  BY <1>4, <1>5, <1>6 DEF Calls

\* Every step keeps waiting reads and data apart when one read waits at most, and
\* takes nothing for text that comes behind a FIN.
LEMMA StepReads ==
    ASSUME TypeOK, Lifecycle, Next
    PROVE  /\ MaxReads <= 1 /\ ReadsApart(tcb) => ReadsApart(tcb') /\ abort' # "rcv_pq_not_empty"
           /\ FinTaken => StillWait(tcb, tcb')
<1> DEFINE Good(r) ==
               /\ MaxReads <= 1 /\ ReadsApart(tcb) => ReadsApart(r.tcb) /\ r.abort # "rcv_pq_not_empty"
               /\ FinTaken => StillWait(tcb, r.tcb)
<1>1. tcb \in TcbT /\ Call(tcb) \in Context /\ Call(tcb).tcb = tcb /\ Call(tcb).abort = "none"
  BY CallType DEF TypeOK, Call
<1>2. Bufs \subseteq Seq(Byte) /\ InPairs(tcb)
  BY TcbEnvironment DEF Lifecycle, InPairs
<1>3. \A r : SameReads(Call(tcb), r) => Good(r)
  <2>1. StillWait(tcb, tcb)
    <3>1. /\ tcb.on_data_receive \in Seq(Nat) /\ Len(tcb.on_data_receive) \in Nat
          /\ Len(tcb.rcv_pq) \in Nat
      BY <1>1 DEF TcbT
    <3>2. SubSeq(tcb.on_data_receive, 1, Len(tcb.on_data_receive)) = tcb.on_data_receive
      BY <3>1
    <3>3. QED
      BY <3>1, <3>2 DEF StillWait
  <2>2. QED
    BY <1>1, <2>1 DEF SameReads, StillWait, ReadsApart
<1>4. ASSUME NEW call \in Calls(tcb, Bufs)
      PROVE  Good(app_call(Call(tcb), call)) /\ Good(read_handler(Call(tcb), call))
  <2> DEFINE a == app_call(Call(tcb), call)
  <2>1. Good(a) /\ a.abort # "rcv_pq_not_empty"
    BY <1>1, AppCallReads
  <2>2. a \in Context
    BY <1>1, <1>2, AppCallType
  <2>3. read_handler(Call(tcb), call) \in {a, make_and_send_pkt(a)}
    BY DEF read_handler
  <2> HIDE DEF a
  <2>4. Good(make_and_send_pkt(a))
    BY <2>1, <2>2, MakeAndSendFrame DEF ReadsApart, StillWait
  <2> HIDE DEF Good
  <2>5. QED
    BY <2>1, <2>3, <2>4 DEF a
<1>5. Good(send_app_data(Call(tcb)))
  BY <1>1, <1>3, SendAppDataFrame DEF SameReads
<1>6. ASSUME NEW s \in Segments, NEW isn \in Isns,
             NEW una \in clamp(s.ack_no, tcb.seq_nr_unack, tcb.seq_nr_next)
      PROVE  Good(process(Call(tcb), s, isn, una))
  <2>1. s \in Segment /\ isn \in SeqNr
    BY TcbEnvironment
  <2>2. una \in SeqNr
    BY <1>1, <2>1, ClampType DEF Segment, TcbT
  <2> DEFINE r == process(Call(tcb), s, isn, una)
  <2>3. /\ ReadsApart(tcb) => ReadsApart(r.tcb) /\ r.abort # "rcv_pq_not_empty"
        /\ FinTaken => SameReads(Call(tcb), r)
    BY <1>1, <1>2, <2>1, <2>2, ProcessReads DEF FinTaken
  <2> HIDE DEF r
  <2>4. Good(r)
    BY <1>3, <2>3
  <2>5. QED
    BY <2>4 DEF r
<1> HIDE DEF Good
<1>7. \E r, q : Commit(r, q) /\ Good(r)
  <2>1. ASSUME NEW s \in Segments, Receive(s) PROVE \E r, q : Commit(r, q) /\ Good(r)
    BY <1>6, <2>1 DEF Receive
  <2>2. ASSUME AppCall PROVE \E r, q : Commit(r, q) /\ Good(r)
    BY <1>4, <2>2 DEF AppCall
  <2>3. ASSUME RunEstablished \/ RunRead \/ RunWrite PROVE \E r, q : Commit(r, q) /\ Good(r)
    BY <1>4, <2>3 DEF RunEstablished, RunRead, RunWrite
  <2>4. ASSUME RunSendAppData PROVE \E r, q : Commit(r, q) /\ Good(r)
    BY <1>5, <2>4 DEF RunSendAppData
  <2>5. QED
    BY <2>1, <2>2, <2>3, <2>4 DEF Next
<1>8. PICK r, q : Commit(r, q) /\ Good(r)
  BY <1>7
<1>9. tcb' = r.tcb /\ abort' = r.abort
  BY <1>8 DEF Commit
<1>10. QED
  BY <1>8, <1>9 DEF Good

\* assert(rcv_.pq->empty()) in the text step never fails when the application has
\* one read waiting at most, as those of this repository do: async_read_some
\* waits only when there is no data, and the text step serves the read before it
\* queues anything.  With two reads the assert does fail, so the bound is needed;
\* that it bounds on_data_receive is the strengthening.
THEOREM ReadsWaitForWantOfData ==
    ASSUME MaxReads <= 1
    PROVE  Spec => []WaitingReadMeansNoData
<1> DEFINE Inv == ReadsApart(tcb) /\ abort # "rcv_pq_not_empty"
<1>1. Init => Inv
  <2> SUFFICES ASSUME Init PROVE Inv
    OBVIOUS
  <2>1. tcb.on_data_receive = <<>>
    <3>1. PICK m \in UninitMss :
            \/ tcb = new_tcb("Listen", m)
            \/ \E isn \in Isns :
                  tcb = start_connecting(Call(new_tcb("Connecting", m)), isn, MyMss).tcb
      BY DEF Init
    <3>2. CASE tcb = new_tcb("Listen", m)
      BY <3>2 DEF new_tcb
    <3>3. CASE \E isn \in Isns :
                  tcb = start_connecting(Call(new_tcb("Connecting", m)), isn, MyMss).tcb
      BY <3>3 DEF start_connecting, Call, new_tcb
    <3>4. QED
      BY <3>1, <3>2, <3>3
  <2>2. Len(<<>>) = 0
    BY EmptySeq
  <2>3. QED
    BY <2>1, <2>2 DEF Init, ReadsApart
<1>2. TypeOK /\ Lifecycle /\ Inv /\ [Next]_vars => Inv'
  <2> SUFFICES ASSUME TypeOK, Lifecycle, Inv, [Next]_vars PROVE Inv'
    OBVIOUS
  <2>1. CASE Next
    BY <2>1, StepReads DEF ReadsApart
  <2>2. CASE UNCHANGED vars
    BY <2>2 DEF vars, ReadsApart
  <2>3. QED
    BY <2>1, <2>2
<1>3. Inv => WaitingReadMeansNoData
  BY DEF ReadsApart, WaitingReadMeansNoData
<1> HIDE DEF Inv
<1>4. QED
  BY <1>1, <1>2, <1>3, TypeCorrect, LifeStatesArePaired, PTL DEF Spec

\* Once the FIN has been taken, no segment brings text to the receive queue or to
\* a read, whatever the peer sends: reads that wait then are never completed.
\* The life cycle is what it rests on, since CLOSE-WAIT leads to TIME-WAIT only.
THEOREM FinEndsTheText == Spec => NothingAfterFin
<1>1. TypeOK /\ Lifecycle /\ [Next]_vars
        => [FinTaken => LET waiting == tcb.on_data_receive
                        IN  /\ Len(tcb'.rcv_pq) <= Len(tcb.rcv_pq)
                            /\ Len(tcb'.on_data_receive) >= Len(waiting)
                            /\ SubSeq(tcb'.on_data_receive, 1, Len(waiting)) = waiting]_vars
  BY StepReads DEF StillWait
<1>2. QED
  BY <1>1, TypeCorrect, LifeStatesArePaired, PTL DEF Spec, NothingAfterFin

=============================================================================
