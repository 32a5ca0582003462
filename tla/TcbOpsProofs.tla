---------------------------- MODULE TcbOpsProofs ----------------------------
(***************************************************************************)
(* Lemmas about the operations of a TCB: what each method makes of a well  *)
(* formed context.                                                         *)
(***************************************************************************)
EXTENDS Application, SequenceTheorems, TLAPS

-----------------------------------------------------------------------------
(* Arithmetic and buffers *)

\* uint32_t arithmetic stays in 0 .. 2^32 - 1.
LEMMA ModType == \A x \in Int : x % SeqSpace \in SeqNr
  BY TcbConstants DEF SeqNr

\* A uint32_t sum is a sequence number.
LEMMA AddType == \A a \in SeqNr, n \in Int : Add(a, n) \in SeqNr
  BY ModType, TcbConstants DEF Add, SeqNr

\* A uint32_t difference is a sequence number.
LEMMA SubType == \A a \in SeqNr, b \in SeqNr : Sub(a, b) \in SeqNr
  BY ModType, TcbConstants DEF Sub, SeqNr

\* std::min returns one of its arguments and is not above either.
LEMMA LesserType ==
    ASSUME NEW a \in Nat, NEW b \in Nat
    PROVE  /\ Lesser(a, b) \in Nat
           /\ Lesser(a, b) <= a
           /\ Lesser(a, b) <= b
           /\ Lesser(a, b) \in {a, b}
  BY DEF Lesser

\* std::clamp returns a value of the same type, also when its bounds are crossed.
LEMMA ClampType ==
    ASSUME NEW v \in SeqNr, NEW lo \in SeqNr, NEW hi \in SeqNr, NEW u \in clamp(v, lo, hi)
    PROVE  u \in SeqNr
  BY DEF clamp

\* Erasing n bytes at the front of a buffer leaves the other ones.
LEMMA DropType ==
    ASSUME NEW S, NEW s \in Seq(S), NEW n \in Nat, n <= Len(s)
    PROVE  Drop(s, n) \in Seq(S) /\ Len(Drop(s, n)) = Len(s) - n
<1>1. Len(s) \in Nat /\ \A i \in n + 1 .. Len(s) : s[i] \in S
  BY LenProperties, ElementOfSeq
<1>2. QED
  BY <1>1, SubSeqProperties DEF Drop

\* Copying n bytes from the front of a buffer.
LEMMA TakeType ==
    ASSUME NEW S, NEW s \in Seq(S), NEW n \in Nat, n <= Len(s)
    PROVE  Take(s, n) \in Seq(S) /\ Len(Take(s, n)) = n
<1>1. Len(s) \in Nat /\ \A i \in 1 .. n : s[i] \in S
  BY LenProperties, ElementOfSeq
<1>2. QED
  BY <1>1, SubSeqProperties DEF Take

\* A number of pieces is a natural number.
LEMMA DivType == \A a \in Nat, b \in Nat \ {0} : a \div b \in Nat
  OBVIOUS

\* Differences and sums of sequence numbers without the modulus.
LEMMA SubExact ==
    ASSUME NEW a \in SeqNr, NEW b \in SeqNr
    PROVE  Sub(a, b) = IF a >= b THEN a - b ELSE a - b + SeqSpace
<1>1. \A x \in 0 .. SeqSpace - 1 : x % SeqSpace = x
  BY TcbConstants
<1>2. \A x \in -SeqSpace .. -1 : x % SeqSpace = x + SeqSpace
  BY TcbConstants
<1>3. a >= b => a - b \in 0 .. SeqSpace - 1
  BY TcbConstants DEF SeqNr
<1>4. ~(a >= b) => a - b \in -SeqSpace .. -1
  BY TcbConstants DEF SeqNr
<1>5. QED
  BY <1>1, <1>2, <1>3, <1>4 DEF Sub

\* A uint32_t sum wraps at most once.
LEMMA AddExact ==
    ASSUME NEW a \in SeqNr, NEW n \in SeqNr
    PROVE  Add(a, n) = IF a + n < SeqSpace THEN a + n ELSE a + n - SeqSpace
<1>1. \A x \in 0 .. SeqSpace - 1 : x % SeqSpace = x
  BY TcbConstants
<1>2. \A x \in SeqSpace .. 2 * SeqSpace - 1 : x % SeqSpace = x - SeqSpace
  BY TcbConstants
<1>3. a + n < SeqSpace => a + n \in 0 .. SeqSpace - 1
  BY TcbConstants DEF SeqNr
<1>4. ~(a + n < SeqSpace) => a + n \in SeqSpace .. 2 * SeqSpace - 1
  BY TcbConstants DEF SeqNr
<1>5. CASE a + n < SeqSpace
  BY <1>1, <1>3, <1>5 DEF Add
<1>6. CASE ~(a + n < SeqSpace)
  <2> DEFINE x == a + n
  <2>1. x \in SeqSpace .. 2 * SeqSpace - 1
    BY <1>4, <1>6
  <2> HIDE DEF x
  <2>2. x % SeqSpace = x - SeqSpace
    BY <1>2, <2>1
  <2>3. Add(a, n) = x % SeqSpace
    BY DEF Add, x
  <2>4. Add(a, n) = x - SeqSpace
    BY <2>2, <2>3
  <2>5. QED
    BY <1>6, <2>4, TcbConstants DEF x, SeqNr
<1>7. QED
  BY <1>5, <1>6

\* Sending n bytes adds n to what is in flight, as long as that fits.
LEMMA SendGrows ==
    ASSUME NEW nxt \in SeqNr, NEW una \in SeqNr, NEW n \in Nat, Sub(nxt, una) + n < SeqSpace
    PROVE  Add(nxt, n) \in SeqNr /\ Sub(Add(nxt, n), una) = Sub(nxt, una) + n
<1>1. Sub(nxt, una) = IF nxt >= una THEN nxt - una ELSE nxt - una + SeqSpace
  BY SubExact
<1>2. n \in SeqNr
  BY <1>1, TcbConstants DEF SeqNr
<1>3. Add(nxt, n) = IF nxt + n < SeqSpace THEN nxt + n ELSE nxt + n - SeqSpace
  BY <1>2, AddExact
<1>4. Add(nxt, n) \in SeqNr
  BY <1>2, <1>3, TcbConstants DEF SeqNr
<1>5. Sub(Add(nxt, n), una) = IF Add(nxt, n) >= una THEN Add(nxt, n) - una
                              ELSE Add(nxt, n) - una + SeqSpace
  BY <1>4, SubExact
<1>6. QED
  BY <1>1, <1>3, <1>4, <1>5, TcbConstants DEF SeqNr

-----------------------------------------------------------------------------
(* Construction *)

\* The constructor of tcb_t makes a well-formed TCB, whatever its MSS holds.
LEMMA NewTcbType ==
    ASSUME NEW state \in TcpState, NEW m \in Nat
    PROVE  new_tcb(state, m) \in TcbT
<1>1. 0 \in SeqNr
  BY TcbConstants DEF SeqNr
<1>2. <<>> \in Seq(Byte) /\ <<>> \in Seq(Nat)
  BY EmptySeq
<1>3. QED
  BY <1>1, <1>2 DEF new_tcb, TcbT

\* start_connecting keeps the context well formed.
LEMMA StartConnectingType ==
    ASSUME NEW c \in Context, NEW isn \in SeqNr, NEW my_mss \in Nat
    PROVE  start_connecting(c, isn, my_mss) \in Context
<1> DEFINE t == c.tcb
           u == [t EXCEPT !.seq_nr_unack = isn, !.seq_nr_next = Add(isn, 1),
                          !.state = "SynSent", !.next_state = "Established"]
           syn == [flags |-> {"SYN"}, seq_no |-> isn, ack_no |-> 0, window |-> RcvWindow,
                   mss |-> my_mss, data |-> <<>>]
<1>1. t \in TcbT /\ Add(isn, 1) \in SeqNr /\ "SynSent" \in TcpState /\ "Established" \in TcpState
  BY AddType DEF Context, TcpState
<1>2. u \in TcbT
  <2> HIDE DEF t
  <2>1. QED
    BY <1>1 DEF TcbT
<1>3. syn \in Segment
  <2>1. <<>> \in Seq(Byte) /\ 0 \in SeqNr /\ RcvWindow \in SeqNr /\ my_mss \in Nat
    BY EmptySeq, TcbConstants DEF SeqNr
  <2>2. QED
    BY <2>1 DEF Segment, Flag
<1> HIDE DEF u, syn
<1>4. Append(c.out, syn) \in Seq(Segment)
  BY <1>3, AppendProperties DEF Context
<1>5. start_connecting(c, isn, my_mss) = [c EXCEPT !.tcb = u, !.out = Append(@, syn)]
  BY DEF start_connecting, u, syn
<1>6. QED
  BY <1>2, <1>4, <1>5 DEF Context

-----------------------------------------------------------------------------
(* Sending *)

\* The sizes make_packet computes fit the send queue.
LEMMA SendSizes ==
    ASSUME NEW t \in TcbT
    PROVE  /\ Len(t.snd_pq) \in Nat
           /\ app_data_unacknowleged(t) \in 0 .. Len(t.snd_pq)
           /\ app_data_to_send_left(t) \in 0 .. Len(t.snd_pq) - app_data_unacknowleged(t)
           /\ app_data_to_send_left(t) <= t.mss
<1>1. t.snd_pq \in Seq(Byte) /\ t.mss \in Nat /\ Len(t.snd_pq) \in Nat
  BY DEF TcbT
<1>2. Sub(t.seq_nr_next, t.seq_nr_unack) \in Nat
  BY SubType DEF TcbT, SeqNr
<1>3. app_data_unacknowleged(t) \in 0 .. Len(t.snd_pq)
  BY <1>1, <1>2 DEF app_data_unacknowleged, Lesser
<1>4. QED
  BY <1>1, <1>3 DEF app_data_to_send_left, Lesser

\* make_packet builds a well formed segment.
LEMMA PacketType ==
    ASSUME NEW t \in TcbT, NEW seq_no \in SeqNr, NEW data \in Seq(Byte)
    PROVE  packet(t, seq_no, data) \in Segment
  BY TcbConstants DEF packet, Segment, TcbT, Flag, SeqNr

\* make_and_send_pkt keeps a context well formed.
LEMMA MakeAndSendType ==
    ASSUME NEW c \in Context
    PROVE  make_and_send_pkt(c) \in Context
<1> DEFINE t == c.tcb
           from == app_data_unacknowleged(t)
           seg_len == app_data_to_send_left(t)
           seq_no == IF seg_len = 0 THEN t.seq_nr_unack ELSE t.seq_nr_next
           data == SubSeq(t.snd_pq, from + 1, from + seg_len)
           u == [t EXCEPT !.seq_nr_next = Add(@, seg_len), !.state = t.next_state]
<1>1. t \in TcbT
  BY DEF Context
<1>2. /\ from \in Nat /\ seg_len \in Nat /\ from + seg_len <= Len(t.snd_pq)
  BY <1>1, SendSizes
<1>3. data \in Seq(Byte)
  <2>1. \A i \in from + 1 .. from + seg_len : t.snd_pq[i] \in Byte
    BY <1>1, <1>2, ElementOfSeq DEF TcbT
  <2>2. QED
    BY <1>2, <2>1, SubSeqProperties
<1>4. seq_no \in SeqNr
  BY <1>1 DEF TcbT
<1>5. packet(t, seq_no, data) \in Segment
  BY <1>1, <1>3, <1>4, PacketType
<1>6. u \in TcbT
  <2> HIDE DEF t, seg_len
  <2>1. t.seq_nr_next \in SeqNr /\ t.next_state \in TcpState
    BY <1>1 DEF TcbT
  <2>2. Add(t.seq_nr_next, seg_len) \in SeqNr
    BY <1>2, <2>1, AddType
  <2>3. QED
    BY <1>1, <2>1, <2>2 DEF TcbT
<1>7. Append(c.out, packet(t, seq_no, data)) \in Seq(Segment)
  BY <1>5, AppendProperties DEF Context
<1>8. make_and_send_pkt(c) = [c EXCEPT !.tcb = u, !.out = Append(@, packet(t, seq_no, data))]
  BY DEF make_and_send_pkt
<1>9. QED
  BY <1>6, <1>7, <1>8 DEF Context

\* The while loop of enqueue_app_data keeps a context well formed.
LEMMA SendAppDataType ==
    ASSUME NEW c \in Context
    PROVE  send_app_data(c) \in Context
<1> DEFINE t == c.tcb
           from == app_data_unacknowleged(t)
           left == Len(t.snd_pq) - from
           pieces == (left + t.mss - 1) \div t.mss
           piece(i) == SubSeq(t.snd_pq, from + (i - 1) * t.mss + 1,
                              Lesser(from + i * t.mss, Len(t.snd_pq)))
           pkt(i) == packet(t, Add(t.seq_nr_next, (i - 1) * t.mss), piece(i))
           u == [t EXCEPT !.seq_nr_next = Add(@, left), !.state = t.next_state]
<1>1. t \in TcbT
  BY DEF Context
<1>2. from \in Nat /\ left \in Nat /\ from + left = Len(t.snd_pq)
  BY <1>1, SendSizes
<1>3. CASE app_data_to_send_left(t) = 0
  BY <1>3 DEF send_app_data
<1>4. CASE app_data_to_send_left(t) # 0
  <2>1. /\ t.mss \in Nat \ {0} /\ t.seq_nr_next \in SeqNr /\ t.next_state \in TcpState
        /\ t.snd_pq \in Seq(Byte) /\ Len(t.snd_pq) \in Nat
    <3>1. t.mss \in Nat /\ app_data_to_send_left(t) \in Nat /\ app_data_to_send_left(t) <= t.mss
      BY <1>1, SendSizes DEF TcbT
    <3>2. QED
      BY <1>1, <1>4, <3>1 DEF TcbT
  <2>2. send_app_data(c) = [c EXCEPT !.tcb = u, !.out = @ \o [i \in 1 .. pieces |-> pkt(i)]]
    BY <1>4 DEF send_app_data
  <2> HIDE DEF t, from, left
  <2>3. u \in TcbT
    <3>1. Add(t.seq_nr_next, left) \in SeqNr
      BY <1>2, <2>1, AddType
    <3>2. QED
      BY <1>1, <2>1, <3>1 DEF TcbT
  <2>p. pieces \in Nat
    <3>1. left + t.mss - 1 \in Nat
      BY <1>2, <2>1
    <3>2. QED
      BY <2>1, <3>1, DivType
  <2>4. ASSUME NEW i \in 1 .. pieces
        PROVE  pkt(i) \in Segment
    <3>1. (i - 1) * t.mss \in Nat /\ i * t.mss \in Nat
      <4>1. i \in Nat \ {0}
        BY <2>p
      <4>2. QED
        BY <2>1, <4>1
    <3> HIDE DEF pieces
    <3>2. Add(t.seq_nr_next, (i - 1) * t.mss) \in SeqNr
      BY <2>1, <3>1, AddType
    <3>3. piece(i) \in Seq(Byte)
      <4> DEFINE a == (i - 1) * t.mss
                 b == i * t.mss
                 m == from + a + 1
                 n == Lesser(from + b, Len(t.snd_pq))
      <4>1. m \in Nat \ {0} /\ n \in Nat /\ n <= Len(t.snd_pq)
        <5> HIDE DEF a, b
        <5>1. a \in Nat /\ b \in Nat
          BY <3>1 DEF a, b
        <5>2. QED
          BY <1>2, <2>1, <5>1 DEF Lesser
      <4>2. \A j \in m .. n : t.snd_pq[j] \in Byte
        <5> HIDE DEF m, n
        <5>1. QED
          BY <2>1, <4>1, ElementOfSeq
      <4> HIDE DEF m, n
      <4>3. SubSeq(t.snd_pq, m, n) \in Seq(Byte)
        BY <4>1, <4>2, SubSeqProperties
      <4>4. QED
        BY <4>3 DEF m, n
    <3>4. QED
      BY <1>1, <3>2, <3>3, PacketType
  <2>5. [i \in 1 .. pieces |-> pkt(i)] \in Seq(Segment)
    <3> HIDE DEF pieces, pkt
    <3>1. QED
      BY <2>p, <2>4, IsASeq
  <2>6. QED
    <3> HIDE DEF pieces, pkt, u
    <3>1. c.out \o [i \in 1 .. pieces |-> pkt(i)] \in Seq(Segment)
      BY <2>5, ConcatProperties DEF Context
    <3>2. QED
      BY <2>2, <2>3, <3>1 DEF Context
<1>5. QED
  BY <1>3, <1>4

\* async_write queues the buffer or fails its assert.
LEMMA AsyncWriteType ==
    ASSUME NEW c \in Context, NEW buf \in Seq(Byte)
    PROVE  async_write(c, buf) \in Context
<1>1. CASE Len(c.tcb.snd_pq) + Len(buf) > c.tcb.snd_cap
  BY <1>1 DEF async_write, Context, Assertion
<1>2. CASE ~(Len(c.tcb.snd_pq) + Len(buf) > c.tcb.snd_cap)
  <2> DEFINE pq == c.tcb.snd_pq \o buf
             new == <<Post("send_app_data", <<>>), Post("write", <<>>)>>
  <2>1. pq \in Seq(Byte)
    BY ConcatProperties DEF Context, TcbT
  <2>2. c.posts \o new \in Seq(Handler)
    <3>1. new \in Seq(Handler)
      BY DEF Post, Handler, HandlerKind
    <3> HIDE DEF new
    <3>2. QED
      BY <3>1, ConcatProperties DEF Context
  <2>3. async_write(c, buf) = [c EXCEPT !.tcb.snd_pq = pq, !.posts = c.posts \o new]
    BY <1>2 DEF async_write
  <2> HIDE DEF pq, new
  <2> DEFINE u == [c.tcb EXCEPT !.snd_pq = pq]
  <2>4. u \in TcbT
    BY <2>1 DEF Context, TcbT
  <2>5. async_write(c, buf) = [c EXCEPT !.tcb = u, !.posts = c.posts \o new]
    BY <2>3
  <2> HIDE DEF u
  <2>6. QED
    BY <2>2, <2>4, <2>5 DEF Context
<1>3. QED
  BY <1>1, <1>2

-----------------------------------------------------------------------------
(* Receiving *)

\* A posted handler extends the queue of posts.
LEMMA PostType ==
    ASSUME NEW q \in Seq(Handler), NEW kind \in HandlerKind, NEW data \in Seq(Byte)
    PROVE  Append(q, Post(kind, data)) \in Seq(Handler)
<1>1. Post(kind, data) \in Handler
  BY DEF Post, Handler
<1>2. QED
  BY <1>1, AppendProperties

\* async_read_some takes queued data or leaves its buffer waiting.
LEMMA AsyncReadSomeType ==
    ASSUME NEW c \in Context, NEW size \in Nat
    PROVE  async_read_some(c, size) \in Context
<1> DEFINE t == c.tcb
           n == Lesser(Len(t.rcv_pq), size)
<1>1. t \in TcbT /\ c.posts \in Seq(Handler)
  BY DEF Context
<1>2. t.rcv_pq \in Seq(Byte) /\ t.rcv_next \in SeqNr /\ t.on_data_receive \in Seq(Nat)
  BY <1>1 DEF TcbT
<1>3. CASE t.rcv_pq # <<>>
  <2>1. n \in Nat /\ n <= Len(t.rcv_pq)
    BY <1>2 DEF Lesser
  <2>2. async_read_some(c, size) =
            [c EXCEPT !.tcb = [t EXCEPT !.rcv_pq = Drop(@, n), !.rcv_next = Add(@, n)],
                      !.posts = Append(@, Post("read", Take(t.rcv_pq, n)))]
    BY <1>3 DEF async_read_some
  <2> HIDE DEF n, t
  <2>3. Drop(t.rcv_pq, n) \in Seq(Byte) /\ Take(t.rcv_pq, n) \in Seq(Byte)
    BY <1>2, <2>1, DropType, TakeType
  <2>4. Add(t.rcv_next, n) \in SeqNr
    BY <1>2, <2>1, AddType
  <2>5. Append(c.posts, Post("read", Take(t.rcv_pq, n))) \in Seq(Handler)
    BY <1>1, <2>3, PostType DEF HandlerKind
  <2>6. [t EXCEPT !.rcv_pq = Drop(@, n), !.rcv_next = Add(@, n)] \in TcbT
    BY <1>1, <2>3, <2>4 DEF TcbT
  <2>7. QED
    BY <2>2, <2>5, <2>6 DEF Context
<1>4. CASE t.rcv_pq = <<>>
  <2>1. Append(t.on_data_receive, size) \in Seq(Nat)
    BY <1>2, AppendProperties
  <2> DEFINE u == [t EXCEPT !.on_data_receive = Append(t.on_data_receive, size)]
  <2>2. async_read_some(c, size) = [c EXCEPT !.tcb = u]
    BY <1>4 DEF async_read_some
  <2>3. u \in TcbT
    BY <1>1, <2>1 DEF TcbT
  <2> HIDE DEF u
  <2>4. QED
    BY <2>2, <2>3 DEF Context
<1>5. QED
  BY <1>3, <1>4

\* listen_finish posts one handler and touches nothing else.
LEMMA ListenFinishType ==
    ASSUME NEW c \in Context
    PROVE  listen_finish(c) \in Context
<1>1. <<>> \in Seq(Byte)
  BY EmptySeq
<1>2. Append(c.posts, Post("established", <<>>)) \in Seq(Handler)
  BY <1>1, PostType DEF Context, HandlerKind
<1>3. QED
  BY <1>2 DEF listen_finish, Context

\* The MSS a SYN leaves behind is a number.
LEMMA AcceptMssType ==
    ASSUME NEW t \in TcbT, NEW s \in Segment
    PROVE  accept_mss(t, s) \in Nat
  BY DEF accept_mss, TcbT, Segment, NoMss

\* LISTEN answers a SYN and ignores everything else.
LEMMA ListenStateType ==
    ASSUME NEW c \in Context, NEW s \in Segment, NEW isn \in SeqNr
    PROVE  tcp_handle_listen_state(c, s, isn) \in Context
<1> DEFINE t == c.tcb
           u == [t EXCEPT
                !.mss = accept_mss(t, s), !.rcv_next = Add(s.seq_no, 1),
                !.snd_cap = s.window, !.snd_pq = <<>>,
                !.seq_nr_next = Add(isn, 1), !.seq_nr_unack = isn,
                !.next_state = "SynReceived"]
<1>1. t \in TcbT /\ s.seq_no \in SeqNr /\ s.window \in SeqNr
  BY DEF Context, Segment
<1>2. accept_mss(t, s) \in Nat /\ Add(s.seq_no, 1) \in SeqNr /\ Add(isn, 1) \in SeqNr
  BY <1>1, AcceptMssType, AddType
<1>3. u \in TcbT
  <2> HIDE DEF t
  <2>1. <<>> \in Seq(Byte) /\ "SynReceived" \in TcpState /\ "Established" \in TcpState
    BY EmptySeq DEF TcpState
  <2>2. QED
    BY <1>1, <1>2, <2>1 DEF TcbT
<1>4. [c EXCEPT !.tcb = u] \in Context
  <2> HIDE DEF u
  <2>1. QED
    BY <1>3 DEF Context
<1>5. make_and_send_pkt([c EXCEPT !.tcb = u]) \in Context
  <2> HIDE DEF u
  <2>1. QED
    BY <1>4, MakeAndSendType
<1>6. QED
  BY <1>5 DEF tcp_handle_listen_state

\* SYN-SENT takes an acceptable SYN,ACK and ignores everything else.
LEMMA SynSentType ==
    ASSUME NEW c \in Context, NEW s \in Segment
    PROVE  tcp_handle_syn_sent(c, s) \in Context
<1> DEFINE t == c.tcb
           u == [t EXCEPT
                !.mss = accept_mss(t, s), !.rcv_next = Add(s.seq_no, 1),
                !.snd_cap = s.window, !.snd_pq = <<>>,
                !.seq_nr_unack = s.ack_no,
                !.state = "Established", !.next_state = "Established"]
<1>1. t \in TcbT /\ s.seq_no \in SeqNr /\ s.window \in SeqNr /\ s.ack_no \in SeqNr
  BY DEF Context, Segment
<1>2. accept_mss(t, s) \in Nat /\ Add(s.seq_no, 1) \in SeqNr
  BY <1>1, AcceptMssType, AddType
<1>3. u \in TcbT
  <2> HIDE DEF t
  <2>1. <<>> \in Seq(Byte) /\ "SynReceived" \in TcpState /\ "Established" \in TcpState
    BY EmptySeq DEF TcpState
  <2>2. QED
    BY <1>1, <1>2, <2>1 DEF TcbT
<1>4. listen_finish(make_and_send_pkt([c EXCEPT !.tcb = u])) \in Context
  <2> HIDE DEF u
  <2>1. [c EXCEPT !.tcb = u] \in Context
    BY <1>3 DEF Context
  <2>2. QED
    BY <2>1, MakeAndSendType, ListenFinishType
<1>5. QED
  BY <1>4 DEF tcp_handle_syn_sent

\* What the ACK step can make of a context, one disjunct per outcome.
LEMMA ProcessAckCases ==
    ASSUME NEW c \in Context, NEW s \in Segment, NEW una \in SeqNr
    PROVE  \/ process_ack(c, s, una) = c
           \/ /\ c.tcb.state = "SynReceived"
              /\ process_ack(c, s, una) = [c EXCEPT !.ret = TRUE]
           \/ /\ c.tcb.state = "SynReceived"
              /\ c.tcb.seq_nr_unack <= s.ack_no
              /\ s.ack_no <= c.tcb.seq_nr_next
              /\ process_ack(c, s, una) = listen_finish([c EXCEPT !.tcb = [c.tcb EXCEPT
                        !.seq_nr_unack = una, !.state = "Established",
                        !.next_state = "Established"]])
           \/ /\ c.tcb.state \in {"Established", "FinWait_1", "FinWait_2", "CloseWait", "Closing"}
              /\ process_ack(c, s, una) =
                    [make_and_send_pkt([c EXCEPT !.tcb = take_ack(c.tcb, s, una)])
                        EXCEPT !.ret = TRUE]
           \/ /\ c.tcb.state \in {"Established", "FinWait_1", "FinWait_2", "CloseWait", "Closing"}
              /\ process_ack(c, s, una) =
                    [c EXCEPT !.tcb = [take_ack(c.tcb, s, una) EXCEPT !.next_state =
                        IF c.tcb.state = "FinWait_1" THEN "FinWait_2"
                        ELSE IF c.tcb.state = "Closing" THEN "TimeWait" ELSE @]]
           \/ /\ c.tcb.state = "LastAck"
              /\ process_ack(c, s, una) = [c EXCEPT !.tcb.next_state = "Closed", !.ret = TRUE]
           \/ /\ c.tcb.state = "TimeWait"
              /\ process_ack(c, s, una) = make_and_send_pkt(c)
<1>1. CASE "ACK" \notin s.flags
  BY <1>1 DEF process_ack
<1>2. CASE "ACK" \in s.flags /\ c.tcb.state = "SynReceived"
  <2>1. CASE c.tcb.seq_nr_unack <= s.ack_no /\ s.ack_no <= c.tcb.seq_nr_next
    BY <1>2, <2>1 DEF process_ack
  <2>2. CASE ~(c.tcb.seq_nr_unack <= s.ack_no /\ s.ack_no <= c.tcb.seq_nr_next)
    BY <1>2, <2>2 DEF process_ack
  <2>3. QED
    BY <2>1, <2>2
<1>3. CASE /\ "ACK" \in s.flags
           /\ c.tcb.state \in {"Established", "FinWait_1", "FinWait_2", "CloseWait", "Closing"}
  <2>1. CASE s.ack_no > c.tcb.seq_nr_next
    BY <1>3, <2>1 DEF process_ack
  <2>2. CASE ~(s.ack_no > c.tcb.seq_nr_next)
    BY <1>3, <2>2 DEF process_ack
  <2>3. QED
    BY <2>1, <2>2
<1>4. CASE "ACK" \in s.flags /\ c.tcb.state = "LastAck"
  BY <1>4 DEF process_ack
<1>5. CASE "ACK" \in s.flags /\ c.tcb.state = "TimeWait"
  BY <1>5 DEF process_ack
<1>6. CASE /\ "ACK" \in s.flags
           /\ c.tcb.state \notin {"SynReceived", "Established", "FinWait_1", "FinWait_2",
                                  "CloseWait", "Closing", "LastAck", "TimeWait"}
  BY <1>6 DEF process_ack
<1>7. QED
  BY <1>1, <1>2, <1>3, <1>4, <1>5, <1>6

\* An acknowledgment keeps the TCB well formed and never lengthens the queue.
LEMMA TakeAckType ==
    ASSUME NEW t \in TcbT, NEW s \in Segment, NEW una \in SeqNr
    PROVE  /\ take_ack(t, s, una) \in TcbT
           /\ Len(take_ack(t, s, una).snd_pq) <= Len(t.snd_pq)
<1> DEFINE n == Lesser(Len(t.snd_pq), Sub(s.ack_no, t.seq_nr_unack))
<1>1. t.snd_pq \in Seq(Byte) /\ Len(t.snd_pq) \in Nat
  BY DEF TcbT
<1>2. Sub(s.ack_no, t.seq_nr_unack) \in Nat
  BY SubType DEF Segment, TcbT, SeqNr
<1>3. n \in Nat /\ n <= Len(t.snd_pq)
  BY <1>1, <1>2 DEF Lesser
<1> HIDE DEF n
<1>4. Drop(t.snd_pq, n) \in Seq(Byte) /\ Len(Drop(t.snd_pq, n)) <= Len(t.snd_pq)
  <2>1. Drop(t.snd_pq, n) \in Seq(Byte) /\ Len(Drop(t.snd_pq, n)) = Len(t.snd_pq) - n
    BY <1>1, <1>3, DropType
  <2>2. QED
    BY <1>1, <1>3, <2>1
<1>5. take_ack(t, s, una) = [t EXCEPT !.snd_pq = Drop(t.snd_pq, n), !.seq_nr_unack = una]
  BY DEF take_ack, n
<1>6. QED
  BY <1>4, <1>5 DEF TcbT

\* The ACK step keeps a context well formed.
LEMMA ProcessAckType ==
    ASSUME NEW c \in Context, NEW s \in Segment, NEW una \in SeqNr
    PROVE  process_ack(c, s, una) \in Context
<1> DEFINE t == c.tcb
           acked == take_ack(t, s, una)
<1>1. t \in TcbT /\ acked \in TcbT
  BY TakeAckType DEF Context
<1>2. \A u \in TcbT : [c EXCEPT !.tcb = u] \in Context
  BY DEF Context
<1>3. \A d \in Context : [d EXCEPT !.ret = TRUE] \in Context
  BY DEF Context
<1>4. [t EXCEPT !.seq_nr_unack = una, !.state = "Established", !.next_state = "Established"]
        \in TcbT
  <2>1. "Established" \in TcpState
    BY DEF TcpState
  <2> HIDE DEF t
  <2>2. QED
    BY <1>1, <2>1 DEF TcbT
<1>5. \A x \in TcpState : /\ [acked EXCEPT !.next_state = x] \in TcbT
                          /\ [c EXCEPT !.tcb.next_state = x] \in Context
  <2>1. \A x \in TcpState : [acked EXCEPT !.next_state = x] \in TcbT
    <3> HIDE DEF acked
    <3>1. QED
      BY <1>1 DEF TcbT
  <2>2. \A x \in TcpState : [c EXCEPT !.tcb.next_state = x] \in Context
    BY DEF Context, TcbT
  <2>3. QED
    BY <2>1, <2>2
<1>6. acked.next_state \in TcpState /\ {"FinWait_2", "TimeWait", "Closed"} \subseteq TcpState
  <2>1. acked.next_state \in TcpState
    <3> HIDE DEF acked
    <3>1. QED
      BY <1>1 DEF TcbT
  <2>2. QED
    BY <2>1 DEF TcpState
<1>7. listen_finish([c EXCEPT !.tcb = [t EXCEPT
            !.seq_nr_unack = una, !.state = "Established", !.next_state = "Established"]])
        \in Context
  BY <1>2, <1>4, ListenFinishType
<1>8. [make_and_send_pkt([c EXCEPT !.tcb = acked]) EXCEPT !.ret = TRUE] \in Context
  BY <1>1, <1>2, <1>3, MakeAndSendType
<1>9. [c EXCEPT !.tcb = [acked EXCEPT !.next_state =
            IF t.state = "FinWait_1" THEN "FinWait_2"
            ELSE IF t.state = "Closing" THEN "TimeWait" ELSE @]] \in Context
  <2> DEFINE x == IF t.state = "FinWait_1" THEN "FinWait_2"
                  ELSE IF t.state = "Closing" THEN "TimeWait" ELSE acked.next_state
  <2>1. x \in TcpState
    BY <1>6
  <2> HIDE DEF x, acked
  <2>2. [c EXCEPT !.tcb = [acked EXCEPT !.next_state = x]] \in Context
    BY <1>2, <1>5, <2>1
  <2>3. QED
    BY <2>2 DEF x
<1>10. [c EXCEPT !.tcb.next_state = "Closed", !.ret = TRUE] \in Context
  BY <1>6 DEF Context, TcbT
<1>11. make_and_send_pkt(c) \in Context /\ [c EXCEPT !.ret = TRUE] \in Context
  BY <1>3, MakeAndSendType
<1> HIDE DEF t, acked
<1>12. QED
  BY <1>7, <1>8, <1>9, <1>10, <1>11, ProcessAckCases DEF t, acked

\* What the text step can make of a context.
LEMMA ProcessTextCases ==
    ASSUME NEW c \in Context, NEW s \in Segment
    PROVE  LET t == c.tcb
               n == Lesser(Len(s.data), Head(t.on_data_receive))
           IN  \/ process_text(c, s) = c
               \/ process_text(c, s) = [c EXCEPT !.abort = "rcv_overflow"]
               \/ /\ t.on_data_receive = <<>>
                  /\ process_text(c, s) = [c EXCEPT !.tcb.rcv_pq = @ \o s.data]
               \/ /\ t.on_data_receive # <<>>
                  /\ t.rcv_pq # <<>>
                  /\ process_text(c, s) = [c EXCEPT !.abort = "rcv_pq_not_empty"]
               \/ /\ t.on_data_receive # <<>>
                  /\ process_text(c, s) = [c EXCEPT
                        !.tcb = [t EXCEPT !.on_data_receive = Tail(@), !.rcv_next = Add(@, n),
                                          !.rcv_pq = Drop(s.data, n)],
                        !.posts = Append(@, Post("read", Take(s.data, n)))]
<1> DEFINE new_text == /\ s.data # <<>>
                       /\ c.tcb.state \in {"Established", "FinWait_1", "FinWait_2"}
                       /\ s.seq_no >= c.tcb.rcv_next + Len(c.tcb.rcv_pq)
           full == Len(c.tcb.rcv_pq) + Len(s.data) > RcvWindow
<1>1. CASE c.ret \/ ~new_text
  BY <1>1 DEF process_text
<1>2. CASE ~(c.ret \/ ~new_text) /\ c.tcb.on_data_receive = <<>>
  <2>1. CASE full
    BY <1>2, <2>1 DEF process_text
  <2>2. CASE ~full
    BY <1>2, <2>2 DEF process_text
  <2>3. QED
    BY <2>1, <2>2
<1>3. CASE ~(c.ret \/ ~new_text) /\ c.tcb.on_data_receive # <<>>
  <2>1. CASE c.tcb.rcv_pq # <<>>
    BY <1>3, <2>1 DEF process_text
  <2>2. CASE c.tcb.rcv_pq = <<>>
    BY <1>3, <2>2 DEF process_text
  <2>3. QED
    BY <2>1, <2>2
<1>4. QED
  BY <1>1, <1>2, <1>3

\* The text step keeps a context well formed.
LEMMA ProcessTextType ==
    ASSUME NEW c \in Context, NEW s \in Segment
    PROVE  process_text(c, s) \in Context
<1> DEFINE t == c.tcb
           n == Lesser(Len(s.data), Head(t.on_data_receive))
<1>1. t \in TcbT /\ c.posts \in Seq(Handler) /\ s.data \in Seq(Byte) /\ Len(s.data) \in Nat
  BY DEF Context, Segment
<1>2. /\ [c EXCEPT !.abort = "rcv_overflow"] \in Context
      /\ [c EXCEPT !.abort = "rcv_pq_not_empty"] \in Context
  BY DEF Context, Assertion
<1>3. [c EXCEPT !.tcb.rcv_pq = @ \o s.data] \in Context
  <2>1. t.rcv_pq \o s.data \in Seq(Byte)
    BY <1>1, ConcatProperties DEF TcbT
  <2>2. QED
    BY <2>1 DEF Context, TcbT
<1>4. ASSUME t.on_data_receive # <<>>
      PROVE  [c EXCEPT
                !.tcb = [t EXCEPT !.on_data_receive = Tail(@), !.rcv_next = Add(@, n),
                                  !.rcv_pq = Drop(s.data, n)],
                !.posts = Append(@, Post("read", Take(s.data, n)))] \in Context
  <2>1. Head(t.on_data_receive) \in Nat /\ Tail(t.on_data_receive) \in Seq(Nat)
    BY <1>1, <1>4, HeadTailProperties DEF TcbT
  <2>2. n \in Nat /\ n <= Len(s.data)
    BY <1>1, <2>1 DEF Lesser
  <2> HIDE DEF n, t
  <2>3. Drop(s.data, n) \in Seq(Byte) /\ Take(s.data, n) \in Seq(Byte)
    BY <1>1, <2>2, DropType, TakeType
  <2>4. Add(t.rcv_next, n) \in SeqNr
    <3>1. t.rcv_next \in SeqNr
      BY <1>1 DEF TcbT
    <3>2. QED
      BY <2>2, <3>1, AddType
  <2>5. Append(c.posts, Post("read", Take(s.data, n))) \in Seq(Handler)
    BY <1>1, <2>3, PostType DEF HandlerKind
  <2>6. [t EXCEPT !.on_data_receive = Tail(@), !.rcv_next = Add(@, n),
                  !.rcv_pq = Drop(s.data, n)] \in TcbT
    BY <1>1, <2>1, <2>3, <2>4 DEF TcbT
  <2>7. QED
    BY <2>5, <2>6 DEF Context
<1>5. QED
  BY <1>2, <1>3, <1>4, ProcessTextCases

\* The text step touches the receive side only, and sends nothing.
LEMMA ProcessTextFrame ==
    ASSUME NEW c \in Context, NEW s \in Segment
    PROVE  LET d == process_text(c, s)
               u == d.tcb
           IN  /\ u.seq_nr_next = c.tcb.seq_nr_next /\ u.seq_nr_unack = c.tcb.seq_nr_unack
               /\ u.snd_cap = c.tcb.snd_cap /\ u.snd_pq = c.tcb.snd_pq
               /\ u.state = c.tcb.state /\ u.next_state = c.tcb.next_state
               /\ d.out = c.out
<1> DEFINE t == c.tcb
           n == Lesser(Len(s.data), Head(t.on_data_receive))
           Same(d) == /\ d.tcb.seq_nr_next = t.seq_nr_next /\ d.tcb.seq_nr_unack = t.seq_nr_unack
                      /\ d.tcb.snd_cap = t.snd_cap /\ d.tcb.snd_pq = t.snd_pq
                      /\ d.tcb.state = t.state /\ d.tcb.next_state = t.next_state
                      /\ d.out = c.out
<1> DEFINE r1 == [c EXCEPT !.abort = "rcv_overflow"]
           r2 == [c EXCEPT !.abort = "rcv_pq_not_empty"]
           r3 == [c EXCEPT !.tcb.rcv_pq = @ \o s.data]
           r4 == [c EXCEPT
                    !.tcb = [t EXCEPT !.on_data_receive = Tail(@), !.rcv_next = Add(@, n),
                                      !.rcv_pq = Drop(s.data, n)],
                    !.posts = Append(@, Post("read", Take(s.data, n)))]
<1>1. Same(c) /\ Same(r1) /\ Same(r2)
  BY DEF Context
<1>2. Same(r3)
  BY DEF Context, TcbT
<1>3. Same(r4)
  <2> HIDE DEF n
  <2>1. QED
    BY DEF Context, TcbT
<1>4. process_text(c, s) \in {c, r1, r2, r3, r4}
  BY ProcessTextCases
<1> HIDE DEF Same, r1, r2, r3, r4
<1>5. Same(process_text(c, s))
  BY <1>1, <1>2, <1>3, <1>4
<1>6. QED
  BY <1>5 DEF Same

\* What the FIN step can make of a context.
LEMMA ProcessFinCases ==
    ASSUME NEW c \in Context, NEW s \in Segment
    PROVE  \/ process_fin(c, s) = c
           \/ /\ c.tcb.state \in {"SynReceived", "Established"}
              /\ process_fin(c, s) = [make_and_send_pkt([c EXCEPT !.tcb = [c.tcb EXCEPT
                            !.rcv_next = Add(@, 1), !.next_state = "CloseWait"]])
                        EXCEPT !.tcb.next_state = "TimeWait"]
           \/ /\ c.tcb.state \in {"FinWait_1", "FinWait_2"}
              /\ process_fin(c, s) = [c EXCEPT !.tcb.next_state = "TimeWait"]
<1>1. CASE c.ret \/ c.abort # "none" \/ "FIN" \notin s.flags
  BY <1>1 DEF process_fin
<1>2. CASE ~(c.ret \/ c.abort # "none" \/ "FIN" \notin s.flags)
  <2>1. CASE c.tcb.state \in {"SynReceived", "Established"}
    BY <1>2, <2>1 DEF process_fin
  <2>2. CASE c.tcb.state \in {"FinWait_1", "FinWait_2"}
    BY <1>2, <2>2 DEF process_fin
  <2>3. CASE c.tcb.state \notin {"SynReceived", "Established", "FinWait_1", "FinWait_2"}
    BY <1>2, <2>3 DEF process_fin
  <2>4. QED
    BY <2>1, <2>2, <2>3
<1>3. QED
  BY <1>1, <1>2

\* The FIN step keeps a context well formed.
LEMMA ProcessFinType ==
    ASSUME NEW c \in Context, NEW s \in Segment
    PROVE  process_fin(c, s) \in Context
<1> DEFINE t == c.tcb
           u == [t EXCEPT !.rcv_next = Add(@, 1), !.next_state = "CloseWait"]
<1>1. \A d \in Context : [d EXCEPT !.tcb.next_state = "TimeWait"] \in Context
  BY DEF Context, TcbT, TcpState
<1>2. [c EXCEPT !.tcb = u] \in Context
  <2>1. t \in TcbT /\ t.rcv_next \in SeqNr /\ "CloseWait" \in TcpState
    BY DEF Context, TcbT, TcpState
  <2>2. Add(t.rcv_next, 1) \in SeqNr
    BY <2>1, AddType
  <2>3. u \in TcbT
    <3> HIDE DEF t
    <3>1. QED
      BY <2>1, <2>2 DEF TcbT
  <2> HIDE DEF u
  <2>4. QED
    BY <2>3 DEF Context
<1>3. [make_and_send_pkt([c EXCEPT !.tcb = u]) EXCEPT !.tcb.next_state = "TimeWait"] \in Context
  <2> HIDE DEF u
  <2>1. make_and_send_pkt([c EXCEPT !.tcb = u]) \in Context
    BY <1>2, MakeAndSendType
  <2>2. QED
    BY <1>1, <2>1
<1>4. QED
  BY <1>1, <1>3, ProcessFinCases

\* process() keeps a context well formed, whatever segment arrives.
LEMMA ProcessType ==
    ASSUME NEW c \in Context, NEW s \in Segment, NEW isn \in SeqNr, NEW una \in SeqNr
    PROVE  process(c, s, isn, una) \in Context
<1>1. process_ack(c, s, una) \in Context
  BY ProcessAckType
<1>2. process_text(process_ack(c, s, una), s) \in Context
  BY <1>1, ProcessTextType
<1>3. process_fin(process_text(process_ack(c, s, una), s), s) \in Context
  BY <1>2, ProcessFinType
<1>4. QED
  BY <1>3, ListenStateType, SynSentType DEF process, tcp_handle_close_state

-----------------------------------------------------------------------------
(* What an operation leaves alone *)

\* What sending does to everything but the send side.
LEMMA MakeAndSendFrame ==
    ASSUME NEW c \in Context
    PROVE  /\ make_and_send_pkt(c).tcb.state = c.tcb.next_state
           /\ make_and_send_pkt(c).tcb.next_state = c.tcb.next_state
           /\ make_and_send_pkt(c).tcb.rcv_pq = c.tcb.rcv_pq
           /\ make_and_send_pkt(c).tcb.on_data_receive = c.tcb.on_data_receive
           /\ make_and_send_pkt(c).posts = c.posts
           /\ make_and_send_pkt(c).ret = c.ret
           /\ make_and_send_pkt(c).abort = c.abort
  BY DEF make_and_send_pkt, Context, TcbT

\* The sending loop of enqueue_app_data changes the state by catching up with
\* next_state_ at most, and leaves the receiving side alone.
LEMMA SendAppDataFrame ==
    ASSUME NEW c \in Context
    PROVE  /\ \/ send_app_data(c) = c
              \/ /\ send_app_data(c).tcb.state = c.tcb.next_state
                 /\ send_app_data(c).tcb.next_state = c.tcb.next_state
           /\ send_app_data(c).tcb.rcv_pq = c.tcb.rcv_pq
           /\ send_app_data(c).tcb.on_data_receive = c.tcb.on_data_receive
           /\ send_app_data(c).posts = c.posts
           /\ send_app_data(c).abort = c.abort
<1>1. CASE app_data_to_send_left(c.tcb) = 0
  BY <1>1 DEF send_app_data
<1>2. CASE app_data_to_send_left(c.tcb) # 0
  BY <1>2 DEF send_app_data, Context, TcbT
<1>3. QED
  BY <1>1, <1>2

-----------------------------------------------------------------------------
(* The application *)

\* A call of the application keeps a context well formed.
LEMMA AppCallType ==
    ASSUME NEW bufs, bufs \subseteq Seq(Byte), NEW t, NEW c \in Context, NEW call \in Calls(t, bufs)
    PROVE  app_call(c, call) \in Context
<1>1. CASE call = Idle
  BY <1>1 DEF Idle, app_call
<1>2. CASE \E k \in ReadSizes : call = [op |-> "read", size |-> k, buf |-> <<>>]
  <2>1. PICK k \in ReadSizes : call = [op |-> "read", size |-> k, buf |-> <<>>]
    BY <1>2
  <2>2. app_call(c, call) = async_read_some(c, k) /\ k \in Nat
    BY <2>1, ApplicationConstants DEF app_call
  <2>3. QED
    BY <2>2, AsyncReadSomeType
<1>3. CASE \E b \in bufs : call = [op |-> "write", size |-> 0, buf |-> b]
  <2>1. PICK b \in bufs : call = [op |-> "write", size |-> 0, buf |-> b]
    BY <1>3
  <2>2. app_call(c, call) = async_write(c, b) /\ b \in Seq(Byte)
    BY <2>1 DEF app_call
  <2>3. QED
    BY <2>2, AsyncWriteType
<1>4. QED
  BY <1>1, <1>2, <1>3 DEF Calls

\* So does the handler of a completed read.
LEMMA ReadHandlerType ==
    ASSUME NEW bufs, bufs \subseteq Seq(Byte), NEW t, NEW c \in Context, NEW call \in Calls(t, bufs)
    PROVE  read_handler(c, call) \in Context
  BY AppCallType, MakeAndSendType DEF read_handler

\* A method is called in a well formed context.
LEMMA CallType == \A t \in TcbT : Call(t) \in Context
<1>1. <<>> \in Seq(Handler) /\ <<>> \in Seq(Segment)
  BY EmptySeq
<1>2. QED
  BY <1>1 DEF Call, Context, Assertion

=============================================================================
