-------------------------- MODULE ConnectionProofs --------------------------
(***************************************************************************)
(* What holds of a connection between two hosts for every value of the     *)
(* constants: any segments lost, duplicated and reordered, any number of   *)
(* bytes written and read in pieces of any size.  The second half is about *)
(* the stream, where no sequence number wraps: over a network that only    *)
(* duplicates, nothing is received out of order or forgotten, and over one *)
(* without faults every byte is at each moment in exactly one place.       *)
(***************************************************************************)
EXTENDS Connection, TcbOpsProofs, QueueLemmas

-----------------------------------------------------------------------------
(* Type correctness *)

\* The buffers an application may write next hold bytes.
LEMMA NextBufsType ==
    ASSUME TypeOK, NEW n \in Node
    PROVE  NextBufs(n) \subseteq Seq(Byte)
<1> SUFFICES ASSUME NEW b \in NextBufs(n) PROVE b \in Seq(Byte)
  OBVIOUS
<1> DEFINE budget == IF n = "client" THEN ClientBytes ELSE ServerBytes
<1>1. PICK k \in 1 .. MaxWrite : /\ written[n] + k <= budget
                                 /\ b = [i \in 1 .. k |-> written[n] + i]
  BY DEF NextBufs
<1>2. budget \in Nat /\ budget <= ClientBytes + ServerBytes /\ MaxWrite \in Nat
  BY ConnectionConstants
<1>3. written[n] \in Nat /\ k \in Nat
  BY <1>2 DEF TypeOK
<1>4. ASSUME NEW i \in 1 .. k PROVE written[n] + i \in Byte
  <2>1. written[n] + i \in 1 .. ClientBytes + ServerBytes
    BY <1>1, <1>2, <1>3, ConnectionConstants
  <2>2. QED
    BY <2>1, ConnectionConstants
<1>5. b \in [1 .. k -> Byte]
  BY <1>1, <1>4
<1>6. QED
  BY <1>3, <1>5, FunctionIsSeq

\* A queue holds its own elements, and what is a queue of these holds no others.
LEMMA OverRange ==
    ASSUME NEW S, NEW s \in Seq(S)
    PROVE  s \in Seq(Range(s)) /\ Range(s) \subseteq S
<1>1. Len(s) \in Nat /\ DOMAIN s = 1 .. Len(s) /\ s \in [1 .. Len(s) -> S]
  BY LenProperties
<1>2. s \in [1 .. Len(s) -> Range(s)]
  BY <1>1 DEF Range
<1>3. s \in Seq(Range(s))
  BY <1>1, <1>2, FunctionIsSeq
<1>4. QED
  BY <1>1, <1>3 DEF Range

\* What the network does to a queue puts nothing new into it.
LEMMA FaultQueues ==
    ASSUME NEW S, NEW s \in Seq(S), NEW i \in DOMAIN s
    PROVE  /\ RemoveAt(s, i) \in Seq(S)
           /\ InsertAt(s, i, s[i]) \in Seq(S)
           /\ i + 1 \in DOMAIN s => [s EXCEPT ![i] = s[i + 1], ![i + 1] = s[i]] \in Seq(S)
<1>1. Len(s) \in Nat /\ DOMAIN s = 1 .. Len(s) /\ s \in [1 .. Len(s) -> S]
  BY LenProperties
<1>2. s[i] \in S
  BY <1>1
<1>3. /\ SubSeq(s, 1, i - 1) \in Seq(S)
      /\ SubSeq(s, i, Len(s)) \in Seq(S)
      /\ SubSeq(s, i + 1, Len(s)) \in Seq(S)
  BY <1>1, SubSeqProperties
<1>4. RemoveAt(s, i) \in Seq(S)
  BY <1>3, ConcatProperties DEF RemoveAt
<1>5. <<s[i]>> \in Seq(S)
  BY <1>2
<1>6. SubSeq(s, 1, i - 1) \o <<s[i]>> \in Seq(S)
  BY <1>3, <1>5, ConcatProperties
<1>7. InsertAt(s, i, s[i]) \in Seq(S)
  BY <1>3, <1>6, ConcatProperties DEF InsertAt
<1>8. ASSUME i + 1 \in DOMAIN s
      PROVE  [s EXCEPT ![i] = s[i + 1], ![i + 1] = s[i]] \in Seq(S)
  <2>1. s[i + 1] \in S
    BY <1>1, <1>8
  <2>2. [s EXCEPT ![i] = s[i + 1], ![i + 1] = s[i]] \in [1 .. Len(s) -> S]
    BY <1>1, <1>2, <2>1
  <2>3. QED
    BY <1>1, <2>2, FunctionIsSeq
<1>9. QED
  BY <1>4, <1>7, <1>8

AnyHandler == Handler \cup RxHandler

\* The segments that host n will get if nothing happens to them: on their way or
\* read by its device.
Coming(n) ==
    Range(net[n]) \cup {h.seg : h \in {x \in Range(ioq[n]) : x.kind = "rx"}}

\* The handlers that wait on host n are those that did before, new ones for
\* segments and those that its TCB posted.
NothingNew(n, posts) ==
    \A h \in Range(ioq'[n]) : h.kind # "rx" => h \in Range(ioq[n]) \cup Range(posts)

QueuesType == ioq' \in [Node -> Seq(AnyHandler)] /\ net' \in [Node -> Seq(Segment)]

\* A step of host n that leaves context c behind, as both hosts see it.
HostStep(n, c) ==
    /\ tcb' = [tcb EXCEPT ![n] = c.tcb]
    /\ abort' = [abort EXCEPT ![n] = c.abort]
    /\ QueuesType
    /\ NothingNew(n, c.posts)
    /\ NothingNew(Peer(n), <<>>)
    /\ Coming(n)' \subseteq Coming(n)
    /\ Coming(Peer(n))' \subseteq Coming(Peer(n)) \cup Range(c.out)

\* A step of the network or of a device, as the hosts see it.
NetStep ==
    /\ UNCHANGED <<tcb, sock, abort, written>>
    /\ QueuesType
    /\ \A n \in Node : NothingNew(n, <<>>) /\ Coming(n)' \subseteq Coming(n)

\* A queue over a set is one over every larger set.
LEMMA SeqMonotone ==
    ASSUME NEW X, NEW Y, NEW x \in Seq(X), X \subseteq Y
    PROVE  x \in Seq(Y)
<1>1. Len(x) \in Nat /\ x \in [1 .. Len(x) -> X]
  BY LenProperties
<1>2. x \in [1 .. Len(x) -> Y]
  BY <1>1
<1>3. QED
  BY <1>1, <1>2, FunctionIsSeq

\* The elements of two queues put together.
LEMMA ConcatRange ==
    ASSUME NEW S, NEW T, NEW s \in Seq(S), NEW t \in Seq(T)
    PROVE  s \o t \in Seq(S \cup T) /\ Range(s \o t) \subseteq Range(s) \cup Range(t)
<1>1. s \in Seq(Range(s)) /\ t \in Seq(Range(t)) /\ Range(s) \subseteq S /\ Range(t) \subseteq T
  BY OverRange
<1>2. s \in Seq(Range(s) \cup Range(t)) /\ t \in Seq(Range(s) \cup Range(t))
  BY <1>1, SeqMonotone
<1>3. s \o t \in Seq(Range(s) \cup Range(t))
  BY <1>2, ConcatProperties
<1>4. Range(s \o t) \subseteq Range(s) \cup Range(t)
  BY <1>3, OverRange
<1>5. s \in Seq(S \cup T) /\ t \in Seq(S \cup T)
  BY SeqMonotone
<1>6. QED
  BY <1>4, <1>5, ConcatProperties

\* What a handler leaves behind reaches the queues of both hosts.
LEMMA CommitStep ==
    ASSUME TypeOK, NEW n \in Node, NEW c \in Context, NEW q \in Seq(AnyHandler),
           Range(q) \subseteq Range(ioq[n]), Commit(n, c, q)
    PROVE  HostStep(n, c)
<1>1. Peer(n) \in Node /\ Peer(n) # n
  BY DEF Peer, Node
<1>2. /\ ioq \in [Node -> Seq(AnyHandler)] /\ net \in [Node -> Seq(Segment)]
      /\ c.posts \in Seq(Handler) /\ c.out \in Seq(Segment)
  BY DEF TypeOK, AnyHandler, Context
<1>3. /\ ioq' = [ioq EXCEPT ![n] = q \o c.posts]
      /\ net' = [net EXCEPT ![Peer(n)] = net[Peer(n)] \o c.out]
  BY DEF Commit
<1>4. /\ q \o c.posts \in Seq(AnyHandler)
      /\ Range(q \o c.posts) \subseteq Range(ioq[n]) \cup Range(c.posts)
  <2>1. q \o c.posts \in Seq(AnyHandler \cup Handler) /\ Range(q \o c.posts) \subseteq Range(q) \cup Range(c.posts)
    BY <1>2, ConcatRange
  <2>2. AnyHandler \cup Handler = AnyHandler
    BY DEF AnyHandler
  <2>3. QED
    BY <2>1, <2>2
<1>5. /\ net[Peer(n)] \o c.out \in Seq(Segment)
      /\ Range(net[Peer(n)] \o c.out) \subseteq Range(net[Peer(n)]) \cup Range(c.out)
  <2>1. net[Peer(n)] \in Seq(Segment)
    BY <1>1, <1>2
  <2>2. QED
    BY <1>2, <2>1, ConcatRange, ConcatProperties
<1>6. /\ ioq'[n] = q \o c.posts /\ ioq'[Peer(n)] = ioq[Peer(n)]
      /\ net'[n] = net[n] /\ net'[Peer(n)] = net[Peer(n)] \o c.out
  BY <1>1, <1>2, <1>3
<1>7. QueuesType
  BY <1>1, <1>2, <1>3, <1>4, <1>5 DEF QueuesType
<1>8. NothingNew(n, c.posts) /\ NothingNew(Peer(n), <<>>)
  BY <1>4, <1>6 DEF NothingNew
<1>9. \A h \in Range(c.posts) : h.kind # "rx"
  <2>1. Range(c.posts) \subseteq Handler
    BY <1>2, OverRange
  <2>2. QED
    BY <2>1 DEF Handler, HandlerKind
<1>10. Coming(n)' \subseteq Coming(n)
  BY <1>4, <1>6, <1>9 DEF Coming
<1>11. Coming(Peer(n))' \subseteq Coming(Peer(n)) \cup Range(c.out)
  BY <1>5, <1>6 DEF Coming
<1>12. QED
  BY <1>7, <1>8, <1>10, <1>11 DEF HostStep, Commit

\* A device that has read a segment.
LEMMA RxReadyStep ==
    ASSUME TypeOK, NEW n \in Node, RxReady(n)
    PROVE  NetStep
<1> DEFINE h == [kind |-> "rx", seg |-> Head(net[n])]
<1>1. ioq \in [Node -> Seq(AnyHandler)] /\ net \in [Node -> Seq(Segment)]
  BY DEF TypeOK, AnyHandler
<1>2. /\ net[n] # <<>> /\ UNCHANGED <<tcb, sock, abort, written>>
      /\ ioq' = [ioq EXCEPT ![n] = Append(ioq[n], h)]
      /\ net' = [net EXCEPT ![n] = Tail(net[n])]
  BY DEF RxReady
<1>3. net[n] \in Seq(Segment) /\ ioq[n] \in Seq(AnyHandler)
  BY <1>1
<1>4. net[n] \in Seq(Range(net[n])) /\ Range(net[n]) \subseteq Segment
  BY <1>3, OverRange
<1>5. Head(net[n]) \in Range(net[n]) /\ Tail(net[n]) \in Seq(Range(net[n]))
  BY <1>2, <1>4, HeadTailProperties
<1>6. Range(Tail(net[n])) \subseteq Range(net[n]) /\ Tail(net[n]) \in Seq(Segment)
  BY <1>4, <1>5, OverRange, SeqMonotone
<1>7. h \in AnyHandler /\ h.kind = "rx" /\ h.seg = Head(net[n])
  BY <1>4, <1>5 DEF AnyHandler, RxHandler
<1> HIDE DEF h
<1>8. Append(ioq[n], h) \in Seq(AnyHandler)
  BY <1>3, <1>7, AppendProperties
<1>9. Range(Append(ioq[n], h)) \subseteq Range(ioq[n]) \cup {h}
  <2>1. ioq[n] \in Seq(Range(ioq[n]) \cup {h})
    BY <1>3, OverRange, SeqMonotone
  <2>2. Append(ioq[n], h) \in Seq(Range(ioq[n]) \cup {h})
    BY <2>1, AppendProperties
  <2>3. QED
    BY <2>2, OverRange
<1>10. QueuesType
  BY <1>1, <1>2, <1>6, <1>8 DEF QueuesType
<1>11. ASSUME NEW m \in Node
       PROVE  NothingNew(m, <<>>) /\ Coming(m)' \subseteq Coming(m)
  <2>1. CASE m = n
    <3>1. ioq'[m] = Append(ioq[n], h) /\ net'[m] = Tail(net[n])
      BY <1>1, <1>2, <2>1
    <3>2. NothingNew(m, <<>>)
      BY <1>7, <1>9, <2>1, <3>1 DEF NothingNew
    <3>3. QED
      BY <1>5, <1>6, <1>7, <1>9, <2>1, <3>1, <3>2 DEF Coming
  <2>2. CASE m # n
    <3>1. ioq'[m] = ioq[m] /\ net'[m] = net[m]
      BY <1>1, <1>2, <2>2
    <3>2. QED
      BY <3>1 DEF NothingNew, Coming
  <2>3. QED
    BY <2>1, <2>2
<1>12. QED
  BY <1>2, <1>10, <1>11 DEF NetStep

\* A fault of the network.
LEMMA FaultStep ==
    ASSUME TypeOK, NEW n \in Node, Lose(n) \/ Duplicate(n) \/ Swap(n)
    PROVE  NetStep
<1>1. ioq \in [Node -> Seq(AnyHandler)] /\ net \in [Node -> Seq(Segment)]
  BY DEF TypeOK, AnyHandler
<1>2. UNCHANGED <<tcb, sock, abort, written>> /\ ioq' = ioq
  BY DEF Lose, Duplicate, Swap, Fault
<1>3. net[n] \in Seq(Segment)
  BY <1>1
<1>4. /\ net[n] \in Seq(Range(net[n])) /\ Range(net[n]) \subseteq Segment
      /\ Len(net[n]) \in Nat /\ DOMAIN net[n] = 1 .. Len(net[n])
  BY <1>3, OverRange, LenProperties
<1>5. \E s \in Seq(Range(net[n])) : net' = [net EXCEPT ![n] = s]
  <2>1. CASE Lose(n)
    <3>1. PICK i \in DOMAIN net[n] : net' = [net EXCEPT ![n] = RemoveAt(net[n], i)]
      BY <2>1 DEF Lose
    <3>2. QED
      BY <1>4, <3>1, FaultQueues
  <2>2. CASE Duplicate(n)
    <3>1. PICK i \in DOMAIN net[n] : net' = [net EXCEPT ![n] = InsertAt(net[n], i, net[n][i])]
      BY <2>2 DEF Duplicate
    <3>2. QED
      BY <1>4, <3>1, FaultQueues
  <2>3. CASE Swap(n)
    <3>1. PICK i \in 1 .. Len(net[n]) - 1 : net' = [net EXCEPT ![n] =
                [net[n] EXCEPT ![i] = net[n][i + 1], ![i + 1] = net[n][i]]]
      BY <2>3 DEF Swap
    <3>2. i \in DOMAIN net[n] /\ i + 1 \in DOMAIN net[n]
      BY <1>4
    <3>3. [net[n] EXCEPT ![i] = net[n][i + 1], ![i + 1] = net[n][i]] \in Seq(Range(net[n]))
      BY <1>4, <3>2, FaultQueues
    <3>4. QED
      BY <3>1, <3>3
  <2>4. QED
    BY <2>1, <2>2, <2>3
<1>6. PICK s \in Seq(Range(net[n])) : net' = [net EXCEPT ![n] = s]
  BY <1>5
<1>7. s \in Seq(Segment) /\ Range(s) \subseteq Range(net[n])
  BY <1>4, SeqMonotone, OverRange
<1>8. QueuesType
  BY <1>1, <1>2, <1>6, <1>7 DEF QueuesType
<1>9. ASSUME NEW m \in Node
      PROVE  NothingNew(m, <<>>) /\ Coming(m)' \subseteq Coming(m)
  <2>1. Range(net'[m]) \subseteq Range(net[m])
    <3>1. CASE m = n
      BY <1>1, <1>6, <1>7, <3>1
    <3>2. CASE m # n
      BY <1>1, <1>6, <3>2
    <3>3. QED
      BY <3>1, <3>2
  <2>2. QED
    BY <1>2, <2>1 DEF NothingNew, Coming
<1>10. QED
  BY <1>2, <1>8, <1>9 DEF NetStep

\* Something has told host n of its connection.
Active(n) == sock[n] \/ \E h \in Range(ioq[n]) : h.kind # "rx"

\* Where the context of a host's step comes from: async_connect, a segment, a
\* call of the application, the handler that sends what was written.
FromConnect(n, c) ==
    /\ n = "client" /\ tcb["client"].state = "Closed"
    /\ \E isn \in Isns, m \in UninitMss :
            c = start_connecting(Call(new_tcb("Connecting", m)), isn, MyMss)
    /\ UNCHANGED <<sock, written>>
FromSegment(n, c) ==
    /\ \E s \in Coming(n), t \in lookup(n), isn \in Isns :
            \E una \in clamp(s.ack_no, t.seq_nr_unack, t.seq_nr_next) :
                c = process(Call(t), s, isn, una)
    /\ UNCHANGED <<sock, written>>
FromCall(n, c) ==
    /\ Active(n)
    /\ \E call \in Calls(tcb[n], NextBufs(n)) :
            /\ c \in {app_call(Call(tcb[n]), call), read_handler(Call(tcb[n]), call)}
            /\ Wrote(n, call, c)
    /\ sock' \in {sock, [sock EXCEPT ![n] = TRUE]}
FromSend(n, c) ==
    /\ Active(n)
    /\ c = send_app_data(Call(tcb[n]))
    /\ UNCHANGED <<sock, written>>
From(n, c) == FromConnect(n, c) \/ FromSegment(n, c) \/ FromCall(n, c) \/ FromSend(n, c)

\* The handler at the front of the queue of host n runs.
LEMMA FrontHandler ==
    ASSUME TypeOK, NEW n \in Node, ioq[n] # <<>>
    PROVE  /\ Head(ioq[n]) \in Range(ioq[n]) /\ Head(ioq[n]) \in AnyHandler
           /\ Tail(ioq[n]) \in Seq(AnyHandler)
           /\ Range(Tail(ioq[n])) \subseteq Range(ioq[n])
<1>1. ioq[n] \in Seq(AnyHandler)
  BY DEF TypeOK, AnyHandler
<1>2. ioq[n] \in Seq(Range(ioq[n])) /\ Range(ioq[n]) \subseteq AnyHandler
  BY <1>1, OverRange
<1>3. Head(ioq[n]) \in Range(ioq[n]) /\ Tail(ioq[n]) \in Seq(Range(ioq[n]))
  BY <1>2, HeadTailProperties
<1>4. QED
  BY <1>2, <1>3, OverRange, SeqMonotone

\* The TCB a segment finds is well formed.
LEMMA LookupType ==
    ASSUME TypeOK, NEW n \in Node, NEW t \in lookup(n)
    PROVE  t \in TcbT
<1>1. CASE n = "server" /\ tcb[n].state = "Closed"
  <2>1. PICK m \in UninitMss : t = new_tcb("Listen", m)
    BY <1>1 DEF lookup
  <2>2. m \in Nat /\ "Listen" \in TcpState
    BY ConnectionConstants DEF TcpState
  <2>3. QED
    BY <2>1, <2>2, NewTcbType
<1>2. CASE ~(n = "server" /\ tcb[n].state = "Closed")
  BY <1>2 DEF lookup, TypeOK
<1>3. QED
  BY <1>1, <1>2

\* Every step is one of the network or of one host.
LEMMA StepShape ==
    ASSUME TypeOK, Next
    PROVE  NetStep \/ \E n \in Node : \E c \in Context : HostStep(n, c) /\ From(n, c)
<1>1. ASSUME NEW n \in Node
      PROVE  /\ tcb[n] \in TcbT /\ Call(tcb[n]) \in Context /\ NextBufs(n) \subseteq Seq(Byte)
             /\ ioq[n] \in Seq(AnyHandler)
  BY CallType, NextBufsType DEF TypeOK, AnyHandler
<1>2. CASE async_connect
  <2>1. PICK isn \in Isns, m \in UninitMss : Commit("client",
            start_connecting(Call(new_tcb("Connecting", m)), isn, MyMss), ioq["client"])
    BY <1>2 DEF async_connect
  <2> DEFINE c == start_connecting(Call(new_tcb("Connecting", m)), isn, MyMss)
  <2>2. isn \in SeqNr /\ m \in Nat /\ MyMss \in Nat /\ "Connecting" \in TcpState
    BY ConnectionConstants DEF TcpState
  <2>3. c \in Context
    BY <2>2, NewTcbType, CallType, StartConnectingType
  <2>4. "client" \in Node
    BY DEF Node
  <2>5. FromConnect("client", c)
    BY <1>2 DEF async_connect, FromConnect
  <2> HIDE DEF c
  <2>6. HostStep("client", c)
    BY <1>1, <2>1, <2>3, <2>4, CommitStep DEF c
  <2>7. QED
    BY <2>3, <2>4, <2>5, <2>6 DEF From
<1>3. ASSUME NEW n \in Node, RunRx(n)
      PROVE  \E c \in Context : HostStep(n, c) /\ From(n, c)
  <2> DEFINE s == Head(ioq[n]).seg
  <2>1. /\ ioq[n] # <<>> /\ Head(ioq[n]).kind = "rx" /\ UNCHANGED <<sock, written>>
        /\ \E t \in lookup(n), isn \in Isns :
                \E una \in clamp(s.ack_no, t.seq_nr_unack, t.seq_nr_next) :
                    Commit(n, process(Call(t), s, isn, una), Tail(ioq[n]))
    BY <1>3 DEF RunRx, Next_handler
  <2>2. s \in Coming(n) /\ s \in Segment
    BY <2>1, FrontHandler DEF Coming, AnyHandler, Handler, HandlerKind, RxHandler
  <2> HIDE DEF s
  <2>3. PICK t \in lookup(n), isn \in Isns :
                \E una \in clamp(s.ack_no, t.seq_nr_unack, t.seq_nr_next) :
                    Commit(n, process(Call(t), s, isn, una), Tail(ioq[n]))
    BY <2>1
  <2>4. PICK una \in clamp(s.ack_no, t.seq_nr_unack, t.seq_nr_next) :
                    Commit(n, process(Call(t), s, isn, una), Tail(ioq[n]))
    BY <2>3
  <2>5. t \in TcbT /\ isn \in SeqNr
    BY LookupType, ConnectionConstants
  <2>6. una \in SeqNr
    BY <2>2, <2>5, ClampType DEF TcbT, Segment
  <2> DEFINE c == process(Call(t), s, isn, una)
  <2>7. c \in Context
    BY <2>2, <2>5, <2>6, CallType, ProcessType
  <2>8. FromSegment(n, c)
    BY <2>1, <2>2 DEF FromSegment
  <2> HIDE DEF c
  <2>9. HostStep(n, c)
    BY <2>1, <2>4, <2>7, FrontHandler, CommitStep DEF c
  <2>10. QED
    BY <2>7, <2>8, <2>9 DEF From
<1>4. ASSUME NEW n \in Node, RunEstablished(n) \/ RunRead(n) \/ RunWrite(n)
      PROVE  \E c \in Context : HostStep(n, c) /\ From(n, c)
  <2>1. /\ ioq[n] # <<>> /\ Head(ioq[n]).kind # "rx"
        /\ sock' \in {sock, [sock EXCEPT ![n] = TRUE]}
    BY <1>4 DEF RunEstablished, RunRead, RunWrite, Next_handler
  <2>2. \E call \in Calls(tcb[n], NextBufs(n)) :
            \E c \in {app_call(Call(tcb[n]), call), read_handler(Call(tcb[n]), call)} :
                Commit(n, c, Tail(ioq[n])) /\ Wrote(n, call, c)
    BY <1>4 DEF RunEstablished, RunRead, RunWrite
  <2>3. PICK call \in Calls(tcb[n], NextBufs(n)) :
            \E c \in {app_call(Call(tcb[n]), call), read_handler(Call(tcb[n]), call)} :
                Commit(n, c, Tail(ioq[n])) /\ Wrote(n, call, c)
    BY <2>2
  <2>4. PICK c \in {app_call(Call(tcb[n]), call), read_handler(Call(tcb[n]), call)} :
                Commit(n, c, Tail(ioq[n])) /\ Wrote(n, call, c)
    BY <2>3
  <2>5. c \in Context
    BY <1>1, AppCallType, ReadHandlerType
  <2>6. Active(n)
    BY <2>1, FrontHandler DEF Active
  <2>7. FromCall(n, c)
    BY <2>1, <2>4, <2>6 DEF FromCall
  <2>8. HostStep(n, c)
    BY <2>1, <2>4, <2>5, FrontHandler, CommitStep
  <2>9. QED
    BY <2>5, <2>7, <2>8 DEF From
<1>5. ASSUME NEW n \in Node, RunSendAppData(n)
      PROVE  \E c \in Context : HostStep(n, c) /\ From(n, c)
  <2> DEFINE c == send_app_data(Call(tcb[n]))
  <2>1. /\ ioq[n] # <<>> /\ Head(ioq[n]).kind # "rx" /\ UNCHANGED <<sock, written>>
        /\ Commit(n, c, Tail(ioq[n]))
    BY <1>5 DEF RunSendAppData, Next_handler
  <2>2. c \in Context
    BY <1>1, SendAppDataType
  <2>3. FromSend(n, c)
    BY <2>1, FrontHandler DEF FromSend, Active
  <2> HIDE DEF c
  <2>4. HostStep(n, c)
    BY <2>1, <2>2, FrontHandler, CommitStep
  <2>5. QED
    BY <2>2, <2>3, <2>4 DEF From
<1>6. ASSUME NEW n \in Node, NEW op, AppCall(n, op)
      PROVE  \E c \in Context : HostStep(n, c) /\ From(n, c)
  <2>1. /\ sock[n] /\ sock' = sock
        /\ \E call \in Calls(tcb[n], NextBufs(n)) :
                LET c == app_call(Call(tcb[n]), call)
                IN  Commit(n, c, ioq[n]) /\ Wrote(n, call, c)
    BY <1>6 DEF AppCall
  <2>2. PICK call \in Calls(tcb[n], NextBufs(n)) :
                /\ Commit(n, app_call(Call(tcb[n]), call), ioq[n])
                /\ Wrote(n, call, app_call(Call(tcb[n]), call))
    BY <2>1
  <2> DEFINE c == app_call(Call(tcb[n]), call)
  <2>3. c \in Context
    BY <1>1, AppCallType
  <2>4. FromCall(n, c)
    BY <2>1, <2>2 DEF FromCall, Active
  <2>5. Commit(n, c, ioq[n])
    BY <2>2
  <2> HIDE DEF c
  <2>6. HostStep(n, c)
    BY <1>1, <2>3, <2>5, CommitStep
  <2>7. QED
    BY <2>3, <2>4, <2>6 DEF From
<1>7. QED
  BY <1>2, <1>3, <1>4, <1>5, <1>6, RxReadyStep, FaultStep DEF Next, RunHandler

\* What an application has written and read, and what the network has done.
LEMMA LedgerType ==
    ASSUME TypeOK, Next
    PROVE  /\ sock' \in [Node -> BOOLEAN] /\ written' \in [Node -> Nat]
           /\ got' \in [Node -> Seq(Byte)] /\ faults' \in [FaultKinds -> Nat]
<1>1. /\ sock \in [Node -> BOOLEAN] /\ written \in [Node -> Nat]
      /\ got \in [Node -> Seq(Byte)] /\ faults \in [FaultKinds -> Nat]
  BY DEF TypeOK
<1>2. ASSUME NEW n \in Node, NEW call \in Calls(tcb[n], NextBufs(n)), NEW c, Wrote(n, call, c)
      PROVE  written' \in [Node -> Nat]
  <2>1. call.buf \in Seq(Byte)
    <3>1. call.buf = <<>> \/ call.buf \in NextBufs(n)
      BY DEF Calls, Idle
    <3>2. QED
      BY <3>1, NextBufsType, EmptySeq
  <2>2. Len(call.buf) \in Nat
    BY <2>1, LenProperties
  <2>3. QED
    BY <1>1, <1>2, <2>2 DEF Wrote
<1>3. ASSUME NEW n \in Node, RunRead(n)
      PROVE  got' \in [Node -> Seq(Byte)]
  <2>1. /\ ioq[n] # <<>> /\ Head(ioq[n]).kind = "read"
        /\ got' = [got EXCEPT ![n] = got[n] \o Head(ioq[n]).data]
    BY <1>3 DEF RunRead, Next_handler
  <2>2. Head(ioq[n]).data \in Seq(Byte)
    BY <2>1, FrontHandler DEF AnyHandler, Handler, RxHandler
  <2>3. got[n] \o Head(ioq[n]).data \in Seq(Byte)
    BY <1>1, <2>2, ConcatProperties
  <2>4. QED
    BY <1>1, <2>1, <2>3
<1>4. ASSUME NEW kind, Fault(kind)
      PROVE  faults' \in [FaultKinds -> Nat]
  <2>1. kind \in FaultKinds
    BY <1>4, ConnectionConstants DEF Fault
  <2>2. faults[kind] + 1 \in Nat
    BY <1>1, <2>1
  <2>3. QED
    BY <1>1, <1>4, <2>2 DEF Fault
<1>5. written' \in [Node -> Nat]
  <2>1. CASE UNCHANGED written
    BY <1>1, <2>1
  <2>2. CASE \E n \in Node : \E call \in Calls(tcb[n], NextBufs(n)) : \E c : Wrote(n, call, c)
    BY <1>2, <2>2
  <2>3. QED
    BY <2>1, <2>2 DEF Next, async_connect, RxReady, RunHandler, RunRx, RunEstablished, RunRead,
                      RunWrite, RunSendAppData, AppCall, Lose, Duplicate, Swap, Fault
<1>6. sock' \in [Node -> BOOLEAN]
  BY <1>1 DEF Next, async_connect, RxReady, RunHandler, RunRx, RunEstablished, RunRead,
              RunWrite, RunSendAppData, AppCall, Lose, Duplicate, Swap, Fault
<1>7. got' \in [Node -> Seq(Byte)]
  BY <1>1, <1>3 DEF Next, async_connect, RxReady, RunHandler, RunRx, RunEstablished,
                    RunWrite, RunSendAppData, AppCall, Lose, Duplicate, Swap, Fault
<1>8. faults' \in [FaultKinds -> Nat]
  BY <1>1, <1>4 DEF Next, async_connect, RxReady, RunHandler, RunRx, RunEstablished, RunRead,
                    RunWrite, RunSendAppData, AppCall, Lose, Duplicate, Swap
<1>9. QED
  BY <1>5, <1>6, <1>7, <1>8

\* Every step keeps the state well formed.
LEMMA TypeStep ==
    ASSUME TypeOK, Next
    PROVE  TypeOK'
<1>1. /\ tcb' \in [Node -> TcbT] /\ abort' \in [Node -> Assertion] /\ QueuesType
  <2>1. CASE NetStep
    BY <2>1 DEF NetStep, TypeOK
  <2>2. ASSUME NEW n \in Node, NEW c \in Context, HostStep(n, c)
        PROVE  tcb' \in [Node -> TcbT] /\ abort' \in [Node -> Assertion] /\ QueuesType
    <3>1. c.tcb \in TcbT /\ c.abort \in Assertion
      BY DEF Context
    <3>2. QED
      BY <2>2, <3>1 DEF HostStep, TypeOK
  <2>3. QED
    BY <2>1, <2>2, StepShape
<1>2. QED
  BY <1>1, LedgerType DEF TypeOK, QueuesType, AnyHandler

\* The two hosts start well formed.
LEMMA InitType == Init => TypeOK
<1>1. SUFFICES ASSUME Init PROVE TypeOK
  OBVIOUS
<1>2. new_tcb("Closed", 0) \in TcbT
  BY NewTcbType DEF TcpState
<1>3. \A S : <<>> \in Seq(S)
  BY EmptySeq
<1>4. "none" \in Assertion
  BY DEF Assertion
<1>5. QED
  BY <1>1, <1>2, <1>3, <1>4 DEF Init, TypeOK

\* The TCBs, the queues of both hosts and the network stay well formed, whatever
\* happens to the segments: the type invariant of the connection.
THEOREM ConnectionTypeCorrect == Spec => []TypeOK
<1>1. TypeOK /\ [Next]_vars => TypeOK'
  <2>1. CASE Next
    BY <2>1, TypeStep
  <2>2. CASE UNCHANGED vars
    BY <2>2 DEF vars, TypeOK
  <2>3. QED
    BY <2>1, <2>2
<1>2. QED
  BY <1>1, InitType, PTL DEF Spec

-----------------------------------------------------------------------------
(* The handshake *)

\* Every segment of context c has the flags F.
AllWith(c, F) == \A s \in Range(c.out) : s.flags = F

\* Context c is the one of an established connection that only acknowledges.
CarriesOn(c) ==
    /\ c \in Context
    /\ c.tcb.state = "Established" /\ c.tcb.next_state = "Established"
    /\ AllWith(c, {"ACK"})

\* The elements of a queue and one more.
LEMMA AppendRange ==
    ASSUME NEW S, NEW s \in Seq(S), NEW x
    PROVE  Range(Append(s, x)) \subseteq Range(s) \cup {x}
<1>1. s \in Seq(Range(s) \cup {x})
  BY OverRange, SeqMonotone
<1>2. Append(s, x) \in Seq(Range(s) \cup {x})
  BY <1>1, AppendProperties
<1>3. QED
  BY <1>2, OverRange

\* A method that is called has sent nothing yet.
LEMMA CallSendsNothing == \A t, F : Call(t).out = <<>> /\ AllWith(Call(t), F)
<1>1. \A x \in Range(<<>>) : FALSE
  BY DEF Range
<1>2. \A t : Call(t).out = <<>>
  BY DEF Call
<1>3. QED
  BY <1>1, <1>2 DEF AllWith

\* A packet carries ACK, and SYN with it as long as SYN-RECEIVED is to come.
LEMMA MakeAndSendFlags ==
    ASSUME NEW c \in Context, NEW F,
           F = IF c.tcb.next_state = "SynReceived" THEN {"SYN", "ACK"} ELSE {"ACK"},
           AllWith(c, F)
    PROVE  AllWith(make_and_send_pkt(c), F)
<1> DEFINE t       == c.tcb
           from    == app_data_unacknowleged(t)
           seg_len == app_data_to_send_left(t)
           seq_no  == IF seg_len = 0 THEN t.seq_nr_unack ELSE t.seq_nr_next
           p       == packet(t, seq_no, SubSeq(t.snd_pq, from + 1, from + seg_len))
<1>1. make_and_send_pkt(c).out = Append(c.out, p)
  BY DEF make_and_send_pkt, Context
<1>2. p.flags = F
  BY DEF packet
<1> HIDE DEF p
<1>3. c.out \in Seq(Segment)
  BY DEF Context
<1>4. Range(make_and_send_pkt(c).out) \subseteq Range(c.out) \cup {p}
  BY <1>1, <1>3, AppendRange
<1>5. QED
  BY <1>2, <1>4 DEF AllWith

\* A packet of an established connection.
LEMMA MakeAndSendUp ==
    ASSUME NEW c \in Context, c.tcb.next_state = "Established", AllWith(c, {"ACK"})
    PROVE  CarriesOn(make_and_send_pkt(c))
  BY MakeAndSendType, MakeAndSendFrame, MakeAndSendFlags DEF CarriesOn

\* The packets of the handler that sends what was written.
LEMMA SendAppDataUp ==
    ASSUME NEW c, CarriesOn(c)
    PROVE  CarriesOn(send_app_data(c))
<1> DEFINE t    == c.tcb
           from == app_data_unacknowleged(t)
           left == Len(t.snd_pq) - from
           piece(i) == SubSeq(t.snd_pq, from + (i - 1) * t.mss + 1,
                              Lesser(from + i * t.mss, Len(t.snd_pq)))
           k    == (left + t.mss - 1) \div t.mss
           p(i) == packet(t, Add(t.seq_nr_next, (i - 1) * t.mss), piece(i))
<1>1. c \in Context /\ t.state = "Established" /\ t.next_state = "Established" /\ AllWith(c, {"ACK"})
  BY DEF CarriesOn
<1>2. send_app_data(c) \in Context
  BY <1>1, SendAppDataType
<1>3. send_app_data(c).tcb.state = "Established" /\ send_app_data(c).tcb.next_state = "Established"
  BY <1>1, SendAppDataFrame
<1>4. CASE app_data_to_send_left(t) = 0
  BY <1>4, CarriesOn(c) DEF send_app_data
<1>5. CASE app_data_to_send_left(t) # 0
  <2>1. send_app_data(c).out = c.out \o [i \in 1 .. k |-> p(i)]
    BY <1>1, <1>5 DEF send_app_data, Context
  <2>2. \A i : p(i).flags = {"ACK"}
    BY <1>1 DEF packet
  <2>3. k \in Nat
    <3>1. t \in TcbT
      BY <1>1 DEF Context
    <3>2. left \in Nat /\ t.mss \in Nat \ {0}
      BY <1>5, <3>1, SendSizes DEF TcbT
    <3> HIDE DEF left
    <3>3. left + t.mss - 1 \in Nat
      BY <3>2
    <3>4. QED
      BY <3>2, <3>3, DivType
  <2> HIDE DEF k, p
  <2> DEFINE P == {p(i) : i \in 1 .. k}
  <2>4. [i \in 1 .. k |-> p(i)] \in [1 .. k -> P]
    OBVIOUS
  <2>5. [i \in 1 .. k |-> p(i)] \in Seq(P)
    BY <2>3, <2>4, FunctionIsSeq
  <2>6. Range([i \in 1 .. k |-> p(i)]) \subseteq P
    BY <2>5, OverRange
  <2>7. c.out \in Seq(Segment)
    BY <1>1 DEF Context
  <2>8. Range(send_app_data(c).out) \subseteq Range(c.out) \cup P
    BY <2>1, <2>5, <2>6, <2>7, ConcatRange
  <2>9. QED
    BY <1>1, <1>2, <1>3, <2>2, <2>8 DEF CarriesOn, AllWith
<1>6. QED
  BY <1>4, <1>5

\* A call of the application sends nothing by itself.
LEMMA AppCallUp ==
    ASSUME NEW t, NEW bufs, bufs \subseteq Seq(Byte), NEW call \in Calls(t, bufs),
           NEW c, CarriesOn(c)
    PROVE  CarriesOn(app_call(c, call))
<1>1. c \in Context
  BY DEF CarriesOn
<1>2. app_call(c, call) \in Context
  BY <1>1, AppCallType
<1>3. /\ app_call(c, call).tcb.state = c.tcb.state
      /\ app_call(c, call).tcb.next_state = c.tcb.next_state
      /\ app_call(c, call).out = c.out
  <2>1. CASE call.op = "read"
    BY <1>1, <2>1 DEF app_call, async_read_some, Context, TcbT
  <2>2. CASE call.op = "write"
    BY <1>1, <2>2 DEF app_call, async_write, Context, TcbT
  <2>3. CASE call.op # "read" /\ call.op # "write"
    BY <2>3 DEF app_call
  <2>4. QED
    BY <2>1, <2>2, <2>3
<1>4. QED
  BY <1>2, <1>3 DEF CarriesOn, AllWith

\* The handler of a completed read acknowledges it.
LEMMA ReadHandlerUp ==
    ASSUME NEW t, NEW bufs, bufs \subseteq Seq(Byte), NEW call \in Calls(t, bufs),
           NEW c, CarriesOn(c)
    PROVE  CarriesOn(read_handler(c, call))
  BY AppCallUp, MakeAndSendUp DEF read_handler, CarriesOn

\* The text of a segment does not change the state of the connection.
LEMMA ProcessTextUp ==
    ASSUME NEW c, CarriesOn(c), NEW s \in Segment
    PROVE  CarriesOn(process_text(c, s))
<1>1. c \in Context
  BY DEF CarriesOn
<1>2. process_text(c, s) \in Context
  BY <1>1, ProcessTextType
<1>3. /\ process_text(c, s).tcb.state = c.tcb.state
      /\ process_text(c, s).tcb.next_state = c.tcb.next_state
      /\ process_text(c, s).out = c.out
  BY <1>1, ProcessTextFrame
<1>4. QED
  BY <1>2, <1>3 DEF CarriesOn, AllWith

\* Nor does an acknowledgment, even one of what was never sent, once it is there.
LEMMA ProcessAckUp ==
    ASSUME NEW c, CarriesOn(c), NEW s \in Segment, NEW una \in SeqNr
    PROVE  CarriesOn(process_ack(c, s, una))
<1>1. c \in Context /\ c.tcb.state = "Established" /\ c.tcb.next_state = "Established"
  BY DEF CarriesOn
<1>2. process_ack(c, s, una) \in Context
  BY <1>1, ProcessAckType
<1> DEFINE acked == take_ack(c.tcb, s, una)
<1>3. acked \in TcbT /\ acked.state = "Established" /\ acked.next_state = "Established"
  BY <1>1, TakeAckType DEF Context, take_ack, TcbT
<1>4. CASE process_ack(c, s, una) = c
  BY <1>4
<1>5. CASE process_ack(c, s, una) = [make_and_send_pkt([c EXCEPT !.tcb = acked]) EXCEPT !.ret = TRUE]
  <2> DEFINE d == [c EXCEPT !.tcb = acked]
  <2>1. d \in Context /\ d.tcb = acked /\ d.out = c.out
    BY <1>1, <1>3 DEF Context
  <2> HIDE DEF d, acked
  <2>2. CarriesOn(make_and_send_pkt(d))
    BY <1>3, <2>1, MakeAndSendUp DEF CarriesOn, AllWith
  <2>3. /\ process_ack(c, s, una).tcb = make_and_send_pkt(d).tcb
        /\ process_ack(c, s, una).out = make_and_send_pkt(d).out
    BY <1>5, <2>2 DEF CarriesOn, Context, d
  <2>4. QED
    BY <1>2, <2>2, <2>3 DEF CarriesOn, AllWith
<1>6. CASE process_ack(c, s, una) =
                [c EXCEPT !.tcb = [acked EXCEPT !.next_state =
                    IF c.tcb.state = "FinWait_1" THEN "FinWait_2"
                    ELSE IF c.tcb.state = "Closing" THEN "TimeWait" ELSE @]]
  <2>1. /\ process_ack(c, s, una).tcb.state = "Established"
        /\ process_ack(c, s, una).tcb.next_state = "Established"
        /\ process_ack(c, s, una).out = c.out
    BY <1>1, <1>3, <1>6 DEF Context, TcbT
  <2>2. QED
    BY <1>2, <2>1 DEF CarriesOn, AllWith
<1>7. QED
  BY <1>1, <1>4, <1>5, <1>6, ProcessAckCases

\* A segment without FIN keeps an established connection.
LEMMA ProcessUp ==
    ASSUME NEW t \in TcbT, t.state = "Established", t.next_state = "Established",
           NEW s \in Segment, "FIN" \notin s.flags, NEW isn \in SeqNr, NEW una \in SeqNr
    PROVE  CarriesOn(process(Call(t), s, isn, una))
<1>1. CarriesOn(Call(t)) /\ Call(t).tcb = t
  BY CallType, CallSendsNothing DEF CarriesOn, Call
<1>2. \A d : process_fin(d, s) = d
  BY DEF process_fin
<1>3. CASE process(Call(t), s, isn, una) = Call(t)
  BY <1>1, <1>3
<1>4. CASE process(Call(t), s, isn, una)
             = process_fin(process_text(process_ack(Call(t), s, una), s), s)
  BY <1>1, <1>2, <1>4, ProcessAckUp, ProcessTextUp
<1>5. QED
  BY <1>1, <1>3, <1>4 DEF process

\* What SYN-RECEIVED makes of a SYN or of an acknowledgment.
LEMMA ProcessSynReceived ==
    ASSUME NEW t \in TcbT, t.state = "SynReceived", t.next_state = "SynReceived",
           NEW s \in Segment, s.flags \in {{"SYN"}, {"ACK"}}, NEW isn \in SeqNr, NEW una \in SeqNr
    PROVE  LET c == process(Call(t), s, isn, una)
           IN  \/ c.tcb = t /\ c.out = <<>> /\ c.posts = <<>> /\ c.abort = "none"
               \/ s.flags = {"ACK"} /\ CarriesOn(c)
<1> DEFINE c0 == Call(t)
<1>1. c0 \in Context /\ c0.tcb = t /\ c0.out = <<>> /\ c0.posts = <<>> /\ c0.abort = "none"
  BY CallType DEF Call
<1>2. \A F : AllWith(c0, F)
  BY CallSendsNothing
<1> HIDE DEF c0
<1>3. \A d : process_fin(d, s) = d
  BY DEF process_fin
<1>4. CASE process(c0, s, isn, una) = c0
  BY <1>1, <1>4 DEF c0
<1>5. CASE /\ "SYN" \notin s.flags
           /\ process(c0, s, isn, una) = process_fin(process_text(process_ack(c0, s, una), s), s)
  <2>1. s.flags = {"ACK"}
    BY <1>5
  <2>2. CASE process_ack(c0, s, una) = [c0 EXCEPT !.ret = TRUE]
    <3>1. process_text([c0 EXCEPT !.ret = TRUE], s) = [c0 EXCEPT !.ret = TRUE]
      BY <1>1 DEF process_text, Context
    <3>2. process(c0, s, isn, una) = [c0 EXCEPT !.ret = TRUE]
      BY <1>3, <1>5, <2>2, <3>1
    <3>3. QED
      BY <1>1, <3>2 DEF Context, c0
  <2>3. CASE process_ack(c0, s, una) = listen_finish([c0 EXCEPT !.tcb = [c0.tcb EXCEPT
                    !.seq_nr_unack = una, !.state = "Established", !.next_state = "Established"]])
    <3>1. process_ack(c0, s, una) \in Context
      BY <1>1, ProcessAckType
    <3>2. /\ process_ack(c0, s, una).tcb.state = "Established"
          /\ process_ack(c0, s, una).tcb.next_state = "Established"
          /\ process_ack(c0, s, una).out = c0.out
      <4> DEFINE u == [c0.tcb EXCEPT !.seq_nr_unack = una, !.state = "Established",
                                     !.next_state = "Established"]
      <4>1. u.state = "Established" /\ u.next_state = "Established"
        BY <1>1 DEF TcbT
      <4> HIDE DEF u
      <4>2. process_ack(c0, s, una) = listen_finish([c0 EXCEPT !.tcb = u])
        BY <2>3 DEF u
      <4>3. QED
        BY <1>1, <4>1, <4>2 DEF listen_finish, Context
    <3>3. CarriesOn(process_ack(c0, s, una))
      BY <1>2, <3>1, <3>2 DEF CarriesOn, AllWith
    <3>4. QED
      BY <1>3, <1>5, <2>1, <3>3, ProcessTextUp DEF c0
  <2>4. QED
    BY <1>1, <2>1, <2>2, <2>3 DEF process_ack
<1>6. QED
  BY <1>1, <1>4, <1>5 DEF process

\* What LISTEN makes of any segment.
LEMMA ProcessListen ==
    ASSUME NEW t \in TcbT, t.state = "Listen", t.next_state = "Listen",
           NEW s \in Segment, NEW isn \in SeqNr, NEW una
    PROVE  LET c == process(Call(t), s, isn, una)
           IN  \/ c.tcb = t /\ c.out = <<>> /\ c.posts = <<>> /\ c.abort = "none"
               \/ /\ s.flags \cap {"RST", "ACK", "SYN"} = {"SYN"}
                  /\ c.tcb.state = "SynReceived" /\ c.tcb.next_state = "SynReceived"
                  /\ c.posts = <<>> /\ c.abort = "none" /\ AllWith(c, {"SYN", "ACK"})
<1> DEFINE d == [Call(t) EXCEPT !.tcb = [@ EXCEPT
                !.mss = accept_mss(t, s), !.rcv_next = Add(s.seq_no, 1),
                !.snd_cap = s.window, !.snd_pq = <<>>,
                !.seq_nr_next = Add(isn, 1), !.seq_nr_unack = isn,
                !.next_state = "SynReceived"]]
<1>1. Call(t).tcb = t /\ Call(t).out = <<>> /\ Call(t).posts = <<>> /\ Call(t).abort = "none"
  BY DEF Call
<1>2. process(Call(t), s, isn, una) = tcp_handle_listen_state(Call(t), s, isn)
  BY <1>1 DEF process
<1>3. CASE s.flags \cap {"RST", "ACK", "SYN"} # {"SYN"}
  BY <1>1, <1>2, <1>3 DEF tcp_handle_listen_state
<1>4. CASE s.flags \cap {"RST", "ACK", "SYN"} = {"SYN"}
  <2>1. process(Call(t), s, isn, una) = make_and_send_pkt(d)
    BY <1>1, <1>2, <1>4 DEF tcp_handle_listen_state
  <2>2. d \in Context
    <3>1. Add(s.seq_no, 1) \in SeqNr /\ Add(isn, 1) \in SeqNr /\ s.window \in SeqNr
      BY AddType DEF Segment
    <3>2. accept_mss(t, s) \in Nat /\ <<>> \in Seq(Byte) /\ "SynReceived" \in TcpState
      BY AcceptMssType, EmptySeq DEF TcpState
    <3>3. Call(t) \in Context
      BY CallType
    <3>4. QED
      BY <3>1, <3>2, <3>3 DEF Context, TcbT
  <2>3. d.tcb.next_state = "SynReceived" /\ d.out = <<>> /\ d.posts = <<>> /\ d.abort = "none"
    BY <1>1, CallType DEF Context, TcbT, Call
  <2>4. AllWith(d, {"SYN", "ACK"})
    BY <1>1, <2>3, CallSendsNothing DEF AllWith
  <2> HIDE DEF d
  <2>5. AllWith(make_and_send_pkt(d), {"SYN", "ACK"})
    BY <2>2, <2>3, <2>4, MakeAndSendFlags
  <2>6. QED
    BY <1>4, <2>1, <2>2, <2>3, <2>5, MakeAndSendFrame
<1>5. QED
  BY <1>3, <1>4

\* What SYN-SENT makes of any segment.
LEMMA ProcessSynSent ==
    ASSUME NEW t \in TcbT, t.state = "SynSent", t.next_state = "Established",
           NEW s \in Segment, NEW isn \in SeqNr, NEW una
    PROVE  LET c == process(Call(t), s, isn, una)
           IN  \/ c.tcb = t /\ c.out = <<>> /\ c.posts = <<>> /\ c.abort = "none"
               \/ {"SYN", "ACK"} \subseteq s.flags /\ CarriesOn(c)
<1> DEFINE d == [Call(t) EXCEPT !.tcb = [@ EXCEPT
                !.mss = accept_mss(t, s), !.rcv_next = Add(s.seq_no, 1),
                !.snd_cap = s.window, !.snd_pq = <<>>,
                !.seq_nr_unack = s.ack_no,
                !.state = "Established", !.next_state = "Established"]]
<1>1. Call(t).tcb = t /\ Call(t).out = <<>> /\ Call(t).posts = <<>> /\ Call(t).abort = "none"
  BY DEF Call
<1>2. process(Call(t), s, isn, una) = tcp_handle_syn_sent(Call(t), s)
  BY <1>1 DEF process
<1>3. CASE ~syn_ack_acceptable(t, s)
  BY <1>1, <1>2, <1>3 DEF tcp_handle_syn_sent
<1>4. CASE syn_ack_acceptable(t, s)
  <2>1. process(Call(t), s, isn, una) = listen_finish(make_and_send_pkt(d))
    BY <1>1, <1>2, <1>4 DEF tcp_handle_syn_sent
  <2>2. d \in Context
    <3>1. Add(s.seq_no, 1) \in SeqNr /\ s.ack_no \in SeqNr /\ s.window \in SeqNr
      BY AddType DEF Segment
    <3>2. accept_mss(t, s) \in Nat /\ <<>> \in Seq(Byte) /\ "Established" \in TcpState
      BY AcceptMssType, EmptySeq DEF TcpState
    <3>3. Call(t) \in Context
      BY CallType
    <3>4. QED
      BY <3>1, <3>2, <3>3 DEF Context, TcbT
  <2>3. d.tcb.next_state = "Established" /\ d.out = <<>>
    BY <1>1, CallType DEF Context, TcbT, Call
  <2>4. AllWith(d, {"ACK"})
    BY <1>1, <2>3, CallSendsNothing DEF AllWith
  <2> HIDE DEF d
  <2>5. CarriesOn(make_and_send_pkt(d))
    BY <2>2, <2>3, <2>4, MakeAndSendUp
  <2>6. CarriesOn(listen_finish(make_and_send_pkt(d)))
    BY <2>5, ListenFinishType DEF CarriesOn, AllWith, listen_finish, Context
  <2>7. QED
    BY <1>4, <2>1, <2>6 DEF syn_ack_acceptable
<1>5. QED
  BY <1>3, <1>4

Met(n) == tcb[n].state \in {"SynReceived", "Established"}

\* The states of each side with the next states they have there.
HostPairs(n) ==
    {<<"Closed", "Closed">>, <<"Established", "Established">>} \cup
    (IF n = "client" THEN {<<"SynSent", "Established">>}
     ELSE {<<"Listen", "Listen">>, <<"SynReceived", "SynReceived">>})

PairsOK == \A n \in Node : <<tcb[n].state, tcb[n].next_state>> \in HostPairs(n)

\* Nobody is told of a connection that is not established.
Quiet == \A n \in Node : Active(n) => Synchronised(n)

\* A host sends what belongs to the state it is in or was in before.
FlagsOK ==
    /\ \A s \in Coming("server") :
            \/ s.flags = {"SYN"} /\ tcb["client"].state # "Closed"
            \/ s.flags = {"ACK"} /\ Synchronised("client")
    /\ \A s \in Coming("client") : s.flags \in {{"SYN", "ACK"}, {"ACK"}} /\ Met("server")

\* The order in which the two sides get on.
OrderOK ==
    /\ Met("server") => tcb["client"].state # "Closed"
    /\ Synchronised("client") => Met("server")
    /\ Synchronised("server") => Synchronised("client")

Handshake == PairsOK /\ Quiet /\ FlagsOK /\ OrderOK

\* What a step of host n, which leaves context c behind, is in the handshake:
\* nothing, the SYN, the answer to it, or a connection that is or becomes
\* established.
Waits(n, c) ==
    /\ c.out = <<>> /\ c.posts = <<>>
    /\ \/ c.tcb = tcb[n] /\ tcb[n].state # "Established"
       \/ /\ n = "server" /\ tcb[n].state = "Closed"
          /\ c.tcb.state = "Listen" /\ c.tcb.next_state = "Listen"
Opens(n, c) ==
    /\ n = "client" /\ tcb[n].state = "Closed"
    /\ c.tcb.state = "SynSent" /\ c.tcb.next_state = "Established"
    /\ c.posts = <<>> /\ AllWith(c, {"SYN"})
Answers(n, c) ==
    /\ n = "server" /\ tcb[n].state \in {"Closed", "Listen"} /\ tcb["client"].state # "Closed"
    /\ c.tcb.state = "SynReceived" /\ c.tcb.next_state = "SynReceived"
    /\ c.posts = <<>> /\ AllWith(c, {"SYN", "ACK"})
GoesOn(n, c) ==
    /\ CarriesOn(c)
    /\ \/ Synchronised(n)
       \/ n = "client" /\ tcb[n].state = "SynSent" /\ Met("server")
       \/ n = "server" /\ tcb[n].state = "SynReceived" /\ Synchronised("client")
Move(n, c) == Waits(n, c) \/ Opens(n, c) \/ Answers(n, c) \/ GoesOn(n, c)

\* What is coming is well formed.
LEMMA ComingType ==
    ASSUME TypeOK, NEW n \in Node
    PROVE  Coming(n) \subseteq Segment
<1>1. net[n] \in Seq(Segment) /\ ioq[n] \in Seq(AnyHandler)
  BY DEF TypeOK, AnyHandler
<1>2. Range(net[n]) \subseteq Segment /\ Range(ioq[n]) \subseteq AnyHandler
  BY <1>1, OverRange
<1>3. QED
  BY <1>2 DEF Coming, AnyHandler, Handler, HandlerKind, RxHandler

\* Every segment moves the handshake on or not at all.
LEMMA SegmentMove ==
    ASSUME TypeOK, Handshake, NEW n \in Node, NEW c \in Context, FromSegment(n, c)
    PROVE  Move(n, c)
<1>1. PICK s \in Coming(n), t \in lookup(n), isn \in Isns :
            \E una \in clamp(s.ack_no, t.seq_nr_unack, t.seq_nr_next) :
                c = process(Call(t), s, isn, una)
  BY DEF FromSegment
<1>2. PICK una \in clamp(s.ack_no, t.seq_nr_unack, t.seq_nr_next) :
                c = process(Call(t), s, isn, una)
  BY <1>1
<1>3. s \in Segment /\ t \in TcbT /\ isn \in SeqNr
  BY ComingType, LookupType, ConnectionConstants
<1>4. una \in SeqNr
  BY <1>3, ClampType DEF TcbT, Segment
<1>5. <<tcb[n].state, tcb[n].next_state>> \in HostPairs(n)
  BY DEF Handshake, PairsOK
<1>6. CASE n = "server" /\ tcb[n].state \in {"Closed", "Listen"}
  <2>1. t.state = "Listen" /\ t.next_state = "Listen" /\ (tcb[n].state = "Listen" => t = tcb[n])
    <3>1. CASE tcb[n].state = "Closed"
      BY <1>6, <3>1 DEF lookup, new_tcb
    <3>2. CASE tcb[n].state = "Listen"
      BY <1>5, <1>6, <3>2 DEF lookup, HostPairs
    <3>3. QED
      BY <1>6, <3>1, <3>2
  <2>2. tcb["client"].state # "Closed"
    BY <1>6 DEF Handshake, FlagsOK, Synchronised
  <2>3. \/ c.tcb = t /\ c.out = <<>> /\ c.posts = <<>> /\ c.abort = "none"
        \/ /\ c.tcb.state = "SynReceived" /\ c.tcb.next_state = "SynReceived"
           /\ c.posts = <<>> /\ AllWith(c, {"SYN", "ACK"})
    BY <1>2, <1>3, <2>1, ProcessListen
  <2>4. QED
    BY <1>6, <2>1, <2>2, <2>3 DEF Move, Waits, Answers
<1>7. CASE n = "client" \/ tcb[n].state \notin {"Closed", "Listen"}
  <2>1. t = tcb[n]
    BY <1>7 DEF lookup
  <2>2. CASE tcb[n].state = "Closed"
    BY <1>2, <2>1, <2>2 DEF process, tcp_handle_close_state, Call, Move, Waits
  <2>3. CASE tcb[n].state = "SynSent"
    <3>1. n = "client" /\ t.next_state = "Established"
      BY <1>5, <2>1, <2>3 DEF HostPairs
    <3>2. Met("server")
      BY <3>1, <1>1 DEF Handshake, FlagsOK
    <3>3. \/ c.tcb = t /\ c.out = <<>> /\ c.posts = <<>> /\ c.abort = "none"
          \/ CarriesOn(c)
      BY <1>2, <1>3, <2>1, <2>3, <3>1, ProcessSynSent
    <3>4. QED
      BY <2>1, <2>3, <3>1, <3>2, <3>3 DEF Move, Waits, GoesOn
  <2>4. CASE tcb[n].state = "SynReceived"
    <3>1. n = "server" /\ t.next_state = "SynReceived"
      BY <1>5, <2>1, <2>4 DEF HostPairs, Node
    <3>2. s.flags = {"SYN"} \/ (s.flags = {"ACK"} /\ Synchronised("client"))
      BY <1>1, <3>1 DEF Handshake, FlagsOK
    <3>3. \/ c.tcb = t /\ c.out = <<>> /\ c.posts = <<>> /\ c.abort = "none"
          \/ s.flags = {"ACK"} /\ CarriesOn(c)
      BY <1>2, <1>3, <1>4, <2>1, <2>4, <3>1, <3>2, ProcessSynReceived
    <3>4. {"SYN"} # {"ACK"}
      OBVIOUS
    <3>5. QED
      BY <2>1, <2>4, <3>1, <3>2, <3>3, <3>4 DEF Move, Waits, GoesOn
  <2>5. CASE tcb[n].state = "Established"
    <3>1. t.next_state = "Established"
      BY <1>5, <2>1, <2>5 DEF HostPairs
    <3>2. "FIN" \notin s.flags
      BY <1>1 DEF Handshake, FlagsOK, Node
    <3>3. CarriesOn(c)
      BY <1>2, <1>3, <1>4, <2>1, <2>5, <3>1, <3>2, ProcessUp
    <3>4. QED
      BY <2>5, <3>3 DEF Move, GoesOn, Synchronised
  <2>6. QED
    BY <1>5, <1>7, <2>2, <2>3, <2>4, <2>5 DEF HostPairs
<1>8. QED
  BY <1>6, <1>7 DEF Node

\* So does every other step of a host.
LEMMA StepMove ==
    ASSUME TypeOK, Handshake, NEW n \in Node, NEW c \in Context, From(n, c)
    PROVE  Move(n, c)
<1>1. ASSUME Active(n) PROVE CarriesOn(Call(tcb[n])) /\ Synchronised(n)
  <2>1. Synchronised(n) /\ tcb[n] \in TcbT
    BY <1>1 DEF Handshake, Quiet, TypeOK
  <2>2. tcb[n].next_state = "Established"
    <3>1. <<tcb[n].state, tcb[n].next_state>> \in HostPairs(n)
      BY DEF Handshake, PairsOK
    <3>2. QED
      BY <2>1, <3>1 DEF HostPairs, Synchronised
  <2>3. Call(tcb[n]).tcb = tcb[n]
    BY DEF Call
  <2>4. QED
    BY <2>1, <2>2, <2>3, CallType, CallSendsNothing DEF CarriesOn, Synchronised
<1>2. CASE FromConnect(n, c)
  <2>1. PICK isn \in Isns, m \in UninitMss :
            c = start_connecting(Call(new_tcb("Connecting", m)), isn, MyMss)
    BY <1>2 DEF FromConnect
  <2> DEFINE p == [flags |-> {"SYN"}, seq_no |-> isn, ack_no |-> 0,
                   window |-> RcvWindow, mss |-> MyMss, data |-> <<>>]
  <2>2. c.tcb.state = "SynSent" /\ c.tcb.next_state = "Established" /\ c.posts = <<>>
    BY <2>1 DEF start_connecting, Call, new_tcb
  <2>3. p.flags = {"SYN"} /\ c.out = Append(<<>>, p)
    BY <2>1 DEF start_connecting, Call, new_tcb
  <2> HIDE DEF p
  <2>4. Range(c.out) \subseteq Range(<<>>) \cup {p}
    BY <2>3, EmptySeq, AppendRange
  <2>5. Range(<<>>) = {}
    BY DEF Range
  <2>6. AllWith(c, {"SYN"})
    BY <2>3, <2>4, <2>5 DEF AllWith
  <2>7. QED
    BY <1>2, <2>2, <2>6 DEF Move, Opens, FromConnect
<1>3. CASE FromSegment(n, c)
  BY <1>3, SegmentMove
<1>4. CASE FromCall(n, c)
  <2>1. PICK call \in Calls(tcb[n], NextBufs(n)) :
            c \in {app_call(Call(tcb[n]), call), read_handler(Call(tcb[n]), call)}
    BY <1>4 DEF FromCall
  <2>2. CarriesOn(Call(tcb[n])) /\ Synchronised(n)
    BY <1>1, <1>4 DEF FromCall
  <2>3. CarriesOn(c)
    BY <2>1, <2>2, NextBufsType, AppCallUp, ReadHandlerUp
  <2>4. QED
    BY <2>2, <2>3 DEF Move, GoesOn
<1>5. CASE FromSend(n, c)
  BY <1>1, <1>5, SendAppDataUp DEF FromSend, Move, GoesOn
<1>6. QED
  BY <1>2, <1>3, <1>4, <1>5 DEF From

\* Which application holds a socket after a step of host n.
SockStep(n) == sock' = sock \/ (Active(n) /\ sock' = [sock EXCEPT ![n] = TRUE])

\* A move of one host keeps the order of the handshake.
LEMMA MoveKeeps ==
    ASSUME TypeOK, Handshake, NEW n \in Node, NEW c \in Context,
           HostStep(n, c), SockStep(n), Move(n, c)
    PROVE  Handshake'
<1>1. Peer(n) \in Node /\ Peer(n) # n /\ \A m \in Node : m = n \/ m = Peer(n)
  BY DEF Peer, Node
<1>2. /\ tcb'[n] = c.tcb /\ tcb'[Peer(n)] = tcb[Peer(n)]
  BY <1>1 DEF HostStep, TypeOK
<1>3. Range(<<>>) = {}
  BY DEF Range
<1>4. <<tcb[n].state, tcb[n].next_state>> \in HostPairs(n)
  BY DEF Handshake, PairsOK
<1>5. <<c.tcb.state, c.tcb.next_state>> \in HostPairs(n)
  BY <1>4 DEF Move, Waits, Opens, Answers, GoesOn, CarriesOn, HostPairs
<1>6. PairsOK'
  BY <1>1, <1>2, <1>5 DEF Handshake, PairsOK
<1>7. Active(n)' => c.tcb.state = "Established"
  <2>1. Active(n)' => Active(n) \/ Range(c.posts) # {}
    <3>1. sock'[n] => Active(n)
      BY DEF SockStep, Active, TypeOK
    <3>2. QED
      BY <3>1 DEF Active, HostStep, NothingNew
  <2>2. Active(n) => Synchronised(n)
    BY DEF Handshake, Quiet
  <2>3. CASE Waits(n, c)
    BY <1>3, <2>1, <2>2, <2>3 DEF Waits, Synchronised
  <2>4. CASE Opens(n, c)
    BY <1>3, <2>1, <2>2, <2>4 DEF Opens, Synchronised
  <2>5. CASE Answers(n, c)
    BY <1>3, <2>1, <2>2, <2>5 DEF Answers, Synchronised
  <2>6. CASE GoesOn(n, c)
    BY <2>6 DEF GoesOn, CarriesOn
  <2>7. QED
    BY <2>3, <2>4, <2>5, <2>6 DEF Move
<1>8. Active(Peer(n))' => Synchronised(Peer(n))
  <2>1. sock'[Peer(n)] = sock[Peer(n)]
    BY <1>1 DEF SockStep, TypeOK
  <2>2. Active(Peer(n))' => Active(Peer(n))
    BY <1>3, <2>1 DEF Active, HostStep, NothingNew
  <2>3. QED
    BY <1>1, <2>2 DEF Handshake, Quiet
<1>9. Quiet'
  BY <1>1, <1>2, <1>7, <1>8 DEF Quiet, Synchronised
<1>10. OrderOK'
  <2>1. CASE n = "client"
    <3>1. tcb'["client"] = c.tcb /\ tcb'["server"] = tcb["server"]
      BY <1>2, <2>1 DEF Peer
    <3>2. QED
      BY <2>1, <3>1 DEF Handshake, OrderOK, Move, Waits, Opens, Answers, GoesOn, CarriesOn,
                        Synchronised, Met
  <2>2. CASE n = "server"
    <3>1. tcb'["server"] = c.tcb /\ tcb'["client"] = tcb["client"]
      BY <1>2, <2>2 DEF Peer
    <3>2. QED
      BY <2>2, <3>1 DEF Handshake, OrderOK, Move, Waits, Opens, Answers, GoesOn, CarriesOn,
                        Synchronised, Met
  <2>3. QED
    BY <2>1, <2>2 DEF Node
<1>11. FlagsOK'
  <2>1. /\ Coming(n)' \subseteq Coming(n)
        /\ Coming(Peer(n))' \subseteq Coming(Peer(n)) \cup Range(c.out)
    BY DEF HostStep
  <2>2. CASE n = "client"
    <3>1. tcb'["client"] = c.tcb /\ tcb'["server"] = tcb["server"]
      BY <1>2, <2>2 DEF Peer
    <3>2. /\ Coming("client")' \subseteq Coming("client")
          /\ Coming("server")' \subseteq Coming("server") \cup Range(c.out)
      BY <2>1, <2>2 DEF Peer
    <3>3. \A s \in Coming("client")' : s.flags \in {{"SYN", "ACK"}, {"ACK"}} /\ Met("server")'
      BY <3>1, <3>2 DEF Handshake, FlagsOK, Met
    <3>4. /\ tcb["client"].state # "Closed" => tcb'["client"].state # "Closed"
          /\ Synchronised("client") => Synchronised("client")'
      BY <2>2, <3>1 DEF Move, Waits, Opens, Answers, GoesOn, CarriesOn, Synchronised
    <3>5. ASSUME NEW s \in Range(c.out)
          PROVE  \/ s.flags = {"SYN"} /\ tcb'["client"].state # "Closed"
                 \/ s.flags = {"ACK"} /\ Synchronised("client")'
      <4>1. CASE Waits(n, c)
        BY <1>3, <4>1 DEF Waits
      <4>2. CASE Opens(n, c)
        BY <3>1, <4>2 DEF Opens, AllWith
      <4>3. CASE Answers(n, c)
        BY <2>2, <4>3 DEF Answers
      <4>4. CASE GoesOn(n, c)
        BY <3>1, <4>4 DEF GoesOn, CarriesOn, AllWith, Synchronised
      <4>5. QED
        BY <4>1, <4>2, <4>3, <4>4 DEF Move
    <3>6. \A s \in Coming("server")' :
                \/ s.flags = {"SYN"} /\ tcb'["client"].state # "Closed"
                \/ s.flags = {"ACK"} /\ Synchronised("client")'
      BY <3>2, <3>4, <3>5 DEF Handshake, FlagsOK
    <3>7. QED
      BY <3>3, <3>6 DEF FlagsOK
  <2>3. CASE n = "server"
    <3>1. tcb'["server"] = c.tcb /\ tcb'["client"] = tcb["client"]
      BY <1>2, <2>3 DEF Peer
    <3>2. /\ Coming("server")' \subseteq Coming("server")
          /\ Coming("client")' \subseteq Coming("client") \cup Range(c.out)
      BY <2>1, <2>3 DEF Peer
    <3>3. \A s \in Coming("server")' :
                \/ s.flags = {"SYN"} /\ tcb'["client"].state # "Closed"
                \/ s.flags = {"ACK"} /\ Synchronised("client")'
      BY <3>1, <3>2 DEF Handshake, FlagsOK, Synchronised
    <3>4. Met("server") => Met("server")'
      BY <2>3, <3>1 DEF Move, Waits, Opens, Answers, GoesOn, CarriesOn, Met
    <3>5. ASSUME NEW s \in Range(c.out)
          PROVE  s.flags \in {{"SYN", "ACK"}, {"ACK"}} /\ Met("server")'
      <4>1. CASE Waits(n, c)
        BY <1>3, <4>1 DEF Waits
      <4>2. CASE Opens(n, c)
        BY <2>3, <4>2 DEF Opens
      <4>3. CASE Answers(n, c)
        BY <3>1, <4>3 DEF Answers, AllWith, Met
      <4>4. CASE GoesOn(n, c)
        BY <3>1, <4>4 DEF GoesOn, CarriesOn, AllWith, Met
      <4>5. QED
        BY <4>1, <4>2, <4>3, <4>4 DEF Move
    <3>6. \A s \in Coming("client")' : s.flags \in {{"SYN", "ACK"}, {"ACK"}} /\ Met("server")'
      BY <3>2, <3>4, <3>5 DEF Handshake, FlagsOK
    <3>7. QED
      BY <3>3, <3>6 DEF FlagsOK
  <2>4. QED
    BY <2>2, <2>3 DEF Node
<1>12. QED
  BY <1>6, <1>9, <1>10, <1>11 DEF Handshake

\* The network cannot disturb it.
LEMMA NetKeeps ==
    ASSUME Handshake, NetStep
    PROVE  Handshake'
<1>1. /\ tcb' = tcb /\ sock' = sock
      /\ \A n \in Node : NothingNew(n, <<>>) /\ Coming(n)' \subseteq Coming(n)
  BY DEF NetStep
<1>2. Range(<<>>) = {}
  BY DEF Range
<1>3. \A n \in Node : Active(n)' => Active(n)
  BY <1>1, <1>2 DEF Active, NothingNew
<1>4. Quiet'
  BY <1>1, <1>3 DEF Handshake, Quiet, Synchronised
<1>5. PairsOK' /\ OrderOK'
  BY <1>1 DEF Handshake, PairsOK, OrderOK, Synchronised, Met
<1>6. FlagsOK'
  BY <1>1 DEF Handshake, FlagsOK, Synchronised, Met, Node
<1>7. QED
  BY <1>4, <1>5, <1>6 DEF Handshake

\* Every step keeps the order of the handshake.
LEMMA HandshakeStep ==
    ASSUME TypeOK, Handshake, Next
    PROVE  Handshake'
<1>1. ASSUME NEW n \in Node, NEW c \in Context, HostStep(n, c), From(n, c)
      PROVE  Handshake'
  <2>1. SockStep(n)
    BY <1>1 DEF From, FromConnect, FromSegment, FromCall, FromSend, SockStep
  <2>2. QED
    BY <1>1, <2>1, StepMove, MoveKeeps
<1>2. QED
  BY <1>1, StepShape, NetKeeps

\* Nothing is on its way when the hosts start.
LEMMA InitHandshake == Init => Handshake
<1>1. SUFFICES ASSUME Init PROVE Handshake
  OBVIOUS
<1>2. \A n \in Node : /\ tcb[n].state = "Closed" /\ tcb[n].next_state = "Closed"
                      /\ ioq[n] = <<>> /\ net[n] = <<>> /\ sock[n] = FALSE
  BY <1>1 DEF Init, new_tcb
<1>3. Range(<<>>) = {}
  BY DEF Range
<1>4. \A n \in Node : Coming(n) = {} /\ ~Active(n)
  BY <1>2, <1>3 DEF Coming, Active
<1>5. QED
  BY <1>2, <1>4 DEF Handshake, PairsOK, Quiet, FlagsOK, OrderOK, HostPairs, Met, Synchronised, Node

\* The server is told of a connection only when the client has established it,
\* whatever became of the segments of the handshake: tcp_handle_syn_sent has
\* taken the SYN,ACK before process() can leave SYN-RECEIVED.
THEOREM ConnectionServerAfterClient == Spec => []ServerAfterClient
<1>1. Init => TypeOK /\ Handshake
  BY InitType, InitHandshake
<1>2. (TypeOK /\ Handshake) /\ [Next]_vars => (TypeOK /\ Handshake)'
  <2>1. CASE Next
    BY <2>1, TypeStep, HandshakeStep
  <2>2. CASE UNCHANGED vars
    BY <2>2 DEF vars, TypeOK, Handshake, PairsOK, Quiet, FlagsOK, OrderOK, Met, Synchronised,
                Active, Coming
  <2>3. QED
    BY <2>1, <2>2
<1>3. TypeOK /\ Handshake => ServerAfterClient
  BY DEF Handshake, OrderOK, ServerAfterClient
<1>4. QED
  BY <1>1, <1>2, <1>3, PTL DEF Spec

-----------------------------------------------------------------------------
(* Sequence numbers *)

\* What an application may write in all.
Budget(n) == IF n = "client" THEN ClientBytes ELSE ServerBytes

\* No sequence number of the connection reaches the end of the sequence number
\* space.  Where one does, the comparisons of tcb.cpp, which are those of plain
\* integers, no longer tell the order of the bytes.
NoWrap ==
    \A isn \in Isns : isn + 1 + ClientBytes < SeqSpace /\ isn + 1 + ServerBytes < SeqSpace

\* The bytes of the send queue that have not left yet.
Left(t) == Len(t.snd_pq) - app_data_unacknowleged(t)

\* The send side of TCB t when its application may write room bytes more: what is
\* in flight and what waits fit the window and the sequence number space.
SendSide(t, room) ==
    /\ t.seq_nr_unack <= t.seq_nr_next
    /\ t.seq_nr_next + Left(t) + room < SeqSpace
    /\ t.seq_nr_next - t.seq_nr_unack <= RcvWindow
    /\ Len(t.snd_pq) <= RcvWindow

\* TCB r has received no more than TCB p sent, and p knows of no more.
Agrees(r, p) ==
    /\ p.seq_nr_unack <= r.rcv_next
    /\ r.rcv_next + Len(r.rcv_pq) <= p.seq_nr_next

\* TCB p may have sent segment s.
SentBy(p, s) ==
    /\ s.window = RcvWindow
    /\ s.seq_no + Len(s.data) <= p.seq_nr_next
    /\ "SYN" \in s.flags =>
            /\ s.seq_no + 1 <= p.seq_nr_next
            /\ p.state \in {"SynSent", "SynReceived"} => p.seq_nr_unack <= s.seq_no + 1
    /\ "ACK" \in s.flags => s.ack_no <= p.rcv_next

\* The numbers of a TCB.
LEMMA TcbNumbers ==
    ASSUME NEW t \in TcbT
    PROVE  /\ t.seq_nr_next \in SeqNr /\ t.seq_nr_next \in Nat /\ t.seq_nr_next < SeqSpace
           /\ t.seq_nr_unack \in SeqNr /\ t.seq_nr_unack \in Nat /\ t.seq_nr_unack < SeqSpace
           /\ t.rcv_next \in SeqNr /\ t.rcv_next \in Nat /\ t.rcv_next < SeqSpace
           /\ t.snd_pq \in Seq(Byte) /\ Len(t.snd_pq) \in Nat
           /\ t.rcv_pq \in Seq(Byte) /\ Len(t.rcv_pq) \in Nat
<1>1. /\ t.seq_nr_next \in SeqNr /\ t.seq_nr_unack \in SeqNr /\ t.rcv_next \in SeqNr
      /\ t.snd_pq \in Seq(Byte) /\ t.rcv_pq \in Seq(Byte)
  BY DEF TcbT
<1>2. \A x \in SeqNr : x \in Nat /\ x < SeqSpace
  BY TcbConstants DEF SeqNr
<1>3. QED
  BY <1>1, <1>2, LenProperties

\* The numbers of a segment.
LEMMA SegmentNumbers ==
    ASSUME NEW s \in Segment
    PROVE  /\ s.seq_no \in SeqNr /\ s.seq_no \in Nat /\ s.ack_no \in SeqNr /\ s.ack_no \in Nat
           /\ s.data \in Seq(Byte) /\ Len(s.data) \in Nat
<1>1. s.seq_no \in SeqNr /\ s.ack_no \in SeqNr /\ s.data \in Seq(Byte)
  BY DEF Segment
<1>2. \A x \in SeqNr : x \in Nat /\ x < SeqSpace
  BY TcbConstants DEF SeqNr
<1>3. QED
  BY <1>1, <1>2, LenProperties

\* Without a wrap, the number of bytes that wait is a plain difference.
LEMMA LeftExact ==
    ASSUME NEW t \in TcbT, t.seq_nr_unack <= t.seq_nr_next
    PROVE  LET flight == t.seq_nr_next - t.seq_nr_unack
               len    == Len(t.snd_pq)
           IN  /\ flight \in Nat /\ len \in Nat
               /\ app_data_unacknowleged(t) = (IF len < flight THEN len ELSE flight)
               /\ Left(t) = (IF len < flight THEN 0 ELSE len - flight)
               /\ Left(t) \in Nat
<1>1. /\ t.seq_nr_next \in SeqNr /\ t.seq_nr_unack \in SeqNr
      /\ t.seq_nr_next \in Nat /\ t.seq_nr_unack \in Nat
  BY TcbConstants DEF TcbT, SeqNr
<1>2. Len(t.snd_pq) \in Nat
  BY SendSizes
<1>3. Sub(t.seq_nr_next, t.seq_nr_unack) = t.seq_nr_next - t.seq_nr_unack
  BY <1>1, SubExact
<1> DEFINE flight == t.seq_nr_next - t.seq_nr_unack
           len    == Len(t.snd_pq)
<1>4. flight \in Nat /\ len \in Nat
  BY <1>1, <1>2
<1>5. app_data_unacknowleged(t) = Lesser(len, flight)
  BY <1>3 DEF app_data_unacknowleged
<1>6. Left(t) = len - app_data_unacknowleged(t)
  BY DEF Left
<1> HIDE DEF flight, len
<1>7. Lesser(len, flight) = (IF len < flight THEN len ELSE flight)
  BY DEF Lesser
<1>8. /\ Left(t) = (IF len < flight THEN 0 ELSE len - flight)
      /\ Left(t) \in Nat
  BY <1>4, <1>5, <1>6, <1>7
<1>9. QED
  BY <1>4, <1>5, <1>7, <1>8 DEF flight, len

\* The result depends on the send side only.
LEMMA SendSideFrame ==
    ASSUME NEW t, NEW u, NEW room, SendSide(t, room),
           u.seq_nr_next = t.seq_nr_next, u.seq_nr_unack = t.seq_nr_unack, u.snd_pq = t.snd_pq
    PROVE  SendSide(u, room)
  BY DEF SendSide, Left, app_data_unacknowleged

\* Multiplication keeps the order.
LEMMA MulMonotone ==
    ASSUME NEW x \in Int, NEW y \in Int, NEW m \in Nat, x <= y
    PROVE  x * m <= y * m
<1>1. (y - x) * m >= 0
  OBVIOUS
<1>2. (y - x) * m = y * m - x * m
  OBVIOUS
<1>3. x * m \in Int /\ y * m \in Int
  OBVIOUS
<1>4. QED
  BY <1>1, <1>2, <1>3

\* No piece of the text starts behind its end.
LEMMA PieceStarts ==
    ASSUME NEW left \in Nat, NEW m \in Nat \ {0}, NEW i \in 1 .. (left + m - 1) \div m
    PROVE  /\ (i - 1) * m \in Nat /\ i * m = (i - 1) * m + m
           /\ (i - 1) * m < left
<1> DEFINE k == (left + m - 1) \div m
<1>1. k \in Nat /\ k * m <= left + m - 1
  <2>1. ASSUME NEW a \in Nat PROVE a \div m \in Nat /\ (a \div m) * m <= a
    OBVIOUS
  <2>2. left + m - 1 \in Nat
    OBVIOUS
  <2>3. QED
    BY <2>1, <2>2
<1>2. i \in Nat \ {0} /\ i <= k
  BY <1>1
<1> HIDE DEF k
<1>3. i * m <= k * m
  BY <1>1, <1>2, MulMonotone
<1>4. (i - 1) * m \in Nat /\ i * m = (i - 1) * m + m
  BY <1>2
<1>5. i * m \in Int /\ k * m \in Int
  BY <1>1, <1>2
<1>6. QED
  BY <1>1, <1>3, <1>4, <1>5

\* TCBs t and u differ in SND.NXT and in the state only.
SameButNext(t, u) ==
    /\ u.seq_nr_unack = t.seq_nr_unack /\ u.snd_cap = t.snd_cap /\ u.snd_pq = t.snd_pq
    /\ u.rcv_next = t.rcv_next /\ u.rcv_pq = t.rcv_pq

\* Sending bytes that wait moves SND.NXT within the bounds of the send side.
LEMMA AdvanceSide ==
    ASSUME NEW t \in TcbT, NEW room \in Nat, SendSide(t, room), NEW n \in Nat, n <= Left(t),
           NEW u \in TcbT, SameButNext(t, u), u.seq_nr_next = Add(t.seq_nr_next, n)
    PROVE  SendSide(u, room) /\ u.seq_nr_next = t.seq_nr_next + n
<1> DEFINE flight == t.seq_nr_next - t.seq_nr_unack
           len    == Len(t.snd_pq)
<1>1. /\ t.seq_nr_next \in SeqNr /\ t.seq_nr_unack \in SeqNr
      /\ t.seq_nr_next \in Nat /\ t.seq_nr_unack \in Nat
  BY TcbConstants DEF TcbT, SeqNr
<1>2. /\ t.seq_nr_unack <= t.seq_nr_next /\ t.seq_nr_next + Left(t) + room < SeqSpace
      /\ flight <= RcvWindow /\ len <= RcvWindow
  BY DEF SendSide
<1>3. /\ flight \in Nat /\ len \in Nat /\ Left(t) \in Nat
      /\ Left(t) = (IF len < flight THEN 0 ELSE len - flight)
  BY <1>2, LeftExact
<1>4. SeqSpace \in Nat /\ RcvWindow \in Nat
  BY TcbConstants
<1>5. n \in SeqNr /\ t.seq_nr_next + n < SeqSpace
  BY <1>1, <1>2, <1>3, <1>4 DEF SeqNr
<1>6. u.seq_nr_next = t.seq_nr_next + n
  BY <1>1, <1>5, AddExact
<1>7. u.seq_nr_unack = t.seq_nr_unack /\ u.snd_pq = t.snd_pq
  BY DEF SameButNext
<1>8. u.seq_nr_unack <= u.seq_nr_next
  BY <1>1, <1>2, <1>6, <1>7
<1>9. Left(u) = (IF len < flight + n THEN 0 ELSE len - (flight + n)) /\ Left(u) \in Nat
  <2>1. u.seq_nr_next - u.seq_nr_unack = flight + n
    BY <1>1, <1>6, <1>7
  <2>2. QED
    BY <1>7, <1>8, <2>1, LeftExact
<1>10. u.seq_nr_next - u.seq_nr_unack = flight + n
  BY <1>1, <1>6, <1>7
<1> HIDE DEF flight, len
<1>11. n = 0 \/ (~(len < flight) /\ flight + n <= len)
  BY <1>3
<1>12. flight + n <= RcvWindow
  BY <1>2, <1>3, <1>4, <1>11
<1>13. Left(u) = Left(t) - n
  BY <1>3, <1>9, <1>11
<1>14. u.seq_nr_next + Left(u) + room < SeqSpace
  BY <1>1, <1>2, <1>3, <1>6, <1>13
<1>15. QED
  BY <1>2, <1>6, <1>7, <1>8, <1>10, <1>12, <1>14 DEF SendSide, len

\* A packet carries what waits, from SND.NXT on, and acknowledges what is read.
LEMMA MakeAndSendSide ==
    ASSUME NEW c \in Context, NEW room \in Nat, SendSide(c.tcb, room), c.out = <<>>,
           c.tcb.next_state = "SynReceived" =>
                c.tcb.snd_pq = <<>> /\ c.tcb.seq_nr_unack + 1 <= c.tcb.seq_nr_next
    PROVE  LET d == make_and_send_pkt(c)
           IN  /\ SameButNext(c.tcb, d.tcb) /\ c.tcb.seq_nr_next <= d.tcb.seq_nr_next
               /\ SendSide(d.tcb, room)
               /\ \A s \in Range(d.out) : SentBy(d.tcb, s)
<1> DEFINE t       == c.tcb
           from    == app_data_unacknowleged(t)
           seg_len == app_data_to_send_left(t)
           seq_no  == IF seg_len = 0 THEN t.seq_nr_unack ELSE t.seq_nr_next
           data    == SubSeq(t.snd_pq, from + 1, from + seg_len)
           p       == packet(t, seq_no, data)
           d       == make_and_send_pkt(c)
           u       == d.tcb
<1>1. t \in TcbT /\ d \in Context /\ u \in TcbT
  BY MakeAndSendType DEF Context
<1>2. d.out = Append(c.out, p)
  BY DEF make_and_send_pkt, Context
<1>3. SameButNext(t, u) /\ u.seq_nr_next = Add(t.seq_nr_next, seg_len)
  BY <1>1 DEF make_and_send_pkt, Context, TcbT, SameButNext
<1>4. /\ seg_len \in Nat /\ seg_len <= Left(t) /\ from \in Nat /\ from + seg_len <= Len(t.snd_pq)
      /\ Len(t.snd_pq) \in Nat
  BY <1>1, SendSizes DEF Left
<1>5. Len(data) = seg_len
  <2>1. t.snd_pq \in Seq(Byte)
    BY <1>1 DEF TcbT
  <2>2. \A i \in from + 1 .. from + seg_len : t.snd_pq[i] \in Byte
    BY <1>4, <2>1, ElementOfSeq
  <2> HIDE DEF from, seg_len
  <2>3. Len(SubSeq(t.snd_pq, from + 1, from + seg_len))
          = IF from + 1 <= from + seg_len THEN (from + seg_len) - (from + 1) + 1 ELSE 0
    BY <1>4, <2>1, <2>2, SubSeqProperties
  <2>4. QED
    BY <1>4, <2>3
<1>6. /\ p.seq_no = seq_no /\ p.data = data /\ p.window = RcvWindow /\ p.ack_no = t.rcv_next
      /\ ("SYN" \in p.flags <=> t.next_state = "SynReceived")
  BY DEF packet
<1>7. /\ t.seq_nr_next \in Nat /\ t.seq_nr_unack \in Nat /\ t.seq_nr_unack <= t.seq_nr_next
  BY <1>1, TcbConstants DEF TcbT, SeqNr, SendSide
<1>8. t.next_state = "SynReceived" => seg_len = 0 /\ t.seq_nr_unack + 1 <= t.seq_nr_next
  <2>1. ASSUME t.snd_pq = <<>> PROVE seg_len = 0
    <3>1. Len(t.snd_pq) = 0
      BY <2>1
    <3>2. QED
      BY <1>4, <3>1
  <2>2. QED
    BY <2>1
<1> HIDE DEF p, data, seq_no, seg_len, from, d, t
<1>9. SendSide(u, room) /\ u.seq_nr_next = t.seq_nr_next + seg_len
  BY <1>1, <1>3, <1>4, AdvanceSide DEF t
<1>10. SentBy(u, p)
  <2>1. seq_no = (IF seg_len = 0 THEN t.seq_nr_unack ELSE t.seq_nr_next)
    BY DEF seq_no
  <2>2. p.seq_no + Len(p.data) <= u.seq_nr_next
    BY <1>4, <1>5, <1>6, <1>7, <1>9, <2>1
  <2>3. "SYN" \in p.flags => p.seq_no + 1 <= u.seq_nr_next /\ u.seq_nr_unack <= p.seq_no + 1
    BY <1>3, <1>4, <1>6, <1>7, <1>8, <1>9, <2>1 DEF SameButNext
  <2>4. p.ack_no <= u.rcv_next
    <3>1. p.ack_no = u.rcv_next /\ u.rcv_next \in Int
      BY <1>1, <1>3, <1>6, TcbConstants DEF SameButNext, TcbT, SeqNr
    <3>2. QED
      BY <3>1
  <2>5. QED
    BY <1>6, <2>2, <2>3, <2>4 DEF SentBy
<1>11. Range(d.out) \subseteq {p}
  <2>1. Range(<<>>) = {}
    BY DEF Range
  <2>2. Range(d.out) \subseteq Range(<<>>) \cup {p}
    BY <1>2, EmptySeq, AppendRange
  <2>3. QED
    BY <2>1, <2>2
<1>12. t.seq_nr_next <= u.seq_nr_next
  BY <1>4, <1>7, <1>9
<1>13. QED
  BY <1>3, <1>9, <1>10, <1>11, <1>12 DEF d, t

\* The handler that sends what was written sends all of it, piece by piece.
LEMMA SendAppDataSide ==
    ASSUME NEW c \in Context, NEW room \in Nat, SendSide(c.tcb, room), c.out = <<>>,
           c.tcb.next_state = "Established"
    PROVE  LET d == send_app_data(c)
           IN  /\ SameButNext(c.tcb, d.tcb) /\ c.tcb.seq_nr_next <= d.tcb.seq_nr_next
               /\ SendSide(d.tcb, room)
               /\ \A s \in Range(d.out) : SentBy(d.tcb, s)
<1> DEFINE t    == c.tcb
           from == app_data_unacknowleged(t)
           left == Len(t.snd_pq) - from
           piece(i) == SubSeq(t.snd_pq, from + (i - 1) * t.mss + 1,
                              Lesser(from + i * t.mss, Len(t.snd_pq)))
           k    == (left + t.mss - 1) \div t.mss
           p(i) == packet(t, Add(t.seq_nr_next, (i - 1) * t.mss), piece(i))
           d    == send_app_data(c)
           u    == d.tcb
<1>1. t \in TcbT /\ d \in Context /\ u \in TcbT
  BY SendAppDataType DEF Context
<1>2. /\ t.seq_nr_next \in Nat /\ t.seq_nr_next \in SeqNr
      /\ t.rcv_next \in Nat /\ t.snd_pq \in Seq(Byte)
  BY <1>1, TcbNumbers
<1>3. CASE app_data_to_send_left(t) = 0
  <2>1. d = c
    BY <1>3 DEF send_app_data
  <2>2. Range(<<>>) = {}
    BY DEF Range
  <2>3. QED
    BY <1>2, <2>1, <2>2 DEF SameButNext
<1>4. CASE app_data_to_send_left(t) # 0
  <2>1. d.out = c.out \o [i \in 1 .. k |-> p(i)]
    BY <1>4 DEF send_app_data, Context
  <2>2. SameButNext(t, u) /\ u.seq_nr_next = Add(t.seq_nr_next, left)
    BY <1>1, <1>4 DEF send_app_data, Context, TcbT, SameButNext
  <2>3. /\ left \in Nat /\ left <= Left(t) /\ t.mss \in Nat \ {0} /\ from \in Nat
        /\ from + left = Len(t.snd_pq) /\ Len(t.snd_pq) \in Nat /\ left < SeqSpace
    <3>1. /\ left \in Nat /\ left = Left(t) /\ t.mss \in Nat \ {0} /\ from \in Nat
          /\ from + left = Len(t.snd_pq) /\ Len(t.snd_pq) \in Nat
      <4>1. t.mss \in Nat
        BY <1>1 DEF TcbT
      <4>2. /\ from \in 0 .. Len(t.snd_pq) /\ Len(t.snd_pq) \in Nat
            /\ app_data_to_send_left(t) = Lesser(t.mss, left)
        BY <1>1, SendSizes DEF app_data_to_send_left
      <4>3. left = Left(t) /\ left = Len(t.snd_pq) - from
        BY DEF Left
      <4> HIDE DEF left, from
      <4>4. left \in Nat /\ from \in Nat /\ from + left = Len(t.snd_pq)
        BY <4>2, <4>3
      <4>5. t.mss # 0
        BY <1>4, <4>2, <4>4 DEF Lesser
      <4>6. QED
        BY <4>1, <4>2, <4>3, <4>4, <4>5
    <3>2. t.seq_nr_next + Left(t) + room < SeqSpace
      BY DEF SendSide
    <3>3. ASSUME NEW x \in Nat, NEW y \in Nat, NEW z \in Nat, NEW w \in Nat, x + y + z < w
          PROVE  y < w
      BY <3>3
    <3> HIDE DEF left, from, t
    <3>4. Left(t) \in Nat /\ t.seq_nr_next \in Nat /\ room \in Nat /\ SeqSpace \in Nat
      BY <1>2, <3>1, TcbConstants
    <3>5. Left(t) < SeqSpace
      BY <3>2, <3>3, <3>4
    <3>6. left <= Left(t)
      BY <3>1, <3>4
    <3>7. QED
      BY <3>1, <3>5, <3>6
  <2>4. SendSide(u, room) /\ u.seq_nr_next = t.seq_nr_next + left
    <3> HIDE DEF left, u
    <3>1. QED
      BY <1>1, <2>2, <2>3, AdvanceSide
  <2>5. t.seq_nr_next + left < SeqSpace
    <3> HIDE DEF left, u
    <3>1. QED
      BY <1>1, <2>4, TcbNumbers
  <2>6. ASSUME NEW i \in 1 .. k
        PROVE  SentBy(u, p(i))
    <3> DEFINE a == (i - 1) * t.mss
               b == i * t.mss
    <3>1. a \in Nat /\ b = a + t.mss /\ a < left
      <4> HIDE DEF left
      <4>1. QED
        BY <2>3, PieceStarts
    <3>2. /\ p(i).seq_no = Add(t.seq_nr_next, a) /\ p(i).ack_no = t.rcv_next
          /\ p(i).window = RcvWindow /\ p(i).flags = {"ACK"}
          /\ p(i).data = SubSeq(t.snd_pq, from + a + 1, Lesser(from + b, Len(t.snd_pq)))
      BY DEF packet
    <3> DEFINE e == Lesser(from + b, Len(t.snd_pq))
    <3> HIDE DEF p, a, b, d, k, left, from
    <3>3. e \in Nat /\ e <= Len(t.snd_pq) /\ from + a + 1 <= e
      <4>1. e = (IF from + b < Len(t.snd_pq) THEN from + b ELSE Len(t.snd_pq))
        BY DEF Lesser
      <4> HIDE DEF e
      <4>2. b \in Nat /\ a + 1 <= b /\ a + 1 <= left
        BY <2>3, <3>1
      <4>3. from + b \in Nat /\ from + a + 1 <= from + b /\ from + a + 1 <= Len(t.snd_pq)
        <5>1. ASSUME NEW f \in Nat, NEW x \in Nat, NEW y \in Nat, NEW z \in Nat, NEW len \in Nat,
                     x + 1 <= y, x + 1 <= z, f + z = len
              PROVE  f + y \in Nat /\ f + x + 1 <= f + y /\ f + x + 1 <= len
          BY <5>1
        <5>2. from \in Nat /\ a \in Nat /\ left \in Nat /\ b \in Nat /\ Len(t.snd_pq) \in Nat
          BY <2>3, <3>1, <4>2
        <5>3. a + 1 <= b /\ a + 1 <= left
          BY <4>2
        <5>4. from + left = Len(t.snd_pq)
          BY <2>3
        <5>5. QED
          BY <5>1, <5>2, <5>3, <5>4
      <4>4. QED
        BY <2>3, <4>1, <4>3
    <3>4. Len(p(i).data) = e - (from + a + 1) + 1
      <4>1. from + a + 1 \in Nat \ {0}
        BY <2>3, <3>1
      <4>2. \A j \in from + a + 1 .. e : t.snd_pq[j] \in Byte
        <5> HIDE DEF e
        <5>1. QED
          BY <1>2, <3>3, <4>1, ElementOfSeq
      <4> HIDE DEF e
      <4>3. p(i).data = SubSeq(t.snd_pq, from + a + 1, e)
        BY <3>2 DEF e
      <4> DEFINE f == from + a + 1
      <4>4. f \in Nat \ {0} /\ f <= e /\ \A j \in f .. e : t.snd_pq[j] \in Byte
        BY <3>3, <4>1, <4>2
      <4> HIDE DEF f
      <4>5. Len(SubSeq(t.snd_pq, f, e)) = IF f <= e THEN e - f + 1 ELSE 0
        BY <1>2, <3>3, <4>4, SubSeqProperties
      <4>6. QED
        BY <4>3, <4>4, <4>5 DEF f
    <3>5. p(i).seq_no = t.seq_nr_next + a
      <4>1. a \in SeqNr /\ t.seq_nr_next + a < SeqSpace
        <5>1. ASSUME NEW x \in Nat, NEW y \in Nat, NEW z \in Nat, NEW w \in Nat, y < z, x + z < w
              PROVE  y \in 0 .. w - 1 /\ x + y < w
          BY <5>1
        <5>2. a \in Nat /\ left \in Nat /\ t.seq_nr_next \in Nat /\ SeqSpace \in Nat /\ a < left
          BY <1>2, <2>3, <3>1, TcbConstants
        <5>3. QED
          BY <2>5, <5>1, <5>2 DEF SeqNr
      <4>2. QED
        BY <1>2, <3>2, <4>1, AddExact
    <3>6. p(i).seq_no + Len(p(i).data) <= u.seq_nr_next
      <4> HIDE DEF e, u
      <4>1. ASSUME NEW nxt \in Nat, NEW f \in Nat, NEW x \in Nat, NEW y \in Nat, NEW z \in Nat,
                   NEW len \in Nat, y <= len, f + z = len
            PROVE  (nxt + x) + (y - (f + x + 1) + 1) <= nxt + z
        BY <4>1
      <4>2. /\ t.seq_nr_next \in Nat /\ from \in Nat /\ a \in Nat /\ e \in Nat /\ left \in Nat
            /\ Len(t.snd_pq) \in Nat
        BY <1>2, <2>3, <3>1, <3>3
      <4>3. e <= Len(t.snd_pq) /\ from + left = Len(t.snd_pq)
        BY <2>3, <3>3
      <4>4. (t.seq_nr_next + a) + (e - (from + a + 1) + 1) <= t.seq_nr_next + left
        BY <4>1, <4>2, <4>3
      <4>5. QED
        BY <2>4, <3>4, <3>5, <4>4
    <3>7. p(i).ack_no <= u.rcv_next
      BY <1>2, <2>2, <3>2 DEF SameButNext
    <3>8. QED
      BY <3>2, <3>6, <3>7 DEF SentBy
  <2>7. \A s \in Range(d.out) : SentBy(u, s)
    <3>1. k \in Nat
      <4> HIDE DEF left
      <4>1. left + t.mss - 1 \in Nat
        BY <2>3
      <4>2. QED
        BY <2>3, <4>1, DivType
    <3> DEFINE P == {p(i) : i \in 1 .. k}
    <3> HIDE DEF k, p, d, u
    <3>2. [i \in 1 .. k |-> p(i)] \in [1 .. k -> P]
      OBVIOUS
    <3>3. [i \in 1 .. k |-> p(i)] \in Seq(P)
      BY <3>1, <3>2, FunctionIsSeq
    <3>4. Range([i \in 1 .. k |-> p(i)]) \subseteq P
      BY <3>3, OverRange
    <3>5. Range(<<>>) = {} /\ <<>> \in Seq(P)
      BY EmptySeq DEF Range
    <3>6. Range(d.out) \subseteq P
      BY <2>1, <3>3, <3>4, <3>5, ConcatRange
    <3>7. QED
      BY <2>6, <3>6
  <2>8. QED
    BY <1>2, <2>2, <2>3, <2>4, <2>7
<1>5. QED
  BY <1>3, <1>4

\* Context d is what an operation other than process() may make of TCB t.
Operated(t, d, room) ==
    /\ SendSide(d.tcb, room)
    /\ d.tcb.snd_cap = t.snd_cap /\ d.tcb.seq_nr_unack = t.seq_nr_unack
    /\ t.seq_nr_next <= d.tcb.seq_nr_next
    /\ t.rcv_next <= d.tcb.rcv_next
    /\ d.tcb.rcv_next + Len(d.tcb.rcv_pq) = t.rcv_next + Len(t.rcv_pq)
    /\ d.abort # "rcv_overflow"
    /\ \A s \in Range(d.out) : SentBy(d.tcb, s)

\* A read moves bytes from the receive queue to the application.
LEMMA ReadSide ==
    ASSUME NEW t \in TcbT, NEW room \in Nat, SendSide(t, room), NEW size \in Nat,
           t.rcv_next + Len(t.rcv_pq) < SeqSpace
    PROVE  LET d == async_read_some(Call(t), size)
           IN  /\ Operated(t, d, room) /\ d.out = <<>> /\ d.abort = "none"
               /\ d.tcb.next_state = t.next_state
<1> DEFINE d == async_read_some(Call(t), size)
           n == Lesser(Len(t.rcv_pq), size)
<1>1. /\ t.rcv_next \in SeqNr /\ t.rcv_next \in Nat /\ t.seq_nr_next \in Nat
      /\ t.rcv_pq \in Seq(Byte) /\ Len(t.rcv_pq) \in Nat
  BY TcbNumbers
<1>2. n \in Nat /\ n <= Len(t.rcv_pq)
  BY <1>1, LesserType
<1>3. d.out = <<>> /\ d.abort = "none" /\ Range(<<>>) = {}
  BY DEF async_read_some, Call, Range
<1>4. /\ d.tcb.seq_nr_next = t.seq_nr_next /\ d.tcb.seq_nr_unack = t.seq_nr_unack
      /\ d.tcb.snd_pq = t.snd_pq /\ d.tcb.snd_cap = t.snd_cap /\ d.tcb.next_state = t.next_state
  BY DEF async_read_some, Call, TcbT
<1>5. \/ t.rcv_pq # <<>> /\ d.tcb.rcv_next = Add(t.rcv_next, n) /\ d.tcb.rcv_pq = Drop(t.rcv_pq, n)
      \/ d.tcb.rcv_next = t.rcv_next /\ d.tcb.rcv_pq = t.rcv_pq
  BY DEF async_read_some, Call, TcbT
<1> HIDE DEF d, n
<1>6. SendSide(d.tcb, room)
  BY <1>4, SendSideFrame
<1>7. Add(t.rcv_next, n) = t.rcv_next + n
  <2>1. n \in SeqNr /\ t.rcv_next + n < SeqSpace
    BY <1>1, <1>2, TcbConstants DEF SeqNr
  <2>2. QED
    BY <1>1, <2>1, AddExact
<1>8. Len(Drop(t.rcv_pq, n)) = Len(t.rcv_pq) - n
  BY <1>1, <1>2, DropType
<1>9. /\ t.rcv_next <= d.tcb.rcv_next
      /\ d.tcb.rcv_next + Len(d.tcb.rcv_pq) = t.rcv_next + Len(t.rcv_pq)
  BY <1>1, <1>2, <1>5, <1>7, <1>8
<1>10. QED
  BY <1>1, <1>3, <1>4, <1>6, <1>9 DEF Operated, d

\* A write puts bytes behind those that wait, if they fit the peer's window.
LEMMA WriteSide ==
    ASSUME NEW t \in TcbT, NEW room \in Nat, SendSide(t, room), NEW buf \in Seq(Byte),
           Len(buf) <= room, t.snd_cap = RcvWindow
    PROVE  LET d == async_write(Call(t), buf)
           IN  /\ d.abort = "none" => Operated(t, d, room - Len(buf))
               /\ d.abort # "none" => Operated(t, d, room)
               /\ d.out = <<>> /\ d.tcb.next_state = t.next_state
<1> DEFINE d == async_write(Call(t), buf)
<1>1. /\ t.rcv_next \in Nat /\ t.seq_nr_next \in Nat /\ t.seq_nr_unack \in Nat
      /\ t.snd_pq \in Seq(Byte) /\ Len(t.snd_pq) \in Nat /\ Len(t.rcv_pq) \in Nat
  BY TcbNumbers
<1>2. d.out = <<>> /\ Range(<<>>) = {} /\ d.tcb.next_state = t.next_state
  BY DEF async_write, Call, Range, TcbT
<1>3. /\ d.tcb.seq_nr_next = t.seq_nr_next /\ d.tcb.seq_nr_unack = t.seq_nr_unack
      /\ d.tcb.snd_cap = t.snd_cap /\ d.tcb.rcv_next = t.rcv_next /\ d.tcb.rcv_pq = t.rcv_pq
  BY DEF async_write, Call, TcbT
<1>4. \/ d.abort = "snd_overflow" /\ d.tcb = t
      \/ /\ d.abort = "none" /\ d.tcb.snd_pq = t.snd_pq \o buf
         /\ ~(Len(t.snd_pq) + Len(buf) > RcvWindow)
  BY DEF async_write, Call, TcbT
<1>5. Len(buf) \in Nat /\ Len(t.snd_pq \o buf) = Len(t.snd_pq) + Len(buf)
  BY <1>1, ConcatProperties, LenProperties
<1>6. d \in Context /\ d.tcb \in TcbT
  BY CallType, AsyncWriteType DEF Context
<1> HIDE DEF d
<1>7. CASE d.abort = "snd_overflow" /\ d.tcb = t
  <2>1. "snd_overflow" # "none" /\ "snd_overflow" # "rcv_overflow"
    OBVIOUS
  <2>2. Operated(t, d, room)
    BY <1>1, <1>2, <1>7, <2>1 DEF Operated
  <2>3. QED
    BY <1>2, <1>7, <2>1, <2>2 DEF d
<1>8. CASE /\ d.abort = "none" /\ d.tcb.snd_pq = t.snd_pq \o buf
           /\ ~(Len(t.snd_pq) + Len(buf) > RcvWindow)
  <2> DEFINE u == d.tcb
             flight == t.seq_nr_next - t.seq_nr_unack
             len == Len(t.snd_pq)
             more == Len(buf)
  <2>1. /\ t.seq_nr_unack <= t.seq_nr_next /\ t.seq_nr_next + Left(t) + room < SeqSpace
        /\ flight <= RcvWindow
    BY DEF SendSide
  <2>2. /\ flight \in Nat /\ len \in Nat /\ Left(t) \in Nat
        /\ Left(t) = (IF len < flight THEN 0 ELSE len - flight)
    BY <2>1, LeftExact
  <2>3. /\ Left(u) \in Nat
        /\ Left(u) = (IF len + more < flight THEN 0 ELSE len + more - flight)
    <3>1. u \in TcbT /\ u.seq_nr_unack <= u.seq_nr_next
      BY <1>3, <1>6, <2>1
    <3>2. u.seq_nr_next - u.seq_nr_unack = flight /\ Len(u.snd_pq) = len + more
      BY <1>3, <1>5, <1>8
    <3>5. flight \in Nat /\ len \in Nat /\ more \in Nat
      BY <1>5, <2>2
    <3> HIDE DEF u, flight, len, more
    <3>3. /\ Left(u) \in Nat
          /\ Left(u) = (IF Len(u.snd_pq) < u.seq_nr_next - u.seq_nr_unack THEN 0
                        ELSE Len(u.snd_pq) - (u.seq_nr_next - u.seq_nr_unack))
      BY <3>1, LeftExact
    <3>4. QED
      BY <3>2, <3>3, <3>5
  <2>4. Len(u.snd_pq) = len + more /\ more \in Nat /\ more <= room /\ len + more <= RcvWindow
    <3>1. Len(u.snd_pq) = len + more /\ more \in Nat /\ more <= room /\ ~(len + more > RcvWindow)
      BY <1>5, <1>8
    <3>2. QED
      BY <2>2, <3>1, TcbConstants
  <2> HIDE DEF flight, len, more
  <2>5. Left(u) <= Left(t) + more
    BY <2>2, <2>3, <2>4
  <2>6. t.seq_nr_next + Left(u) + (room - more) < SeqSpace
    BY <1>1, <2>1, <2>2, <2>3, <2>4, <2>5, TcbConstants
  <2>7. SendSide(u, room - more)
    BY <1>3, <2>1, <2>4, <2>6 DEF SendSide, flight
  <2>8. Operated(t, d, room - more)
    BY <1>1, <1>2, <1>3, <1>8, <2>7 DEF Operated
  <2>9. QED
    BY <1>2, <1>8, <2>8 DEF d, more
<1>9. QED
  BY <1>4, <1>7, <1>8

\* A call of the application, made by itself or from the callback of a read,
\* which is then acknowledged.
LEMMA CallSide ==
    ASSUME NEW t \in TcbT, NEW room \in Nat, SendSide(t, room), t.snd_cap = RcvWindow,
           t.next_state = "Established", t.rcv_next + Len(t.rcv_pq) < SeqSpace,
           NEW bufs, bufs \subseteq Seq(Byte), \A b \in bufs : Len(b) <= room,
           NEW call \in Calls(t, bufs),
           NEW d \in {app_call(Call(t), call), read_handler(Call(t), call)}
    PROVE  LET used == IF d.abort = "none" THEN Len(call.buf) ELSE 0
           IN  used \in 0 .. room /\ Operated(t, d, room - used)
<1> DEFINE a == app_call(Call(t), call)
           n == Len(call.buf)
<1>1. /\ call.buf \in Seq(Byte) /\ n \in Nat /\ n <= room /\ call.size \in Nat
      /\ (call.op # "write" => n = 0)
      /\ (call.op = "write" => call.buf \in bufs)
  <2>1. \/ call.op # "write" /\ call.buf = <<>> /\ call.size \in Nat
        \/ call.op = "write" /\ call.buf \in bufs /\ call.size = 0
    BY ApplicationConstants DEF Calls, Idle
  <2>2. Len(<<>>) = 0 /\ <<>> \in Seq(Byte)
    BY EmptySeq
  <2>3. CASE call.op # "write" /\ call.buf = <<>> /\ call.size \in Nat
    BY <2>2, <2>3
  <2>4. CASE call.op = "write" /\ call.buf \in bufs /\ call.size = 0
    <3>1. call.buf \in Seq(Byte) /\ Len(call.buf) <= room
      BY <2>4
    <3>2. Len(call.buf) \in Nat
      BY <3>1, LenProperties
    <3>3. QED
      BY <2>4, <3>1, <3>2
  <2>5. QED
    BY <2>1, <2>3, <2>4
<1>2. a \in Context
  BY CallType, AppCallType
<1>3. /\ a.out = <<>> /\ a.tcb.next_state = "Established"
      /\ Operated(t, a, room - (IF a.abort = "none" THEN n ELSE 0))
  <2>1. CASE call.op = "read"
    <3>1. a = async_read_some(Call(t), call.size)
      BY <2>1 DEF app_call
    <3>2. n = 0 /\ room - (IF a.abort = "none" THEN 0 ELSE 0) = room
      BY <1>1, <2>1
    <3>3. QED
      BY <1>1, <3>1, <3>2, ReadSide
  <2>2. CASE call.op = "write"
    <3>1. a = async_write(Call(t), call.buf)
      BY <2>2 DEF app_call
    <3>2. room - 0 = room
      OBVIOUS
    <3> HIDE DEF a, n
    <3>3. /\ a.abort = "none" => Operated(t, a, room - n)
          /\ a.abort # "none" => Operated(t, a, room)
          /\ a.out = <<>> /\ a.tcb.next_state = t.next_state
      BY <1>1, <3>1, WriteSide DEF n
    <3>4. CASE a.abort = "none"
      BY <3>3, <3>4
    <3>5. CASE a.abort # "none"
      BY <3>2, <3>3, <3>5
    <3>6. QED
      BY <3>4, <3>5
  <2>3. CASE call.op # "read" /\ call.op # "write"
    <3>1. a = Call(t) /\ Call(t).tcb = t /\ Call(t).out = <<>> /\ Call(t).abort = "none"
      BY <2>3 DEF app_call, Call
    <3>2. n = 0 /\ room - (IF a.abort = "none" THEN n ELSE 0) = room
      BY <1>1, <2>3
    <3>3. t.rcv_next \in Nat /\ t.seq_nr_next \in Nat /\ Range(<<>>) = {}
      BY TcbNumbers DEF Range
    <3>4. Operated(t, a, room)
      BY <3>1, <3>3 DEF Operated
    <3>5. QED
      BY <3>1, <3>2, <3>4
  <2>4. QED
    BY <2>1, <2>2, <2>3
<1>4. CASE d = a
  BY <1>1, <1>3, <1>4
<1>5. CASE d = read_handler(Call(t), call) /\ a.abort = "none"
  <2> DEFINE left == room - n
  <2>1. d = make_and_send_pkt(a)
    BY <1>5 DEF read_handler
  <2>2. left \in Nat /\ Operated(t, a, left)
    BY <1>1, <1>3, <1>5
  <2>3. SendSide(a.tcb, left)
    BY <2>2 DEF Operated
  <2> HIDE DEF a, left
  <2>4. /\ SameButNext(a.tcb, d.tcb) /\ a.tcb.seq_nr_next <= d.tcb.seq_nr_next
        /\ SendSide(d.tcb, left) /\ \A s \in Range(d.out) : SentBy(d.tcb, s)
    BY <1>2, <1>3, <2>1, <2>2, <2>3, MakeAndSendSide
  <2>5. d.abort = "none"
    BY <1>2, <1>5, <2>1, MakeAndSendFrame
  <2>6. d.tcb \in TcbT /\ a.tcb \in TcbT
    BY <1>2, <2>1, MakeAndSendType DEF Context
  <2>7. t.seq_nr_next <= d.tcb.seq_nr_next
    <3>1. t.seq_nr_next \in Nat /\ d.tcb.seq_nr_next \in Nat /\ a.tcb.seq_nr_next \in Nat
      BY <2>6, TcbNumbers
    <3>2. t.seq_nr_next <= a.tcb.seq_nr_next
      BY <2>2 DEF Operated
    <3>3. QED
      BY <2>4, <3>1, <3>2
  <2>8. Operated(t, d, left)
    BY <2>2, <2>4, <2>5, <2>7 DEF Operated, SameButNext
  <2>9. QED
    BY <1>1, <2>5, <2>8 DEF left
<1>6. CASE d = read_handler(Call(t), call) /\ a.abort # "none"
  <2>1. d = a
    BY <1>6 DEF read_handler
  <2>2. QED
    BY <1>4, <2>1
<1>7. QED
  BY <1>4, <1>5, <1>6

\* What std::clamp makes of an acknowledgment of something that was sent.
LEMMA ClampExact ==
    ASSUME NEW v \in Nat, NEW lo \in Nat, NEW hi \in Nat, lo <= hi, v <= hi, NEW u \in clamp(v, lo, hi)
    PROVE  u = IF v < lo THEN lo ELSE v
  BY DEF clamp

\* An acknowledgment of something that was sent, even an old one, leaves no more
\* to send than there was.
LEMMA TakeAckSide ==
    ASSUME NEW t \in TcbT, NEW room \in Nat, SendSide(t, room), NEW s \in Segment,
           s.ack_no <= t.seq_nr_next, NEW una \in clamp(s.ack_no, t.seq_nr_unack, t.seq_nr_next)
    PROVE  LET u == take_ack(t, s, una)
           IN  /\ SendSide(u, room) /\ u.seq_nr_unack \in {t.seq_nr_unack, s.ack_no}
               /\ u.seq_nr_next = t.seq_nr_next /\ u.snd_cap = t.snd_cap
               /\ u.rcv_next = t.rcv_next /\ u.rcv_pq = t.rcv_pq
<1> DEFINE u == take_ack(t, s, una)
           flight == t.seq_nr_next - t.seq_nr_unack
           len == Len(t.snd_pq)
           dist == Sub(s.ack_no, t.seq_nr_unack)
           k == Lesser(len, dist)
<1>1. /\ t.seq_nr_next \in SeqNr /\ t.seq_nr_unack \in SeqNr /\ s.ack_no \in SeqNr
      /\ t.seq_nr_next \in Nat /\ t.seq_nr_unack \in Nat /\ s.ack_no \in Nat
      /\ t.snd_pq \in Seq(Byte) /\ len \in Nat
  BY TcbNumbers, SegmentNumbers
<1>2. /\ t.seq_nr_unack <= t.seq_nr_next /\ t.seq_nr_next + Left(t) + room < SeqSpace
      /\ flight <= RcvWindow /\ len <= RcvWindow
  BY DEF SendSide
<1>3. /\ flight \in Nat /\ Left(t) \in Nat
      /\ Left(t) = (IF len < flight THEN 0 ELSE len - flight)
  BY <1>2, LeftExact
<1>4. una = IF s.ack_no < t.seq_nr_unack THEN t.seq_nr_unack ELSE s.ack_no
  BY <1>1, <1>2, ClampExact
<1>5. una \in SeqNr
  BY <1>1, <1>4
<1>6. /\ u.seq_nr_unack = una /\ u.seq_nr_next = t.seq_nr_next /\ u.snd_cap = t.snd_cap
      /\ u.rcv_next = t.rcv_next /\ u.rcv_pq = t.rcv_pq /\ u.snd_pq = Drop(t.snd_pq, k)
  BY DEF take_ack, TcbT
<1>7. u \in TcbT
  BY <1>5, TakeAckType
<1>8. dist \in SeqNr /\ dist \in Nat
  BY <1>1, SubType, TcbConstants DEF SeqNr
<1>9. s.ack_no >= t.seq_nr_unack => dist = s.ack_no - t.seq_nr_unack
  BY <1>1, SubExact
<1> HIDE DEF u, dist
<1>10. /\ k \in Nat /\ k <= len /\ k \in {len, dist}
  BY <1>1, <1>8, LesserType
<1>11. Len(u.snd_pq) = len - k
  BY <1>1, <1>6, <1>10, DropType
<1> HIDE DEF len, flight, k
<1>12. una \in Nat /\ t.seq_nr_unack <= una /\ una <= t.seq_nr_next
  BY <1>1, <1>2, <1>4
<1>13. /\ Left(u) \in Nat
       /\ Left(u) = (IF len - k < t.seq_nr_next - una THEN 0 ELSE (len - k) - (t.seq_nr_next - una))
  <2>1. u.seq_nr_unack <= u.seq_nr_next
    BY <1>6, <1>12
  <2>2. /\ Left(u) \in Nat
        /\ Left(u) = (IF Len(u.snd_pq) < u.seq_nr_next - u.seq_nr_unack THEN 0
                      ELSE Len(u.snd_pq) - (u.seq_nr_next - u.seq_nr_unack))
    BY <1>7, <2>1, LeftExact
  <2>3. u.seq_nr_next - u.seq_nr_unack = t.seq_nr_next - una
    BY <1>6
  <2>4. QED
    BY <1>1, <1>10, <1>11, <1>12, <2>2, <2>3 DEF len
<1>14. flight = t.seq_nr_next - t.seq_nr_unack /\ len \in Nat
  BY <1>1 DEF flight, len
<1>15. Left(u) <= Left(t)
  <2>1. CASE s.ack_no < t.seq_nr_unack
    <3>1. una = t.seq_nr_unack
      BY <1>4, <2>1
    <3>2. Left(u) = (IF len - k < flight THEN 0 ELSE (len - k) - flight)
      BY <1>13, <1>14, <3>1
    <3>3. CASE len - k < flight
      BY <1>3, <3>2, <3>3
    <3>4. CASE ~(len - k < flight)
      <4>1. ASSUME NEW x \in Nat, NEW y \in Nat, NEW z \in Nat, ~(x - y < z)
            PROVE  ~(x < z) /\ (x - y) - z <= x - z
        BY <4>1
      <4>2. len \in Nat /\ k \in Nat /\ flight \in Nat
        BY <1>3, <1>10, <1>14
      <4>3. ~(len < flight) /\ (len - k) - flight <= len - flight
        BY <3>4, <4>1, <4>2
      <4>4. QED
        BY <1>3, <3>2, <3>4, <4>3
    <3>5. QED
      BY <3>3, <3>4
  <2>2. CASE ~(s.ack_no < t.seq_nr_unack) /\ k = len
    BY <1>1, <1>3, <1>12, <1>13, <1>14, <2>2
  <2>3. CASE ~(s.ack_no < t.seq_nr_unack) /\ k = dist
    <3>1. una = s.ack_no /\ k = s.ack_no - t.seq_nr_unack
      BY <1>1, <1>4, <1>9, <2>3
    <3>2. ASSUME NEW x \in Nat, NEW v \in Nat, NEW a \in Nat, NEW b \in Nat
          PROVE  /\ (x - (a - v) < b - a) = (x < b - v)
                 /\ (x - (a - v)) - (b - a) = x - (b - v)
      OBVIOUS
    <3>3. /\ (len - k < t.seq_nr_next - una) = (len < flight)
          /\ (len - k) - (t.seq_nr_next - una) = len - flight
      <4>1. len \in Nat /\ t.seq_nr_unack \in Nat /\ s.ack_no \in Nat /\ t.seq_nr_next \in Nat
        BY <1>1, <1>14
      <4>2. /\ (len - (s.ack_no - t.seq_nr_unack) < t.seq_nr_next - s.ack_no)
                    = (len < t.seq_nr_next - t.seq_nr_unack)
            /\ (len - (s.ack_no - t.seq_nr_unack)) - (t.seq_nr_next - s.ack_no)
                    = len - (t.seq_nr_next - t.seq_nr_unack)
        BY <3>2, <4>1
      <4>3. QED
        BY <1>14, <3>1, <4>2
    <3>4. Left(u) = Left(t)
      BY <1>3, <1>13, <3>3
    <3>5. QED
      BY <1>3, <3>4
  <2>4. QED
    BY <1>10, <2>1, <2>2, <2>3
<1>16. SendSide(u, room)
  <2>1. u.seq_nr_unack <= u.seq_nr_next /\ u.seq_nr_next - u.seq_nr_unack <= RcvWindow
    BY <1>1, <1>2, <1>6, <1>12, <1>14, TcbConstants
  <2>2. u.seq_nr_next + Left(u) + room < SeqSpace
    BY <1>1, <1>2, <1>3, <1>6, <1>13, <1>15, TcbConstants
  <2>3. Len(u.snd_pq) <= RcvWindow
    BY <1>2, <1>10, <1>11, <1>14, TcbConstants
  <2>4. QED
    BY <2>1, <2>2, <2>3 DEF SendSide
<1>17. QED
  BY <1>4, <1>6, <1>16 DEF u

\* The text of a segment fits the receive queue, as it is text that the peer has
\* in flight, and what is received stays within what the peer sent.
LEMMA TextSide ==
    ASSUME NEW c \in Context, NEW s \in Segment, NEW p \in TcbT, Agrees(c.tcb, p),
           p.seq_nr_next - p.seq_nr_unack <= RcvWindow, s.seq_no + Len(s.data) <= p.seq_nr_next,
           c.abort # "rcv_overflow"
    PROVE  LET d == process_text(c, s)
           IN  /\ d.abort # "rcv_overflow" /\ Agrees(d.tcb, p)
               /\ c.tcb.rcv_next <= d.tcb.rcv_next
<1> DEFINE t == c.tcb
           n == Lesser(Len(s.data), Head(t.on_data_receive))
           d == process_text(c, s)
           r3 == [c EXCEPT !.tcb.rcv_pq = @ \o s.data]
           r4 == [c EXCEPT
                    !.tcb = [t EXCEPT !.on_data_receive = Tail(@), !.rcv_next = Add(@, n),
                                      !.rcv_pq = Drop(s.data, n)],
                    !.posts = Append(@, Post("read", Take(s.data, n)))]
<1>1. /\ t \in TcbT /\ t.rcv_next \in Nat /\ t.rcv_next \in SeqNr /\ Len(t.rcv_pq) \in Nat
      /\ t.rcv_pq \in Seq(Byte)
  BY TcbNumbers DEF Context
<1>2. s.seq_no \in Nat /\ s.data \in Seq(Byte) /\ Len(s.data) \in Nat
  BY SegmentNumbers
<1>3. p.seq_nr_next \in Nat /\ p.seq_nr_unack \in Nat /\ p.seq_nr_next < SeqSpace
  BY TcbNumbers
<1>4. p.seq_nr_unack <= t.rcv_next /\ t.rcv_next + Len(t.rcv_pq) <= p.seq_nr_next
  BY DEF Agrees
<1>5. CASE d = c
  BY <1>1, <1>5
<1>6. CASE d # c
  <2>1. /\ s.seq_no >= t.rcv_next + Len(t.rcv_pq)
        /\ \/ /\ t.on_data_receive = <<>>
              /\ Len(t.rcv_pq) + Len(s.data) > RcvWindow
           \/ d = r3
           \/ t.on_data_receive # <<>> /\ d = [c EXCEPT !.abort = "rcv_pq_not_empty"]
           \/ t.on_data_receive # <<>> /\ t.rcv_pq = <<>> /\ d = r4
    BY <1>6 DEF process_text
  <2>2. ~(Len(t.rcv_pq) + Len(s.data) > RcvWindow)
    <3> HIDE DEF t, d, r3, r4
    <3>1. s.seq_no >= t.rcv_next + Len(t.rcv_pq)
      BY <2>1
    <3>2. ASSUME NEW una \in Nat, NEW nxt \in Nat, NEW rcv \in Nat, NEW q \in Nat, NEW seq \in Nat,
                 NEW len \in Nat, NEW wnd \in Nat, nxt - una <= wnd, una <= rcv,
                 seq >= rcv + q, seq + len <= nxt
          PROVE  ~(q + len > wnd)
      BY <3>2
    <3>3. QED
      BY <1>1, <1>2, <1>3, <1>4, <3>1, <3>2, TcbConstants
  <2>3. t.rcv_next + Len(t.rcv_pq) + Len(s.data) <= p.seq_nr_next
    <3> HIDE DEF t, d, r3, r4
    <3>1. s.seq_no >= t.rcv_next + Len(t.rcv_pq)
      BY <2>1
    <3>2. QED
      BY <1>1, <1>2, <1>3, <1>4, <3>1
  <2>4. CASE d = r3
    <3>1. d.tcb.rcv_next = t.rcv_next /\ d.tcb.rcv_pq = t.rcv_pq \o s.data /\ d.abort = c.abort
      BY <1>1, <2>4 DEF Context, TcbT
    <3>2. Len(t.rcv_pq \o s.data) = Len(t.rcv_pq) + Len(s.data)
      BY <1>1, <1>2, ConcatProperties
    <3> HIDE DEF d, r3, r4, t, n
    <3>3. /\ p.seq_nr_unack <= d.tcb.rcv_next /\ t.rcv_next <= d.tcb.rcv_next
          /\ d.tcb.rcv_next + Len(d.tcb.rcv_pq) <= p.seq_nr_next
      <4>1. t.rcv_next \in Nat /\ Len(t.rcv_pq) \in Nat /\ Len(s.data) \in Nat
        BY <1>1, <1>2
      <4>2. t.rcv_next + (Len(t.rcv_pq) + Len(s.data)) <= p.seq_nr_next
        <5>1. \A x, y, z \in Nat : x + (y + z) = x + y + z
          OBVIOUS
        <5>2. t.rcv_next + (Len(t.rcv_pq) + Len(s.data)) = t.rcv_next + Len(t.rcv_pq) + Len(s.data)
          BY <4>1, <5>1
        <5>3. QED
          BY <2>3, <5>2
      <4>3. t.rcv_next <= t.rcv_next
        BY <4>1
      <4>4. Len(d.tcb.rcv_pq) = Len(t.rcv_pq) + Len(s.data)
        BY <3>1, <3>2
      <4>5. QED
        BY <1>4, <3>1, <4>2, <4>3, <4>4
    <3>4. QED
      BY <3>1, <3>3 DEF Agrees, d, t
  <2>5. CASE d = [c EXCEPT !.abort = "rcv_pq_not_empty"]
    <3>1. d.tcb = t /\ d.abort # "rcv_overflow"
      BY <2>5 DEF Context
    <3> HIDE DEF d
    <3>2. QED
      BY <1>1, <3>1 DEF d
  <2>6. CASE t.on_data_receive # <<>> /\ t.rcv_pq = <<>> /\ d = r4
    <3>1. n \in Nat /\ n <= Len(s.data)
      <4>1. Head(t.on_data_receive) \in Nat
        <5>1. t.on_data_receive \in Seq(Nat)
          BY <1>1 DEF TcbT
        <5>2. QED
          BY <2>6, <5>1, HeadTailProperties
      <4>2. QED
        BY <1>2, <4>1, LesserType
    <3> HIDE DEF n
    <3>2. d.tcb.rcv_next = Add(t.rcv_next, n) /\ d.tcb.rcv_pq = Drop(s.data, n) /\ d.abort = c.abort
      BY <1>1, <2>6 DEF Context, TcbT
    <3> HIDE DEF d, r3, r4
    <3>3. Len(Drop(s.data, n)) = Len(s.data) - n
      BY <1>2, <3>1, DropType
    <3>4. Len(t.rcv_pq) = 0
      BY <2>6
    <3>5. Add(t.rcv_next, n) = t.rcv_next + n
      <4>1. n \in SeqNr /\ t.rcv_next + n < SeqSpace
        <5>1. ASSUME NEW x \in Nat, NEW y \in Nat, NEW z \in Nat, NEW v \in Nat, NEW w \in Nat,
                     y <= z, x + 0 + z <= v, v < w
              PROVE  y \in 0 .. w - 1 /\ x + y < w
          BY <5>1
        <5>2. /\ t.rcv_next \in Nat /\ n \in Nat /\ Len(s.data) \in Nat /\ n <= Len(s.data)
              /\ p.seq_nr_next \in Nat /\ p.seq_nr_next < SeqSpace /\ SeqSpace \in Nat
          BY <1>1, <1>2, <1>3, <3>1, TcbConstants
        <5>3. t.rcv_next + 0 + Len(s.data) <= p.seq_nr_next
          BY <2>3, <3>4
        <5>4. QED
          BY <5>1, <5>2, <5>3 DEF SeqNr
      <4>2. QED
        BY <1>1, <4>1, AddExact
    <3>6. /\ p.seq_nr_unack <= d.tcb.rcv_next
          /\ d.tcb.rcv_next + Len(d.tcb.rcv_pq) <= p.seq_nr_next
          /\ t.rcv_next <= d.tcb.rcv_next
      <4>1. ASSUME NEW x \in Nat, NEW y \in Nat, NEW z \in Nat, NEW v \in Nat, NEW w \in Nat,
                   y <= z, x + 0 + z <= v, w <= x
            PROVE  w <= x + y /\ (x + y) + (z - y) <= v /\ x <= x + y
        BY <4>1
      <4>2. /\ t.rcv_next \in Nat /\ n \in Nat /\ Len(s.data) \in Nat /\ n <= Len(s.data)
            /\ p.seq_nr_next \in Nat /\ p.seq_nr_unack \in Nat
        BY <1>1, <1>2, <3>1, TcbNumbers
      <4>3. t.rcv_next + 0 + Len(s.data) <= p.seq_nr_next /\ p.seq_nr_unack <= t.rcv_next
        BY <1>4, <2>3, <3>4
      <4>4. /\ p.seq_nr_unack <= t.rcv_next + n /\ t.rcv_next <= t.rcv_next + n
            /\ (t.rcv_next + n) + (Len(s.data) - n) <= p.seq_nr_next
        BY <4>1, <4>2, <4>3
      <4>5. QED
        BY <3>2, <3>3, <3>5, <4>4
    <3>7. QED
      BY <3>2, <3>6 DEF Agrees, d
  <2>7. QED
    BY <2>1, <2>2, <2>4, <2>5, <2>6
<1>7. QED
  BY <1>5, <1>6

\* The ACK step of process() in a connection that both sides have met in.
LEMMA AckSide ==
    ASSUME NEW t \in TcbT, NEW room \in Nat, SendSide(t, room),
           t.state \in {"SynReceived", "Established"},
           t.state = "SynReceived" => t.snd_pq = <<>>,
           NEW s \in Segment, "ACK" \in s.flags, s.ack_no <= t.seq_nr_next,
           NEW una \in clamp(s.ack_no, t.seq_nr_unack, t.seq_nr_next)
    PROVE  LET d == process_ack(Call(t), s, una)
           IN  /\ SendSide(d.tcb, room) /\ d.tcb.seq_nr_unack \in {t.seq_nr_unack, s.ack_no}
               /\ d.tcb.seq_nr_next = t.seq_nr_next /\ d.tcb.snd_cap = t.snd_cap
               /\ d.tcb.rcv_next = t.rcv_next /\ d.tcb.rcv_pq = t.rcv_pq
               /\ d.out = <<>> /\ d.abort = "none"
<1> DEFINE d == process_ack(Call(t), s, una)
<1>1. Call(t).tcb = t /\ Call(t).out = <<>> /\ Call(t).abort = "none" /\ Call(t) \in Context
  BY CallType DEF Call
<1>2. /\ t.seq_nr_next \in Nat /\ t.seq_nr_unack \in Nat /\ s.ack_no \in Nat
      /\ t.seq_nr_next < SeqSpace
  BY TcbNumbers, SegmentNumbers
<1>3. t.seq_nr_unack <= t.seq_nr_next
  BY DEF SendSide
<1>4. CASE t.state = "Established"
  <2> DEFINE u == take_ack(t, s, una)
  <2>1. ~(s.ack_no > t.seq_nr_next)
    BY <1>2
  <2>2. d = [Call(t) EXCEPT !.tcb = [u EXCEPT !.next_state =
                IF t.state = "FinWait_1" THEN "FinWait_2"
                ELSE IF t.state = "Closing" THEN "TimeWait" ELSE @]]
    BY <1>1, <1>4, <2>1 DEF process_ack
  <2>3. u \in TcbT
    BY <1>2, ClampType, TcbNumbers, SegmentNumbers, TakeAckType
  <2>4. /\ SendSide(u, room) /\ u.seq_nr_unack \in {t.seq_nr_unack, s.ack_no}
        /\ u.seq_nr_next = t.seq_nr_next /\ u.snd_cap = t.snd_cap
        /\ u.rcv_next = t.rcv_next /\ u.rcv_pq = t.rcv_pq
    BY TakeAckSide
  <2> HIDE DEF u
  <2>5. /\ d.tcb.seq_nr_unack = u.seq_nr_unack /\ d.tcb.seq_nr_next = u.seq_nr_next
        /\ d.tcb.snd_pq = u.snd_pq /\ d.tcb.snd_cap = u.snd_cap
        /\ d.tcb.rcv_next = u.rcv_next /\ d.tcb.rcv_pq = u.rcv_pq
        /\ d.out = <<>> /\ d.abort = "none"
    <3> DEFINE v == [u EXCEPT !.next_state =
                        IF t.state = "FinWait_1" THEN "FinWait_2"
                        ELSE IF t.state = "Closing" THEN "TimeWait" ELSE @]
    <3>1. /\ v.seq_nr_unack = u.seq_nr_unack /\ v.seq_nr_next = u.seq_nr_next
          /\ v.snd_pq = u.snd_pq /\ v.snd_cap = u.snd_cap
          /\ v.rcv_next = u.rcv_next /\ v.rcv_pq = u.rcv_pq
      BY <2>3 DEF TcbT
    <3>2. d = [Call(t) EXCEPT !.tcb = v]
      BY <2>2
    <3> HIDE DEF v, d
    <3>3. d.tcb = v /\ d.out = <<>> /\ d.abort = "none"
      BY <1>1, <3>2 DEF Context
    <3>4. QED
      BY <3>1, <3>3
  <2> HIDE DEF d
  <2>6. SendSide(d.tcb, room)
    BY <2>4, <2>5, SendSideFrame
  <2>7. QED
    BY <2>4, <2>5, <2>6 DEF d
<1>5. CASE t.state = "SynReceived"
  <2> DEFINE u == [t EXCEPT !.seq_nr_unack = una, !.state = "Established",
                            !.next_state = "Established"]
  <2>1. \/ d = [Call(t) EXCEPT !.ret = TRUE]
        \/ t.seq_nr_unack <= s.ack_no /\ d = listen_finish([Call(t) EXCEPT !.tcb = u])
    BY <1>1, <1>5 DEF process_ack
  <2>2. CASE d = [Call(t) EXCEPT !.ret = TRUE]
    BY <1>1, <2>2 DEF Context
  <2>3. CASE t.seq_nr_unack <= s.ack_no /\ d = listen_finish([Call(t) EXCEPT !.tcb = u])
    <3>1. una = s.ack_no /\ t.seq_nr_unack <= una /\ una <= t.seq_nr_next
      BY <1>2, <1>3, <2>3, ClampExact
    <3>2. /\ u.seq_nr_unack = una /\ u.seq_nr_next = t.seq_nr_next /\ u.snd_cap = t.snd_cap
          /\ u.snd_pq = <<>> /\ u.rcv_next = t.rcv_next /\ u.rcv_pq = t.rcv_pq
      BY <1>5 DEF TcbT
    <3>3. u \in TcbT
      <4>1. una \in SeqNr /\ "Established" \in TcpState
        BY <3>1, SegmentNumbers DEF TcpState
      <4>2. QED
        BY <4>1 DEF TcbT
    <3> HIDE DEF u
    <3>4. d.tcb = u /\ d.out = <<>> /\ d.abort = "none"
      BY <1>1, <2>3 DEF listen_finish, Context
    <3>5. /\ t.seq_nr_next + Left(t) + room < SeqSpace
          /\ t.seq_nr_next - t.seq_nr_unack <= RcvWindow
      BY DEF SendSide
    <3>6. Len(<<>>) = 0
      OBVIOUS
    <3>7. Left(u) = 0 /\ Left(t) \in Nat
      <4>1. u.seq_nr_unack <= u.seq_nr_next
        BY <3>1, <3>2
      <4>2. Len(u.snd_pq) = 0
        BY <3>2, <3>6
      <4>3. app_data_unacknowleged(u) \in 0 .. Len(u.snd_pq)
        BY <3>3, SendSizes
      <4>4. Left(u) = 0
        BY <4>2, <4>3 DEF Left
      <4>5. QED
        BY <1>3, <4>4, LeftExact
    <3>8. SendSide(u, room)
      <4>1. u.seq_nr_next + Left(u) + room < SeqSpace
        BY <1>2, <3>2, <3>5, <3>7, TcbConstants
      <4>2. u.seq_nr_next - u.seq_nr_unack <= RcvWindow
        BY <1>2, <3>1, <3>2, <3>5, TcbConstants
      <4>3. Len(u.snd_pq) <= RcvWindow
        BY <3>2, <3>6, TcbConstants
      <4>4. QED
        BY <3>1, <3>2, <4>1, <4>2, <4>3 DEF SendSide
    <3> HIDE DEF d
    <3>9. QED
      BY <3>1, <3>2, <3>4, <3>8 DEF d
  <2>4. QED
    BY <2>1, <2>2, <2>3
<1>6. QED
  BY <1>4, <1>5

\* Context d is what process() may make of TCB t, whose peer is p.
Processed(t, d, p, room) ==
    /\ SendSide(d.tcb, room) /\ d.tcb.snd_cap = t.snd_cap
    /\ d.tcb.seq_nr_next = t.seq_nr_next
    /\ d.tcb.seq_nr_unack <= p.rcv_next
    /\ Agrees(d.tcb, p) /\ t.rcv_next <= d.tcb.rcv_next
    /\ d.abort # "rcv_overflow" /\ d.out = <<>>

\* A segment of the peer, in a connection that both sides have met in.
LEMMA ProcessSide ==
    ASSUME NEW t \in TcbT, NEW room \in Nat, SendSide(t, room),
           t.state \in {"SynReceived", "Established"},
           t.state = "SynReceived" => t.snd_pq = <<>>,
           NEW p \in TcbT, Agrees(t, p), p.seq_nr_next - p.seq_nr_unack <= RcvWindow,
           t.seq_nr_unack <= p.rcv_next, p.rcv_next <= t.seq_nr_next,
           NEW s \in Segment, SentBy(p, s), "FIN" \notin s.flags,
           NEW isn \in SeqNr, NEW una \in clamp(s.ack_no, t.seq_nr_unack, t.seq_nr_next)
    PROVE  Processed(t, process(Call(t), s, isn, una), p, room)
<1>1. Call(t).tcb = t /\ Call(t).out = <<>> /\ Call(t).abort = "none" /\ Call(t) \in Context
  BY CallType DEF Call
<1>2. t.rcv_next \in Nat /\ t.seq_nr_next \in Nat /\ p.rcv_next \in Nat /\ s.ack_no \in Nat
  BY TcbNumbers, SegmentNumbers
<1>3. Processed(t, Call(t), p, room)
  BY <1>1, <1>2 DEF Processed
<1> DEFINE a == process_ack(Call(t), s, una)
           d == process_text(a, s)
<1>4. \A x : process_fin(x, s) = x
  BY DEF process_fin
<1>5. una \in SeqNr
  BY ClampType, TcbNumbers, SegmentNumbers
<1>6. a \in Context
  BY <1>1, <1>5, ProcessAckType
<1>7. /\ SendSide(a.tcb, room) /\ a.tcb.seq_nr_unack <= p.rcv_next
      /\ a.tcb.seq_nr_next = t.seq_nr_next /\ a.tcb.snd_cap = t.snd_cap
      /\ a.tcb.rcv_next = t.rcv_next /\ a.tcb.rcv_pq = t.rcv_pq
      /\ a.out = <<>> /\ a.abort = "none"
  <2>1. CASE "ACK" \notin s.flags
    <3>1. a = Call(t)
      BY <2>1 DEF process_ack
    <3>2. QED
      BY <1>1, <3>1
  <2>2. CASE "ACK" \in s.flags
    <3>1. s.ack_no <= p.rcv_next
      BY <2>2 DEF SentBy
    <3>2. s.ack_no <= t.seq_nr_next
      BY <1>2, <3>1
    <3>3. /\ SendSide(a.tcb, room) /\ a.tcb.seq_nr_unack \in {t.seq_nr_unack, s.ack_no}
          /\ a.tcb.seq_nr_next = t.seq_nr_next /\ a.tcb.snd_cap = t.snd_cap
          /\ a.tcb.rcv_next = t.rcv_next /\ a.tcb.rcv_pq = t.rcv_pq
          /\ a.out = <<>> /\ a.abort = "none"
      BY <2>2, <3>2, AckSide
    <3> HIDE DEF a
    <3>4. QED
      BY <3>1, <3>3
  <2>3. QED
    BY <2>1, <2>2
<1> HIDE DEF a
<1>8. Agrees(a.tcb, p)
  BY <1>7 DEF Agrees
<1>9. s.seq_no + Len(s.data) <= p.seq_nr_next
  BY DEF SentBy
<1>10. d.abort # "rcv_overflow" /\ Agrees(d.tcb, p) /\ a.tcb.rcv_next <= d.tcb.rcv_next
  BY <1>6, <1>7, <1>8, <1>9, TextSide
<1>11. /\ d.tcb.seq_nr_next = a.tcb.seq_nr_next /\ d.tcb.seq_nr_unack = a.tcb.seq_nr_unack
       /\ d.tcb.snd_cap = a.tcb.snd_cap /\ d.tcb.snd_pq = a.tcb.snd_pq /\ d.out = a.out
  BY <1>6, ProcessTextFrame
<1> HIDE DEF d
<1>12. SendSide(d.tcb, room)
  BY <1>7, <1>11, SendSideFrame
<1>13. Processed(t, d, p, room)
  BY <1>7, <1>10, <1>11, <1>12 DEF Processed
<1>14. process(Call(t), s, isn, una) \in {Call(t), d}
  BY <1>1, <1>4 DEF process, d, a
<1>15. QED
  BY <1>3, <1>13, <1>14

\* A send queue that is empty.
LEMMA EmptySendSide ==
    ASSUME NEW t \in TcbT, NEW room \in Nat, t.snd_pq = <<>>, t.seq_nr_unack <= t.seq_nr_next,
           t.seq_nr_next - t.seq_nr_unack <= RcvWindow, t.seq_nr_next + room < SeqSpace
    PROVE  SendSide(t, room)
<1>1. Len(t.snd_pq) = 0 /\ t.seq_nr_next \in Nat
  BY TcbNumbers
<1>2. app_data_unacknowleged(t) \in 0 .. Len(t.snd_pq)
  BY SendSizes
<1>3. Left(t) = 0
  BY <1>1, <1>2 DEF Left
<1>4. t.seq_nr_next + Left(t) + room < SeqSpace
  BY <1>1, <1>3, TcbConstants
<1>5. QED
  BY <1>1, <1>4, TcbConstants DEF SendSide

\* The SYN of the client takes the first sequence number.
LEMMA ConnectSide ==
    ASSUME NEW m \in Nat, NEW isn \in SeqNr, NEW room \in Nat, isn + 1 + room < SeqSpace
    PROVE  LET c == start_connecting(Call(new_tcb("Connecting", m)), isn, MyMss)
           IN  /\ SendSide(c.tcb, room) /\ c.tcb.snd_pq = <<>> /\ c.tcb.rcv_pq = <<>>
               /\ c.abort = "none" /\ \A s \in Range(c.out) : SentBy(c.tcb, s)
<1> DEFINE c == start_connecting(Call(new_tcb("Connecting", m)), isn, MyMss)
           p == [flags |-> {"SYN"}, seq_no |-> isn, ack_no |-> 0,
                 window |-> RcvWindow, mss |-> MyMss, data |-> <<>>]
<1>1. c \in Context
  BY ConnectionConstants, NewTcbType, CallType, StartConnectingType DEF TcpState
<1>2. c.tcb \in TcbT
  BY <1>1 DEF Context
<1>3. /\ c.tcb.seq_nr_unack = isn /\ c.tcb.seq_nr_next = Add(isn, 1) /\ c.tcb.snd_pq = <<>>
      /\ c.tcb.rcv_pq = <<>> /\ c.abort = "none" /\ c.out = Append(<<>>, p)
  BY DEF start_connecting, Call, new_tcb
<1>4. p.flags = {"SYN"} /\ p.seq_no = isn /\ p.window = RcvWindow /\ p.data = <<>>
  OBVIOUS
<1> HIDE DEF c, p
<1>5. isn \in Nat /\ isn + 1 < SeqSpace /\ 1 \in SeqNr
  BY TcbConstants DEF SeqNr
<1>6. c.tcb.seq_nr_next = isn + 1
  BY <1>3, <1>5, AddExact
<1>7. SendSide(c.tcb, room)
  BY <1>2, <1>3, <1>5, <1>6, TcbConstants, EmptySendSide
<1>8. Len(<<>>) = 0 /\ Range(<<>>) = {}
  BY DEF Range
<1>9. SentBy(c.tcb, p)
  BY <1>3, <1>4, <1>5, <1>6, <1>8 DEF SentBy
<1>10. Range(c.out) \subseteq Range(<<>>) \cup {p}
  BY <1>3, EmptySeq, AppendRange
<1>11. QED
  BY <1>3, <1>7, <1>8, <1>9, <1>10 DEF c

\* Context c is what the SYN exchange makes of a TCB whose peer is p.
Introduced(c, p, room) ==
    /\ SendSide(c.tcb, room) /\ c.tcb.snd_cap = RcvWindow /\ c.tcb.snd_pq = <<>>
    /\ Agrees(c.tcb, p) /\ c.abort = "none"
    /\ \A s \in Range(c.out) : SentBy(c.tcb, s)

\* The server answers the SYN with its own.
LEMMA ListenSide ==
    ASSUME NEW t \in TcbT, t.state = "Listen", t.rcv_pq = <<>>,
           NEW room \in Nat, NEW isn \in SeqNr, isn + 1 + room < SeqSpace,
           NEW p \in TcbT, p.state = "SynSent", NEW s \in Segment, SentBy(p, s), NEW una
    PROVE  LET c == process(Call(t), s, isn, una)
           IN  \/ c.tcb = t /\ c.out = <<>> /\ c.abort = "none"
               \/ Introduced(c, p, room)
<1> DEFINE d == [Call(t) EXCEPT !.tcb = [@ EXCEPT
                !.mss = accept_mss(t, s), !.rcv_next = Add(s.seq_no, 1),
                !.snd_cap = s.window, !.snd_pq = <<>>,
                !.seq_nr_next = Add(isn, 1), !.seq_nr_unack = isn,
                !.next_state = "SynReceived"]]
           c == process(Call(t), s, isn, una)
<1>1. /\ Call(t).tcb = t /\ Call(t).out = <<>> /\ Call(t).abort = "none"
      /\ Call(t) \in Context
  BY CallType DEF Call
<1>2. c = tcp_handle_listen_state(Call(t), s, isn)
  BY <1>1 DEF process
<1>3. CASE s.flags \cap {"RST", "ACK", "SYN"} # {"SYN"}
  BY <1>1, <1>2, <1>3 DEF tcp_handle_listen_state
<1>4. CASE s.flags \cap {"RST", "ACK", "SYN"} = {"SYN"}
  <2>1. c = make_and_send_pkt(d)
    BY <1>1, <1>2, <1>4 DEF tcp_handle_listen_state
  <2>2. d \in Context
    <3>1. Add(s.seq_no, 1) \in SeqNr /\ Add(isn, 1) \in SeqNr /\ s.window \in SeqNr
      BY AddType DEF Segment
    <3>2. accept_mss(t, s) \in Nat /\ <<>> \in Seq(Byte) /\ "SynReceived" \in TcpState
      BY AcceptMssType, EmptySeq DEF TcpState
    <3>3. QED
      BY <1>1, <3>1, <3>2 DEF Context, TcbT
  <2>3. /\ d.out = <<>> /\ d.abort = "none"
        /\ d.tcb.rcv_next = Add(s.seq_no, 1) /\ d.tcb.snd_cap = s.window /\ d.tcb.snd_pq = <<>>
        /\ d.tcb.seq_nr_next = Add(isn, 1) /\ d.tcb.seq_nr_unack = isn
        /\ d.tcb.next_state = "SynReceived" /\ d.tcb.rcv_pq = <<>>
    BY <1>1 DEF Context, TcbT
  <2> HIDE DEF d, c
  <2>4. /\ "SYN" \in s.flags /\ s.window = RcvWindow
        /\ s.seq_no + 1 <= p.seq_nr_next /\ p.seq_nr_unack <= s.seq_no + 1
    BY <1>4 DEF SentBy
  <2>5. /\ isn \in Nat /\ isn + 1 < SeqSpace /\ 1 \in SeqNr
        /\ p.seq_nr_next \in Nat /\ p.seq_nr_next < SeqSpace /\ s.seq_no \in SeqNr /\ s.seq_no \in Nat
    BY TcbConstants, TcbNumbers, SegmentNumbers DEF SeqNr
  <2>6. d.tcb.seq_nr_next = isn + 1 /\ d.tcb.rcv_next = s.seq_no + 1
    <3>1. s.seq_no + 1 < SeqSpace
      BY <2>4, <2>5, TcbConstants
    <3>2. Add(s.seq_no, 1) = s.seq_no + 1
      BY <2>5, <3>1, AddExact
    <3>3. Add(isn, 1) = isn + 1
      BY <2>5, AddExact
    <3>4. QED
      BY <2>3, <3>2, <3>3
  <2>7. d.tcb \in TcbT
    BY <2>2 DEF Context
  <2>8. SendSide(d.tcb, room)
    BY <2>3, <2>5, <2>6, <2>7, TcbConstants, EmptySendSide
  <2>9. /\ SameButNext(d.tcb, c.tcb) /\ SendSide(c.tcb, room)
        /\ \A x \in Range(c.out) : SentBy(c.tcb, x)
    <3>1. d.tcb.snd_pq = <<>> /\ d.tcb.seq_nr_unack + 1 <= d.tcb.seq_nr_next
      BY <2>3, <2>5, <2>6
    <3>2. QED
      BY <2>1, <2>2, <2>3, <2>8, <3>1, MakeAndSendSide
  <2>10. c.abort = "none"
    BY <2>1, <2>2, <2>3, MakeAndSendFrame
  <2>11. Agrees(c.tcb, p)
    <3>1. c.tcb.rcv_next = s.seq_no + 1 /\ Len(c.tcb.rcv_pq) = 0
      BY <2>3, <2>6, <2>9 DEF SameButNext
    <3>2. QED
      BY <2>4, <2>5, <3>1 DEF Agrees
  <2>12. QED
    BY <2>3, <2>4, <2>9, <2>10, <2>11 DEF Introduced, SameButNext, c
<1>5. QED
  BY <1>3, <1>4

\* The client takes the SYN of the server.
LEMMA SynSentSide ==
    ASSUME NEW t \in TcbT, t.state = "SynSent", t.rcv_pq = <<>>, NEW room \in Nat, SendSide(t, room),
           NEW p \in TcbT, p.state = "SynReceived", p.rcv_next <= t.seq_nr_next,
           NEW s \in Segment, SentBy(p, s), NEW isn, NEW una
    PROVE  LET c == process(Call(t), s, isn, una)
           IN  \/ c.tcb = t /\ c.out = <<>> /\ c.abort = "none"
               \/ /\ Introduced(c, p, room) /\ c.tcb.seq_nr_unack <= p.rcv_next
                  /\ t.seq_nr_next <= c.tcb.seq_nr_next
<1> DEFINE d == [Call(t) EXCEPT !.tcb = [@ EXCEPT
                !.mss = accept_mss(t, s), !.rcv_next = Add(s.seq_no, 1),
                !.snd_cap = s.window, !.snd_pq = <<>>,
                !.seq_nr_unack = s.ack_no,
                !.state = "Established", !.next_state = "Established"]]
           e == make_and_send_pkt(d)
           c == process(Call(t), s, isn, una)
<1>1. /\ Call(t).tcb = t /\ Call(t).out = <<>> /\ Call(t).abort = "none"
      /\ Call(t) \in Context
  BY CallType DEF Call
<1>2. c = tcp_handle_syn_sent(Call(t), s)
  BY <1>1 DEF process
<1>3. CASE ~syn_ack_acceptable(t, s)
  BY <1>1, <1>2, <1>3 DEF tcp_handle_syn_sent
<1>4. CASE syn_ack_acceptable(t, s)
  <2>1. c = listen_finish(e)
    BY <1>1, <1>2, <1>4 DEF tcp_handle_syn_sent
  <2>2. d \in Context
    <3>1. Add(s.seq_no, 1) \in SeqNr /\ s.ack_no \in SeqNr /\ s.window \in SeqNr
      BY AddType DEF Segment
    <3>2. accept_mss(t, s) \in Nat /\ <<>> \in Seq(Byte) /\ "Established" \in TcpState
      BY AcceptMssType, EmptySeq DEF TcpState
    <3>3. QED
      BY <1>1, <3>1, <3>2 DEF Context, TcbT
  <2>3. /\ d.out = <<>> /\ d.abort = "none"
        /\ d.tcb.rcv_next = Add(s.seq_no, 1) /\ d.tcb.snd_cap = s.window /\ d.tcb.snd_pq = <<>>
        /\ d.tcb.seq_nr_next = t.seq_nr_next /\ d.tcb.seq_nr_unack = s.ack_no
        /\ d.tcb.next_state = "Established" /\ d.tcb.rcv_pq = <<>>
    BY <1>1 DEF Context, TcbT
  <2>4. e \in Context
    BY <2>2, MakeAndSendType
  <2> HIDE DEF d, e, c
  <2>5. /\ "SYN" \in s.flags /\ "ACK" \in s.flags
        /\ t.seq_nr_unack <= s.ack_no /\ s.ack_no <= t.seq_nr_next
    BY <1>4 DEF syn_ack_acceptable
  <2>6. /\ s.window = RcvWindow /\ s.seq_no + 1 <= p.seq_nr_next
        /\ p.seq_nr_unack <= s.seq_no + 1 /\ s.ack_no <= p.rcv_next
    BY <2>5 DEF SentBy
  <2>7. /\ t.seq_nr_next \in Nat /\ t.seq_nr_unack \in Nat /\ s.ack_no \in Nat
        /\ 1 \in SeqNr /\ p.seq_nr_next \in Nat /\ p.seq_nr_next < SeqSpace
        /\ s.seq_no \in SeqNr /\ s.seq_no \in Nat
    BY TcbConstants, TcbNumbers, SegmentNumbers DEF SeqNr
  <2>8. d.tcb.rcv_next = s.seq_no + 1
    <3>1. s.seq_no + 1 < SeqSpace
      BY <2>6, <2>7, TcbConstants
    <3>2. Add(s.seq_no, 1) = s.seq_no + 1
      BY <2>7, <3>1, AddExact
    <3>3. QED
      BY <2>3, <3>2
  <2>9. d.tcb \in TcbT
    BY <2>2 DEF Context
  <2>10. SendSide(d.tcb, room)
    <3>1. /\ t.seq_nr_unack <= t.seq_nr_next /\ t.seq_nr_next + Left(t) + room < SeqSpace
          /\ t.seq_nr_next - t.seq_nr_unack <= RcvWindow
      BY DEF SendSide
    <3>2. Left(t) \in Nat
      BY <3>1, LeftExact
    <3>3. t.seq_nr_next - s.ack_no <= RcvWindow /\ t.seq_nr_next + room < SeqSpace
      <4>1. ASSUME NEW x \in Nat, NEW y \in Nat, NEW z \in Nat, NEW v \in Nat, NEW w \in Nat,
                   x + y + room < v, z <= w
            PROVE  x + room < v /\ x - w <= x - z
        BY <4>1
      <4>2. t.seq_nr_next + room < SeqSpace /\ t.seq_nr_next - s.ack_no <= t.seq_nr_next - t.seq_nr_unack
        BY <2>5, <2>7, <3>1, <3>2, <4>1, TcbConstants
      <4>3. QED
        BY <2>7, <3>1, <4>2, TcbConstants
    <3>4. QED
      BY <2>3, <2>5, <2>9, <3>3, EmptySendSide
  <2>11. /\ SameButNext(d.tcb, e.tcb) /\ SendSide(e.tcb, room)
         /\ d.tcb.seq_nr_next <= e.tcb.seq_nr_next
         /\ \A x \in Range(e.out) : SentBy(e.tcb, x)
    BY <2>2, <2>3, <2>10, MakeAndSendSide DEF e
  <2>12. e.abort = "none"
    BY <2>2, <2>3, MakeAndSendFrame DEF e
  <2>13. c.tcb = e.tcb /\ c.out = e.out /\ c.abort = e.abort
    BY <2>1, <2>4 DEF listen_finish, Context
  <2>14. Agrees(c.tcb, p)
    <3>1. c.tcb.rcv_next = s.seq_no + 1 /\ Len(c.tcb.rcv_pq) = 0
      BY <2>3, <2>8, <2>11, <2>13 DEF SameButNext
    <3>2. QED
      BY <2>6, <2>7, <3>1 DEF Agrees
  <2>15. c.tcb.seq_nr_unack <= p.rcv_next /\ t.seq_nr_next <= c.tcb.seq_nr_next
    BY <2>3, <2>6, <2>11, <2>13 DEF SameButNext
  <2>16. QED
    BY <2>3, <2>6, <2>11, <2>12, <2>13, <2>14, <2>15 DEF Introduced, SameButNext, c
<1>5. QED
  BY <1>3, <1>4

-----------------------------------------------------------------------------
(* The numbers of the two sides *)

\* TCB t, whose peer is p and whose application may write room bytes more.
Fits(t, p, room) ==
    /\ room \in Nat
    /\ t.state \notin {"Closed", "Listen"} => SendSide(t, room)
    /\ t.state \in {"SynReceived", "Established"} => t.snd_cap = RcvWindow /\ Agrees(t, p)
    /\ t.state \notin {"SynReceived", "Established"} => t.rcv_pq = <<>>
    /\ t.state # "Established" => t.snd_pq = <<>>

Room(n) == Budget(n) - written[n]

\* Each side fits the other, and so do the segments on their way.
Numeric ==
    \A n \in Node :
        /\ Fits(tcb[n], tcb[Peer(n)], Room(n))
        /\ abort[n] # "rcv_overflow"
        /\ \A s \in Coming(n) : SentBy(tcb[Peer(n)], s)

\* What a step of host n, which leaves context c behind, has to keep.
Keeps(n, c) ==
    /\ written'[Peer(n)] = written[Peer(n)]
    /\ Fits(c.tcb, tcb[Peer(n)], Room(n)')
    /\ c.abort # "rcv_overflow"
    /\ Met(Peer(n)) => Agrees(tcb[Peer(n)], c.tcb)
    /\ \A s \in Coming(Peer(n)) \cup Range(c.out) : SentBy(c.tcb, s)

\* It is then all that there is to keep.
LEMMA KeepsNumeric ==
    ASSUME TypeOK, Numeric, NEW n \in Node, NEW c \in Context, HostStep(n, c), Keeps(n, c)
    PROVE  Numeric'
<1> DEFINE m == Peer(n)
<1>1. m \in Node /\ m # n /\ Peer(m) = n /\ \A k \in Node : k = n \/ k = m
  BY DEF Peer, Node
<1>2. /\ tcb'[n] = c.tcb /\ tcb'[m] = tcb[m] /\ abort'[n] = c.abort /\ abort'[m] = abort[m]
      /\ Coming(n)' \subseteq Coming(n)
      /\ Coming(m)' \subseteq Coming(m) \cup Range(c.out)
  BY <1>1 DEF HostStep, TypeOK
<1>3. Room(m)' = Room(m)
  BY DEF Room, Budget, Keeps
<1>4. /\ Fits(c.tcb, tcb[m], Room(n)') /\ c.abort # "rcv_overflow"
      /\ Met(m) => Agrees(tcb[m], c.tcb)
      /\ \A s \in Coming(m) \cup Range(c.out) : SentBy(c.tcb, s)
  BY DEF Keeps
<1>5. /\ Fits(tcb[m], tcb[n], Room(m)) /\ abort[m] # "rcv_overflow"
      /\ \A s \in Coming(n) : SentBy(tcb[m], s)
  BY <1>1 DEF Numeric
<1>6. Fits(tcb[m], c.tcb, Room(m))
  BY <1>4, <1>5 DEF Fits, Met
<1> HIDE DEF m
<1>7. ASSUME NEW k \in Node
      PROVE  /\ Fits(tcb'[k], tcb'[Peer(k)], Room(k)') /\ abort'[k] # "rcv_overflow"
             /\ \A s \in Coming(k)' : SentBy(tcb'[Peer(k)], s)
  <2>1. CASE k = n
    <3>1. Peer(k) = m
      BY <2>1 DEF m
    <3>2. QED
      BY <1>2, <1>4, <1>5, <2>1, <3>1
  <2>2. CASE k = m
    <3>1. Peer(k) = n
      BY <1>1, <2>2
    <3>2. QED
      BY <1>2, <1>3, <1>4, <1>5, <1>6, <2>2, <3>1
  <2>3. QED
    BY <1>1, <2>1, <2>2
<1>8. QED
  BY <1>7 DEF Numeric, Peer

\* The network adds nothing.
LEMMA NetNumeric ==
    ASSUME Numeric, NetStep
    PROVE  Numeric'
<1>1. /\ tcb' = tcb /\ abort' = abort /\ written' = written
      /\ \A n \in Node : Coming(n)' \subseteq Coming(n)
  BY DEF NetStep
<1>2. \A n \in Node : Room(n)' = Room(n)
  BY <1>1 DEF Room, Budget
<1>3. ASSUME NEW n \in Node
      PROVE  /\ Fits(tcb'[n], tcb'[Peer(n)], Room(n)') /\ abort'[n] # "rcv_overflow"
             /\ \A s \in Coming(n)' : SentBy(tcb'[Peer(n)], s)
  BY <1>1, <1>2 DEF Numeric
<1>4. QED
  BY <1>3 DEF Numeric, Peer

\* A segment stays one that its sender may have sent while the sender gets on.
LEMMA SentByGrows ==
    ASSUME NEW t \in TcbT, NEW u \in TcbT, NEW s \in Segment, SentBy(t, s),
           t.seq_nr_next <= u.seq_nr_next,
           "ACK" \in s.flags => t.rcv_next <= u.rcv_next,
           u.state \notin {"SynSent", "SynReceived"}
    PROVE  SentBy(u, s)
<1>1. /\ t.seq_nr_next \in Nat /\ u.seq_nr_next \in Nat /\ t.rcv_next \in Nat /\ u.rcv_next \in Nat
      /\ s.seq_no \in Nat /\ Len(s.data) \in Nat /\ s.ack_no \in Nat
  BY TcbNumbers, SegmentNumbers
<1>2. /\ s.window = RcvWindow /\ s.seq_no + Len(s.data) <= t.seq_nr_next
      /\ ("SYN" \in s.flags => s.seq_no + 1 <= t.seq_nr_next)
      /\ ("ACK" \in s.flags => s.ack_no <= t.rcv_next)
  BY DEF SentBy
<1>3. s.seq_no + Len(s.data) <= u.seq_nr_next
  BY <1>1, <1>2
<1>4. "SYN" \in s.flags => s.seq_no + 1 <= u.seq_nr_next
  BY <1>1, <1>2
<1>5. "ACK" \in s.flags => s.ack_no <= u.rcv_next
  BY <1>1, <1>2
<1>6. QED
  BY <1>2, <1>3, <1>4, <1>5 DEF SentBy

\* A step of host n that leaves its TCB alone.
LEMMA StayKeeps ==
    ASSUME TypeOK, Numeric, NEW n \in Node, NEW c,
           c.tcb = tcb[n], c.out = <<>>, c.abort = "none", written' = written
    PROVE  Keeps(n, c)
<1>1. Peer(n) \in Node /\ Peer(Peer(n)) = n
  BY DEF Peer, Node
<1>2. Room(n)' = Room(n)
  BY DEF Room, Budget
<1>3. Range(<<>>) = {}
  BY DEF Range
<1>4. /\ Fits(tcb[n], tcb[Peer(n)], Room(n))
      /\ Fits(tcb[Peer(n)], tcb[n], Room(Peer(n)))
      /\ \A s \in Coming(Peer(n)) : SentBy(tcb[n], s)
  BY <1>1 DEF Numeric
<1>5. Met(Peer(n)) => Agrees(tcb[Peer(n)], tcb[n])
  BY <1>4 DEF Fits, Met
<1>6. QED
  BY <1>2, <1>3, <1>4, <1>5 DEF Keeps

\* Only a host that has met the other one acknowledges anything.
LEMMA AcksOnlyWhenMet ==
    ASSUME Handshake, NEW n \in Node, NEW s \in Coming(Peer(n)), "ACK" \in s.flags
    PROVE  Met(n)
<1>1. CASE n = "client"
  <2>1. s \in Coming("server")
    BY <1>1 DEF Peer
  <2>2. s.flags = {"SYN"} \/ Synchronised("client")
    BY <2>1 DEF Handshake, FlagsOK
  <2>3. QED
    BY <1>1, <2>2 DEF Met, Synchronised
<1>2. CASE n = "server"
  <2>1. s \in Coming("client")
    BY <1>2 DEF Peer
  <2>2. QED
    BY <1>2, <2>1 DEF Handshake, FlagsOK
<1>3. QED
  BY <1>1, <1>2 DEF Node

\* A step of host n after which its connection is established, and which takes
\* neither SND.NXT nor RCV.NXT back.
LEMMA OnwardKeeps ==
    ASSUME TypeOK, Handshake, Numeric, NEW n \in Node, NEW c \in Context,
           c.tcb.state = "Established", c.tcb.snd_cap = RcvWindow,
           Room(n)' \in Nat, SendSide(c.tcb, Room(n)'), Agrees(c.tcb, tcb[Peer(n)]),
           tcb[n].seq_nr_next <= c.tcb.seq_nr_next,
           Met(n) => tcb[n].rcv_next <= c.tcb.rcv_next,
           Met(Peer(n)) => c.tcb.seq_nr_unack <= tcb[Peer(n)].rcv_next,
           c.abort # "rcv_overflow", written'[Peer(n)] = written[Peer(n)],
           \A s \in Range(c.out) : SentBy(c.tcb, s)
    PROVE  Keeps(n, c)
<1> DEFINE m == Peer(n)
           t == tcb[n]
           p == tcb[m]
<1>1. m \in Node /\ Peer(m) = n
  BY DEF Peer, Node
<1>2. t \in TcbT /\ p \in TcbT /\ c.tcb \in TcbT
  BY <1>1 DEF TypeOK, Context
<1>3. Fits(c.tcb, p, Room(n)')
  BY DEF Fits
<1>4. Met(m) => Agrees(p, c.tcb)
  <2>1. Met(m) => Agrees(p, t)
    <3>1. Fits(p, t, Room(m))
      BY <1>1 DEF Numeric
    <3>2. QED
      BY <3>1 DEF Fits, Met
  <2>2. Met(m) => p.rcv_next + Len(p.rcv_pq) <= t.seq_nr_next
    BY <2>1 DEF Agrees
  <2>3. /\ p.rcv_next \in Nat /\ Len(p.rcv_pq) \in Nat
        /\ t.seq_nr_next \in Nat /\ c.tcb.seq_nr_next \in Nat
    BY <1>2, TcbNumbers
  <2> HIDE DEF t, p, m
  <2>4. Met(m) => p.rcv_next + Len(p.rcv_pq) <= c.tcb.seq_nr_next
    BY <2>2, <2>3 DEF t
  <2>5. QED
    BY <2>4 DEF Agrees, p, m
<1>5. ASSUME NEW s \in Coming(m)
      PROVE  SentBy(c.tcb, s)
  <2>1. s \in Segment /\ SentBy(t, s)
    BY <1>1, ComingType DEF Numeric
  <2>2. "ACK" \in s.flags => t.rcv_next <= c.tcb.rcv_next
    BY AcksOnlyWhenMet
  <2>3. QED
    BY <1>2, <2>1, <2>2, SentByGrows
<1>6. QED
  BY <1>3, <1>4, <1>5 DEF Keeps

\* The states of two hosts, seen from an established one.
LEMMA BothMet ==
    ASSUME Handshake, NEW n \in Node, Synchronised(n)
    PROVE  Met(n) /\ Met(Peer(n)) /\ tcb[n].next_state = "Established"
<1>1. <<tcb[n].state, tcb[n].next_state>> \in HostPairs(n)
  BY DEF Handshake, PairsOK
<1>2. QED
  BY <1>1 DEF Handshake, OrderOK, Synchronised, Met, Peer, Node, HostPairs

\* An application writes no more than it may.
LEMMA NextBufsRoom ==
    ASSUME TypeOK, NEW n \in Node, NEW b \in NextBufs(n)
    PROVE  Len(b) <= Room(n)
<1>1. PICK k \in 1 .. MaxWrite : /\ written[n] + k <= Budget(n)
                                 /\ b = [i \in 1 .. k |-> written[n] + i]
  BY DEF NextBufs, Budget
<1>2. written[n] \in Nat /\ k \in Nat /\ Budget(n) \in Nat
  BY ConnectionConstants DEF TypeOK, Budget
<1>3. Len(b) = k
  <2>1. b \in [1 .. k -> Nat]
    BY <1>1, <1>2
  <2>2. b \in Seq(Nat) /\ DOMAIN b = 1 .. k
    BY <1>2, <2>1, FunctionIsSeq
  <2>3. QED
    BY <1>2, <2>2, LenProperties
<1>4. QED
  BY <1>1, <1>2, <1>3 DEF Room

\* What hosts that have met know of each other.
LEMMA MetFits ==
    ASSUME TypeOK, Numeric, NEW n \in Node, Met(n), Met(Peer(n))
    PROVE  LET t == tcb[n]
               p == tcb[Peer(n)]
           IN  /\ t \in TcbT /\ p \in TcbT /\ Room(n) \in Nat
               /\ SendSide(t, Room(n)) /\ t.snd_cap = RcvWindow /\ Agrees(t, p) /\ Agrees(p, t)
               /\ p.seq_nr_next - p.seq_nr_unack <= RcvWindow
               /\ t.rcv_next + Len(t.rcv_pq) < SeqSpace
<1> DEFINE m == Peer(n)
           t == tcb[n]
           p == tcb[m]
<1>1. m \in Node /\ Peer(m) = n
  BY DEF Peer, Node
<1>2. t \in TcbT /\ p \in TcbT
  BY <1>1 DEF TypeOK
<1>3. Met(n) /\ Met(m)
  OBVIOUS
<1>4. Fits(t, p, Room(n)) /\ Fits(p, t, Room(m))
  BY <1>1 DEF Numeric
<1>5. /\ Room(n) \in Nat /\ SendSide(t, Room(n)) /\ t.snd_cap = RcvWindow
      /\ Agrees(t, p) /\ Agrees(p, t) /\ SendSide(p, Room(m))
  BY <1>3, <1>4 DEF Fits, Met
<1>6. /\ t.rcv_next + Len(t.rcv_pq) <= p.seq_nr_next
      /\ p.seq_nr_next - p.seq_nr_unack <= RcvWindow
  BY <1>5 DEF Agrees, SendSide
<1>7. /\ p.seq_nr_next \in Nat /\ p.seq_nr_next < SeqSpace
      /\ t.rcv_next \in Nat /\ Len(t.rcv_pq) \in Nat
  BY <1>2, TcbNumbers
<1> HIDE DEF m, t, p
<1>8. t.rcv_next + Len(t.rcv_pq) < SeqSpace
  BY <1>6, <1>7, TcbConstants
<1>9. QED
  BY <1>2, <1>5, <1>6, <1>8 DEF m, t, p

\* The handler that sends what was written.
LEMMA SendKeeps ==
    ASSUME TypeOK, Handshake, Numeric, NEW n \in Node, NEW c \in Context, FromSend(n, c)
    PROVE  Keeps(n, c)
<1> DEFINE t == tcb[n]
           p == tcb[Peer(n)]
<1>1. Active(n) /\ c = send_app_data(Call(t)) /\ written' = written
  BY DEF FromSend
<1>2. Synchronised(n)
  BY <1>1 DEF Handshake, Quiet
<1>3. /\ t \in TcbT /\ p \in TcbT /\ Room(n) \in Nat
      /\ SendSide(t, Room(n)) /\ t.snd_cap = RcvWindow /\ Agrees(t, p) /\ Agrees(p, t)
      /\ t.next_state = "Established"
  BY <1>2, BothMet, MetFits
<1>4. Call(t) \in Context /\ Call(t).tcb = t /\ Call(t).out = <<>> /\ Call(t).abort = "none"
  BY <1>3, CallType DEF Call
<1>5. /\ SameButNext(t, c.tcb) /\ t.seq_nr_next <= c.tcb.seq_nr_next
      /\ SendSide(c.tcb, Room(n)) /\ \A s \in Range(c.out) : SentBy(c.tcb, s)
  BY <1>1, <1>3, <1>4, SendAppDataSide
<1>6. c.tcb.state = "Established" /\ c.abort # "rcv_overflow"
  <2>1. c.tcb.state \in {t.state, t.next_state} /\ c.abort = "none"
    BY <1>1, <1>4 DEF send_app_data, Context
  <2>2. QED
    BY <1>2, <1>3, <2>1 DEF Synchronised
<1>7. Room(n)' = Room(n)
  BY <1>1 DEF Room, Budget
<1>8. /\ c.tcb.snd_cap = RcvWindow /\ Agrees(c.tcb, p) /\ c.tcb.seq_nr_unack <= p.rcv_next
      /\ c.tcb.rcv_next = t.rcv_next
  BY <1>3, <1>5 DEF SameButNext, Agrees
<1>9. t.rcv_next <= c.tcb.rcv_next
  BY <1>3, <1>8, TcbNumbers
<1> HIDE DEF t, p
<1>10. QED
  BY <1>1, <1>3, <1>5, <1>6, <1>7, <1>8, <1>9, OnwardKeeps DEF t, p

\* A call of the application, from a handler of its own or from a callback.
LEMMA CallKeeps ==
    ASSUME TypeOK, Handshake, Numeric, NEW n \in Node, NEW c \in Context, FromCall(n, c)
    PROVE  Keeps(n, c)
<1> DEFINE t == tcb[n]
           p == tcb[Peer(n)]
<1>1. PICK call \in Calls(t, NextBufs(n)) :
            /\ c \in {app_call(Call(t), call), read_handler(Call(t), call)}
            /\ Wrote(n, call, c)
  BY DEF FromCall
<1>2. Synchronised(n)
  BY DEF FromCall, Handshake, Quiet
<1>3. /\ t \in TcbT /\ p \in TcbT /\ Room(n) \in Nat
      /\ SendSide(t, Room(n)) /\ t.snd_cap = RcvWindow /\ Agrees(t, p) /\ Agrees(p, t)
      /\ t.next_state = "Established" /\ t.rcv_next + Len(t.rcv_pq) < SeqSpace
  BY <1>2, BothMet, MetFits
<1>4. c.tcb.state = "Established"
  <2>1. Move(n, c)
    BY StepMove DEF From
  <2>2. QED
    BY <1>2, <2>1 DEF Move, Waits, Opens, Answers, GoesOn, CarriesOn, Synchronised
<1> DEFINE used == IF c.abort = "none" THEN Len(call.buf) ELSE 0
<1>5. used \in 0 .. Room(n) /\ Operated(t, c, Room(n) - used)
  <2>1. NextBufs(n) \subseteq Seq(Byte) /\ \A b \in NextBufs(n) : Len(b) <= Room(n)
    BY NextBufsType, NextBufsRoom
  <2>2. QED
    BY <1>1, <1>3, <2>1, CallSide
<1>6. /\ Peer(n) # n /\ Peer(n) \in Node
      /\ written \in [Node -> Nat]
  BY DEF Peer, Node, TypeOK
<1>7. written'[n] = written[n] + used /\ written'[Peer(n)] = written[Peer(n)]
  <2>1. written' = [written EXCEPT ![n] = IF c.abort = "none" THEN written[n] + Len(call.buf) ELSE written[n]]
    BY <1>1 DEF Wrote
  <2>2. written[n] \in Nat
    BY <1>6
  <2>3. QED
    BY <1>6, <2>1, <2>2
<1> HIDE DEF used, t, p
<1>8. Room(n)' = Room(n) - used
  <2>1. written[n] \in Nat /\ Budget(n) \in Nat /\ used \in Int
    BY <1>3, <1>5, <1>6, ConnectionConstants DEF Budget
  <2>2. Room(n)' = Budget(n) - written'[n] /\ Room(n) = Budget(n) - written[n]
    BY DEF Room, Budget
  <2>3. QED
    BY <1>7, <2>1, <2>2
<1>9. Room(n)' \in Nat
  BY <1>3, <1>5, <1>8
<1>10. /\ SendSide(c.tcb, Room(n)') /\ c.tcb.snd_cap = t.snd_cap
       /\ c.tcb.seq_nr_unack = t.seq_nr_unack /\ t.seq_nr_next <= c.tcb.seq_nr_next
       /\ t.rcv_next <= c.tcb.rcv_next
       /\ c.tcb.rcv_next + Len(c.tcb.rcv_pq) = t.rcv_next + Len(t.rcv_pq)
       /\ c.abort # "rcv_overflow" /\ \A s \in Range(c.out) : SentBy(c.tcb, s)
  BY <1>5, <1>8 DEF Operated
<1>11. Agrees(c.tcb, p) /\ c.tcb.seq_nr_unack <= p.rcv_next
  <2>1. c.tcb \in TcbT
    BY DEF Context
  <2>2. /\ t.rcv_next \in Nat /\ c.tcb.rcv_next \in Nat /\ p.seq_nr_unack \in Nat
    BY <1>3, <2>1, TcbNumbers
  <2>3. /\ p.seq_nr_unack <= t.rcv_next /\ t.rcv_next + Len(t.rcv_pq) <= p.seq_nr_next
        /\ t.seq_nr_unack <= p.rcv_next
    BY <1>3 DEF Agrees
  <2>4. p.seq_nr_unack <= c.tcb.rcv_next
    BY <1>10, <2>2, <2>3
  <2>5. QED
    BY <1>10, <2>3, <2>4 DEF Agrees
<1>12. QED
  BY <1>3, <1>4, <1>7, <1>9, <1>10, <1>11, OnwardKeeps DEF t, p

\* async_connect.  Nothing has been sent before.
LEMMA ConnectKeeps ==
    ASSUME NoWrap, TypeOK, Handshake, Numeric, NEW n \in Node, NEW c \in Context,
           FromConnect(n, c)
    PROVE  Keeps(n, c)
<1>1. n = "client" /\ tcb[n].state = "Closed" /\ written' = written /\ Peer(n) = "server"
  BY DEF FromConnect, Peer
<1>2. PICK isn \in Isns, m \in UninitMss :
            c = start_connecting(Call(new_tcb("Connecting", m)), isn, MyMss)
  BY DEF FromConnect
<1>3. isn \in SeqNr /\ m \in Nat /\ isn \in Nat
  BY ConnectionConstants, TcbConstants DEF SeqNr
<1>4. Room(n) \in Nat /\ Room(n)' = Room(n)
  BY <1>1 DEF Numeric, Fits, Room, Budget
<1>5. isn + 1 + Room(n) < SeqSpace
  <2>1. isn + 1 + ClientBytes < SeqSpace
    BY DEF NoWrap
  <2>2. Room(n) <= ClientBytes
    BY <1>1, ConnectionConstants DEF Room, Budget, TypeOK
  <2>3. ClientBytes \in Nat
    BY ConnectionConstants
  <2>4. QED
    BY <1>3, <1>4, <2>1, <2>2, <2>3, TcbConstants
<1>6. /\ SendSide(c.tcb, Room(n)) /\ c.tcb.snd_pq = <<>> /\ c.tcb.rcv_pq = <<>>
      /\ c.abort = "none" /\ \A s \in Range(c.out) : SentBy(c.tcb, s)
  BY <1>2, <1>3, <1>4, <1>5, ConnectSide
<1>7. c.tcb.state = "SynSent"
  BY <1>2 DEF start_connecting, Call, new_tcb
<1>8. Coming("server") = {} /\ ~Met("server")
  BY <1>1 DEF Handshake, FlagsOK, OrderOK, Synchronised
<1>9. QED
  BY <1>1, <1>4, <1>6, <1>7, <1>8 DEF Keeps, Fits

\* A segment that reaches the server before it has met the client.
LEMMA ListenKeeps ==
    ASSUME NoWrap, TypeOK, Handshake, Numeric, NEW n \in Node, n = "server",
           tcb[n].state \in {"Closed", "Listen"}, written' = written,
           NEW c \in Context, NEW s \in Coming(n), NEW t \in lookup(n), NEW isn \in Isns,
           NEW una, c = process(Call(t), s, isn, una)
    PROVE  Keeps(n, c)
<1> DEFINE p == tcb["client"]
<1>1. Peer(n) = "client" /\ "client" \in Node /\ Peer("client") = "server"
  BY DEF Peer, Node
<1>2. s \in Segment /\ t \in TcbT /\ p \in TcbT /\ isn \in SeqNr /\ isn \in Nat
  <2>1. s \in Segment /\ t \in TcbT /\ p \in TcbT
    BY <1>1, ComingType, LookupType DEF TypeOK
  <2>2. isn \in SeqNr
    BY ConnectionConstants
  <2>3. QED
    BY <2>1, <2>2, TcbConstants DEF SeqNr
<1>3. t.state = "Listen" /\ t.next_state = "Listen" /\ t.rcv_pq = <<>> /\ t.snd_pq = <<>>
  <2>1. CASE tcb[n].state = "Closed"
    BY <2>1 DEF lookup, new_tcb
  <2>2. CASE tcb[n].state = "Listen"
    <3>1. t = tcb[n]
      BY <2>2 DEF lookup
    <3>2. Fits(t, tcb[Peer(n)], Room(n))
      BY <3>1 DEF Numeric
    <3>3. t.rcv_pq = <<>> /\ t.snd_pq = <<>>
      BY <2>2, <3>1, <3>2 DEF Fits
    <3>4. <<tcb[n].state, tcb[n].next_state>> \in HostPairs(n)
      BY DEF Handshake, PairsOK
    <3>5. QED
      BY <2>2, <3>1, <3>3, <3>4 DEF HostPairs
  <2>3. QED
    BY <2>1, <2>2
<1>4. ~Met("server")
  BY DEF Met
<1>5. p.state = "SynSent" /\ Coming("client") = {} /\ ~Met("client")
  <2>1. p.state # "Closed" /\ p.state # "Established" /\ Coming("client") = {}
    BY <1>4 DEF Handshake, FlagsOK, OrderOK, Synchronised
  <2>2. <<p.state, p.next_state>> \in HostPairs("client")
    BY <1>1 DEF Handshake, PairsOK
  <2>3. QED
    BY <2>1, <2>2 DEF HostPairs, Met
<1>6. SentBy(p, s)
  BY <1>1 DEF Numeric
<1>7. Room(n) \in Nat /\ Room(n)' = Room(n)
  BY DEF Numeric, Fits, Room, Budget
<1>8. isn + 1 + Room(n) < SeqSpace
  <2>1. isn + 1 + ServerBytes < SeqSpace
    BY DEF NoWrap
  <2>2. Room(n) <= ServerBytes
    BY ConnectionConstants DEF Room, Budget, TypeOK
  <2>3. ServerBytes \in Nat
    BY ConnectionConstants
  <2>4. QED
    BY <1>2, <1>7, <2>1, <2>2, <2>3, TcbConstants
<1>9. \/ c.tcb = t /\ c.out = <<>> /\ c.abort = "none"
      \/ Introduced(c, p, Room(n))
  BY <1>2, <1>3, <1>5, <1>6, <1>7, <1>8, ListenSide
<1>10. \/ c.tcb = t /\ c.out = <<>> /\ c.abort = "none"
       \/ c.tcb.state = "SynReceived"
  BY <1>2, <1>3, ProcessListen
<1>11. Range(<<>>) = {}
  BY DEF Range
<1> HIDE DEF p
<1>12. CASE c.tcb = t /\ c.out = <<>> /\ c.abort = "none"
  BY <1>1, <1>3, <1>5, <1>7, <1>11, <1>12 DEF Keeps, Fits
<1>13. CASE c.tcb.state = "SynReceived" /\ Introduced(c, p, Room(n))
  <2>1. Fits(c.tcb, p, Room(n))
    BY <1>7, <1>13 DEF Introduced, Fits
  <2>2. QED
    BY <1>1, <1>5, <1>7, <1>13, <2>1 DEF Keeps, Introduced, p
<1>14. QED
  BY <1>9, <1>10, <1>12, <1>13

\* A segment that reaches the client while it waits for the answer to its SYN.
LEMMA SynSentKeeps ==
    ASSUME TypeOK, Handshake, Numeric, NEW n \in Node, tcb[n].state = "SynSent",
           written' = written, NEW c \in Context, NEW s \in Coming(n),
           NEW isn \in SeqNr, NEW una \in SeqNr, c = process(Call(tcb[n]), s, isn, una)
    PROVE  Keeps(n, c)
<1> DEFINE t == tcb[n]
           p == tcb["server"]
<1>1. n = "client" /\ t.next_state = "Established"
  <2>1. <<tcb[n].state, tcb[n].next_state>> \in HostPairs(n)
    BY DEF Handshake, PairsOK
  <2>2. QED
    BY <2>1 DEF HostPairs
<1>2. /\ Peer(n) = "server" /\ "server" \in Node /\ Peer("server") = n
      /\ s \in Segment /\ t \in TcbT /\ p \in TcbT
  BY <1>1, ComingType DEF Peer, Node, TypeOK
<1>3. Met("server") /\ p.state = "SynReceived"
  BY <1>1 DEF Handshake, FlagsOK, OrderOK, Met, Synchronised
<1>4. Fits(t, p, Room(n)) /\ Fits(p, t, Room("server")) /\ SentBy(p, s)
  BY <1>1, <1>2 DEF Numeric
<1>5. SendSide(t, Room(n)) /\ Room(n) \in Nat /\ t.rcv_pq = <<>> /\ Agrees(p, t)
  BY <1>3, <1>4 DEF Fits
<1>6. p.rcv_next <= t.seq_nr_next
  <2>1. p.rcv_next + Len(p.rcv_pq) <= t.seq_nr_next
    BY <1>5 DEF Agrees
  <2>2. p.rcv_next \in Nat /\ Len(p.rcv_pq) \in Nat /\ t.seq_nr_next \in Nat
    BY <1>2, TcbNumbers
  <2>3. QED
    BY <2>1, <2>2
<1>7. \/ c.tcb = t /\ c.out = <<>> /\ c.abort = "none"
      \/ /\ Introduced(c, p, Room(n)) /\ c.tcb.seq_nr_unack <= p.rcv_next
         /\ t.seq_nr_next <= c.tcb.seq_nr_next
  BY <1>2, <1>3, <1>4, <1>5, <1>6, SynSentSide
<1>8. \/ c.tcb = t /\ c.out = <<>> /\ c.abort = "none"
      \/ c.tcb.state = "Established"
  BY <1>1, <1>2, ProcessSynSent DEF CarriesOn
<1>9. CASE c.tcb = t /\ c.out = <<>> /\ c.abort = "none"
  BY <1>9, StayKeeps
<1>10. ASSUME c.tcb.state = "Established", Introduced(c, p, Room(n)),
              c.tcb.seq_nr_unack <= p.rcv_next, t.seq_nr_next <= c.tcb.seq_nr_next
       PROVE  Keeps(n, c)
  <2>1. Room(n)' = Room(n) /\ ~Met(n)
    BY DEF Room, Budget, Met
  <2>2. /\ SendSide(c.tcb, Room(n)) /\ c.tcb.snd_cap = RcvWindow /\ Agrees(c.tcb, p)
        /\ c.abort # "rcv_overflow" /\ \A x \in Range(c.out) : SentBy(c.tcb, x)
    BY <1>10 DEF Introduced
  <2>3. QED
    BY <1>2, <1>5, <1>10, <2>1, <2>2, OnwardKeeps
<1>11. QED
  BY <1>7, <1>8, <1>9, <1>10

\* A segment that reaches a host after it has met the other one.
LEMMA MetKeeps ==
    ASSUME TypeOK, Handshake, Numeric, NEW n \in Node, Met(n), written' = written,
           NEW c \in Context, NEW s \in Coming(n), NEW isn \in SeqNr,
           NEW una \in clamp(s.ack_no, tcb[n].seq_nr_unack, tcb[n].seq_nr_next),
           c = process(Call(tcb[n]), s, isn, una)
    PROVE  Keeps(n, c)
<1> DEFINE t == tcb[n]
           p == tcb[Peer(n)]
<1>1. <<t.state, t.next_state>> \in HostPairs(n)
  BY DEF Handshake, PairsOK
<1>2. s \in Segment /\ SentBy(p, s) /\ t \in TcbT
  BY ComingType DEF Numeric, TypeOK
<1>3. una \in SeqNr
  BY <1>2, ClampType DEF TcbT, Segment
<1>4. "FIN" \notin s.flags
  BY DEF Handshake, FlagsOK, Node
<1>5. ASSUME Met(Peer(n)), c.tcb.state = "Established"
      PROVE  Keeps(n, c)
  <2>1. /\ p \in TcbT /\ Room(n) \in Nat
        /\ SendSide(t, Room(n)) /\ t.snd_cap = RcvWindow /\ Agrees(t, p) /\ Agrees(p, t)
        /\ p.seq_nr_next - p.seq_nr_unack <= RcvWindow
    BY <1>5, MetFits
  <2>2. t.state = "SynReceived" => t.snd_pq = <<>>
    BY DEF Numeric, Fits
  <2>3. t.state \in {"SynReceived", "Established"}
    BY DEF Met
  <2>4. t.seq_nr_unack <= p.rcv_next /\ p.rcv_next <= t.seq_nr_next
    <3>1. t.seq_nr_unack <= p.rcv_next /\ p.rcv_next + Len(p.rcv_pq) <= t.seq_nr_next
      BY <2>1 DEF Agrees
    <3>2. p.rcv_next \in Nat /\ Len(p.rcv_pq) \in Nat /\ t.seq_nr_next \in Nat
      BY <1>2, <2>1, TcbNumbers
    <3>3. QED
      BY <3>1, <3>2
  <2>5. Processed(t, c, p, Room(n))
    BY <1>2, <1>4, <2>1, <2>2, <2>3, <2>4, ProcessSide
  <2>6. Range(<<>>) = {}
    BY DEF Range
  <2>7. /\ SendSide(c.tcb, Room(n)) /\ c.tcb.snd_cap = RcvWindow /\ Agrees(c.tcb, p)
        /\ c.tcb.seq_nr_next = t.seq_nr_next /\ t.rcv_next <= c.tcb.rcv_next
        /\ c.tcb.seq_nr_unack <= p.rcv_next /\ c.abort # "rcv_overflow"
        /\ \A x \in Range(c.out) : SentBy(c.tcb, x)
    BY <2>1, <2>5, <2>6 DEF Processed
  <2>8. t.seq_nr_next <= c.tcb.seq_nr_next
    BY <1>2, <2>7, TcbNumbers
  <2>9. Room(n)' = Room(n)
    BY DEF Room, Budget
  <2>10. QED
    BY <1>5, <2>1, <2>7, <2>8, <2>9, OnwardKeeps
<1>6. CASE t.state = "Established"
  <2>1. Met(Peer(n)) /\ t.next_state = "Established"
    BY <1>6, BothMet DEF Synchronised
  <2>2. CarriesOn(c)
    BY <1>2, <1>3, <1>4, <1>6, <2>1, ProcessUp
  <2>3. QED
    BY <1>5, <2>1, <2>2 DEF CarriesOn
<1>7. CASE t.state = "SynReceived"
  <2>1. n = "server" /\ t.next_state = "SynReceived" /\ Peer(n) = "client"
    BY <1>1, <1>7 DEF HostPairs, Peer, Node
  <2>2. s.flags = {"SYN"} \/ (s.flags = {"ACK"} /\ Synchronised("client"))
    BY <2>1 DEF Handshake, FlagsOK
  <2>3. \/ c.tcb = t /\ c.out = <<>> /\ c.abort = "none"
        \/ s.flags = {"ACK"} /\ CarriesOn(c)
    BY <1>2, <1>3, <1>7, <2>1, <2>2, ProcessSynReceived
  <2>4. CASE c.tcb = t /\ c.out = <<>> /\ c.abort = "none"
    BY <2>4, StayKeeps
  <2>5. CASE s.flags = {"ACK"} /\ CarriesOn(c)
    <3>1. {"SYN"} # {"ACK"}
      OBVIOUS
    <3>2. Met(Peer(n)) /\ c.tcb.state = "Established"
      BY <2>1, <2>2, <2>5, <3>1 DEF Met, Synchronised, CarriesOn
    <3>3. QED
      BY <1>5, <3>2
  <2>6. QED
    BY <2>3, <2>4, <2>5
<1>8. QED
  BY <1>6, <1>7 DEF Met

\* Whatever segment it is.
LEMMA SegmentKeeps ==
    ASSUME NoWrap, TypeOK, Handshake, Numeric, NEW n \in Node, NEW c \in Context,
           FromSegment(n, c)
    PROVE  Keeps(n, c)
<1>1. PICK s \in Coming(n), t \in lookup(n), isn \in Isns :
            \E una \in clamp(s.ack_no, t.seq_nr_unack, t.seq_nr_next) :
                c = process(Call(t), s, isn, una)
  BY DEF FromSegment
<1>2. PICK una \in clamp(s.ack_no, t.seq_nr_unack, t.seq_nr_next) :
                c = process(Call(t), s, isn, una)
  BY <1>1
<1>3. written' = written
  BY DEF FromSegment
<1>4. s \in Segment /\ t \in TcbT /\ isn \in SeqNr
  BY ComingType, LookupType, ConnectionConstants
<1>5. una \in SeqNr
  BY <1>4, ClampType DEF TcbT, Segment
<1>6. CASE n = "server" /\ tcb[n].state \in {"Closed", "Listen"}
  BY <1>2, <1>3, <1>6, ListenKeeps
<1>7. CASE n = "client" \/ tcb[n].state \notin {"Closed", "Listen"}
  <2>1. t = tcb[n]
    BY <1>7 DEF lookup
  <2>2. CASE tcb[n].state = "Closed"
    <3>1. c.tcb = tcb[n] /\ c.out = <<>> /\ c.abort = "none"
      BY <1>2, <2>1, <2>2 DEF process, tcp_handle_close_state, Call
    <3>2. QED
      BY <1>3, <3>1, StayKeeps
  <2>3. CASE tcb[n].state = "SynSent"
    BY <1>2, <1>3, <1>4, <1>5, <2>1, <2>3, SynSentKeeps
  <2>4. CASE Met(n)
    BY <1>2, <1>3, <1>4, <2>1, <2>4, MetKeeps
  <2>5. <<tcb[n].state, tcb[n].next_state>> \in HostPairs(n)
    BY DEF Handshake, PairsOK
  <2>6. QED
    BY <1>7, <2>2, <2>3, <2>4, <2>5 DEF HostPairs, Met
<1>8. QED
  BY <1>6, <1>7 DEF Node

\* Every step keeps the numbers of the two sides.
LEMMA NumericStep ==
    ASSUME NoWrap, TypeOK, Handshake, Numeric, Next
    PROVE  Numeric'
<1>1. ASSUME NEW n \in Node, NEW c \in Context, HostStep(n, c), From(n, c)
      PROVE  Numeric'
  <2>1. Keeps(n, c)
    BY <1>1, ConnectKeeps, SegmentKeeps, CallKeeps, SendKeeps DEF From
  <2>2. QED
    BY <1>1, <2>1, KeepsNumeric
<1>2. QED
  BY <1>1, StepShape, NetNumeric

\* Nothing has been sent when the hosts start.
LEMMA InitNumeric == Init => Numeric
<1> SUFFICES ASSUME Init, NEW n \in Node
             PROVE  /\ Fits(tcb[n], tcb[Peer(n)], Room(n)) /\ abort[n] # "rcv_overflow"
                    /\ \A s \in Coming(n) : SentBy(tcb[Peer(n)], s)
  BY DEF Numeric
<1>1. /\ tcb[n].state = "Closed" /\ tcb[n].rcv_pq = <<>> /\ tcb[n].snd_pq = <<>>
      /\ ioq[n] = <<>> /\ net[n] = <<>> /\ abort[n] = "none" /\ written[n] = 0
  BY DEF Init, new_tcb
<1>2. Range(<<>>) = {}
  BY DEF Range
<1>3. Coming(n) = {}
  BY <1>1, <1>2 DEF Coming
<1>4. Room(n) \in Nat
  BY <1>1, ConnectionConstants DEF Room, Budget
<1>5. QED
  BY <1>1, <1>3, <1>4 DEF Fits

\* The inductive invariant: without the handshake nothing is known of which side
\* has met which, without the segments on their way nothing of what comes next.
Agreed == TypeOK /\ Handshake /\ Numeric

\* It holds in every reachable state.
LEMMA AgreedAlways ==
    ASSUME NoWrap
    PROVE  Spec => []Agreed
<1>1. Init => Agreed
  BY InitType, InitHandshake, InitNumeric DEF Agreed
<1>2. Agreed /\ [Next]_vars => Agreed'
  <2>1. ASSUME Agreed, Next PROVE Agreed'
    BY <2>1, TypeStep, HandshakeStep, NumericStep DEF Agreed
  <2>2. ASSUME Agreed, UNCHANGED vars PROVE Agreed'
    BY <2>2 DEF Agreed, vars, TypeOK, Handshake, PairsOK, Quiet, FlagsOK, OrderOK, Met,
                Synchronised, Active, Coming, Numeric, Room, Peer, Budget
  <2>3. QED
    BY <2>1, <2>2
<1>3. QED
  BY <1>1, <1>2, PTL DEF Spec

\* The two hosts agree on where the streams are, whatever the network loses,
\* duplicates and reorders, as long as no sequence number wraps: process() takes
\* an acknowledgment only up to SND.NXT and text only behind what it has.
THEOREM ConnectionWindowsAgree ==
    ASSUME NoWrap
    PROVE  Spec => []WindowsAgree
<1>1. Agreed => WindowsAgree
  <2> SUFFICES ASSUME Agreed, NEW n \in Node, Synchronised(n), Synchronised(Peer(n))
               PROVE  Agrees(tcb[n], tcb[Peer(n)])
    BY DEF WindowsAgree, Agrees
  <2>1. Fits(tcb[n], tcb[Peer(n)], Room(n))
    BY DEF Agreed, Numeric
  <2>2. QED
    BY <2>1 DEF Fits, Synchronised
<1>2. QED
  BY <1>1, AgreedAlways, PTL

\* The assert of process() on the size of the receive queue never fails between
\* two such hosts, although neither side compares anything with the window: the
\* sender has no more in flight than its send queue, whose capacity is the window.
THEOREM ConnectionNoReceiveOverflow ==
    ASSUME NoWrap
    PROVE  Spec => []NoReceiveOverflow
<1>1. Agreed => NoReceiveOverflow
  BY DEF Agreed, Numeric, NoReceiveOverflow
<1>2. QED
  BY <1>1, AgreedAlways, PTL

-----------------------------------------------------------------------------
(* Queues of texts put together *)

\* g gives, for each n, the first n elements of q put together.
Builds(g, q, S) ==
    /\ g \in [0 .. Len(q) -> Seq(S)]
    /\ g[0] = <<>>
    /\ \A i \in 1 .. Len(q) : g[i] = g[i - 1] \o q[i]

\* There is such a function for every queue.
LEMMA BuildsExists ==
    ASSUME NEW S, NEW q \in Seq(Seq(S))
    PROVE  \E g : Builds(g, q, S)
<1> DEFINE P(n) == \E g \in [0 .. n -> Seq(S)] : 
                        /\ g[0] = <<>>
                        /\ \A i \in 1 .. n : g[i] = g[i - 1] \o q[i]
           T == {n \in Nat : n <= Len(q) => P(n)}
<1>1. 0 \in T
  <2> DEFINE g == [i \in 0 .. 0 |-> <<>>]
  <2>1. <<>> \in Seq(S) /\ 0 \in 0 .. 0
    OBVIOUS
  <2>2. g \in [0 .. 0 -> Seq(S)] /\ g[0] = <<>> /\ 1 .. 0 = {}
    BY <2>1
  <2> HIDE DEF g
  <2>3. P(0)
    BY <2>2
  <2>4. QED
    BY <2>3
<1> HIDE DEF P
<1>2. ASSUME NEW n \in Nat, n \in T PROVE n + 1 \in T
  <2> SUFFICES ASSUME n + 1 <= Len(q) PROVE P(n + 1)
    OBVIOUS
  <2>1. Len(q) \in Nat /\ n <= Len(q) /\ n + 1 \in 1 .. Len(q) /\ q[n + 1] \in Seq(S)
    OBVIOUS
  <2>2. PICK g \in [0 .. n -> Seq(S)] : g[0] = <<>> /\ \A i \in 1 .. n : g[i] = g[i - 1] \o q[i]
    BY <1>2, <2>1 DEF P
  <2> DEFINE h == [i \in 0 .. n + 1 |-> IF i = n + 1 THEN g[n] \o q[n + 1] ELSE g[i]]
  <2>3. \A i \in 0 .. n + 1 : i = n + 1 \/ i \in 0 .. n
    OBVIOUS
  <2>4. g[n] \in Seq(S)
    OBVIOUS
  <2>5. g[n] \o q[n + 1] \in Seq(S)
    BY <2>1, <2>4
  <2>6. h \in [0 .. n + 1 -> Seq(S)]
    BY <2>3, <2>5
  <2>7. h[0] = <<>>
    BY <2>2
  <2>8. ASSUME NEW i \in 1 .. n + 1 PROVE h[i] = h[i - 1] \o q[i]
    <3>1. i - 1 \in 0 .. n /\ i - 1 # n + 1 /\ i \in 0 .. n + 1 /\ i - 1 \in 0 .. n + 1
      OBVIOUS
    <3>2. h[i - 1] = g[i - 1]
      BY <3>1
    <3>3. CASE i = n + 1
      <4>1. i - 1 = n
        BY <3>3
      <4>2. h[i] = g[n] \o q[n + 1]
        BY <3>1, <3>3
      <4> HIDE DEF h
      <4>3. QED
        BY <3>2, <3>3, <4>1, <4>2
    <3>4. CASE i # n + 1
      <4>1. i \in 1 .. n
        BY <3>4
      <4>2. QED
        BY <2>2, <3>1, <3>2, <3>4, <4>1
    <3>5. QED
      BY <3>3, <3>4
  <2> HIDE DEF h
  <2>9. QED
    BY <2>6, <2>7, <2>8 DEF P
<1>3. Nat \subseteq T
  <2> HIDE DEF T
  <2>1. QED
    BY <1>1, <1>2, SetInduction, Zenon
<1>4. P(Len(q))
  <2>1. Len(q) \in Nat /\ Len(q) <= Len(q)
    OBVIOUS
  <2>2. QED
    BY <1>3, <2>1
<1>5. QED
  BY <1>4 DEF P, Builds

\* There is only one, and on a common front it is the same for two queues.
LEMMA BuildsAgree ==
    ASSUME NEW S, NEW q \in Seq(Seq(S)), NEW r \in Seq(Seq(S)), NEW m \in Nat,
           m <= Len(q), m <= Len(r), \A i \in 1 .. m : q[i] = r[i],
           NEW g, Builds(g, q, S), NEW h, Builds(h, r, S)
    PROVE  g[m] = h[m]
<1> DEFINE T == {n \in Nat : n <= m => g[n] = h[n]}
<1>1. 0 \in T
  BY DEF Builds
<1>2. ASSUME NEW n \in Nat, n \in T PROVE n + 1 \in T
  <2> SUFFICES ASSUME n + 1 <= m PROVE g[n + 1] = h[n + 1]
    OBVIOUS
  <2>1. Len(q) \in Nat /\ Len(r) \in Nat
    OBVIOUS
  <2>2. n <= m /\ n + 1 \in 1 .. m /\ n + 1 \in 1 .. Len(q) /\ n + 1 \in 1 .. Len(r) /\ (n + 1) - 1 = n
    BY <2>1
  <2>3. g[n] = h[n] /\ q[n + 1] = r[n + 1]
    BY <1>2, <2>2
  <2>4. g[n + 1] = g[n] \o q[n + 1] /\ h[n + 1] = h[n] \o r[n + 1]
    BY <2>2 DEF Builds
  <2>5. QED
    BY <2>3, <2>4
<1>3. Nat \subseteq T
  <2> HIDE DEF T
  <2>1. QED
    BY <1>1, <1>2, SetInduction, Zenon
<1>4. QED
  BY <1>3

\* FlattenSeq is the last of its values.
LEMMA FlattenBuilds ==
    ASSUME NEW S, NEW q \in Seq(Seq(S)), NEW g, Builds(g, q, S)
    PROVE  FlattenSeq(q) = g[Len(q)]
<1>1. Len(q) \in Nat /\ g \in [0 .. Len(q) -> Seq(S)] /\ g[0] = <<>>
      /\ \A i \in 1 .. Len(q) : g[i] = g[i - 1] \o q[i]
  BY SMTT(30) DEF Builds
<1>2. CASE Len(q) = 0
  <2>1. q = <<>>
    BY <1>2, EmptySeq
  <2>2. FlattenSeq(q) = q
    BY <1>2 DEF FlattenSeq
  <2>3. QED
    BY <1>1, <1>2, <2>1, <2>2
<1>3. CASE Len(q) # 0
  <2> DEFINE E(f) == f = [i \in 1 .. Len(q) |-> IF i = 1 THEN q[i] ELSE f[i - 1] \o q[i]]
             w == [i \in 1 .. Len(q) |-> g[i]]
             F == CHOOSE f : E(f)
  <2>1. E(w)
    <3> SUFFICES ASSUME NEW i \in 1 .. Len(q)
                 PROVE  g[i] = IF i = 1 THEN q[i] ELSE w[i - 1] \o q[i]
      OBVIOUS
    <3>1. CASE i = 1
      <4>1. q[1] \in Seq(S)
        BY <1>1, <1>3
      <4>2. g[1] = <<>> \o q[1]
        <5>1. 1 - 1 = 0
          OBVIOUS
        <5>2. QED
          BY <1>1, <3>1, <5>1
      <4>3. QED
        BY <3>1, <4>1, <4>2
    <3>2. CASE i # 1
      <4>1. i - 1 \in 1 .. Len(q)
        BY <3>2, <1>1
      <4>2. QED
        BY <1>1, <3>2, <4>1
    <3>3. QED
      BY <3>1, <3>2
  <2>2. E(F)
    <3> HIDE DEF E
    <3>1. QED
      BY <2>1
  <2>3. FlattenSeq(q) = F[Len(q)]
    BY <1>3 DEF FlattenSeq
  <2> HIDE DEF F
  <2>4. \A i \in 1 .. Len(q) : F[i] = IF i = 1 THEN q[i] ELSE F[i - 1] \o q[i]
    BY <2>2
  <2> DEFINE T == {n \in Nat : n + 1 <= Len(q) => F[n + 1] = g[n + 1]}
  <2>5. 0 \in T
    <3>1. 1 \in 1 .. Len(q) /\ q[1] \in Seq(S)
      BY <1>1, <1>3
    <3>2. g[1] = <<>> \o q[1]
      <4>1. 1 - 1 = 0
        OBVIOUS
      <4>2. QED
        BY <1>1, <3>1, <4>1
    <3>3. F[1] = q[1]
      BY <2>4, <3>1
    <3>4. QED
      BY <3>1, <3>2, <3>3
  <2>6. ASSUME NEW n \in Nat, n \in T PROVE n + 1 \in T
    <3> SUFFICES ASSUME (n + 1) + 1 <= Len(q) PROVE F[(n + 1) + 1] = g[(n + 1) + 1]
      OBVIOUS
    <3>1. (n + 1) + 1 \in 1 .. Len(q) /\ (n + 1) + 1 # 1 /\ ((n + 1) + 1) - 1 = n + 1 /\ n + 1 <= Len(q)
      BY <1>1
    <3>2. F[n + 1] = g[n + 1]
      BY <2>6, <3>1
    <3> DEFINE k == (n + 1) + 1
    <3>3. k \in 1 .. Len(q) /\ k # 1 /\ k - 1 = n + 1
      BY <3>1
    <3> HIDE DEF k
    <3>4. F[k] = F[k - 1] \o q[k] /\ g[k] = g[k - 1] \o q[k]
      BY <1>1, <2>4, <3>3
    <3>5. F[k] = g[k]
      BY <3>2, <3>3, <3>4
    <3>6. QED
      BY <3>5 DEF k
  <2>7. Nat \subseteq T
    <3> HIDE DEF T
    <3>1. QED
      BY <2>5, <2>6, SetInduction, Zenon
  <2>8. PICK n \in Nat : n + 1 = Len(q)
    <3>1. Len(q) - 1 \in Nat /\ (Len(q) - 1) + 1 = Len(q)
      BY <1>1, <1>3
    <3>2. QED
      BY <3>1
  <2>9. F[n + 1] = g[n + 1]
    BY <2>7, <2>8
  <2>10. QED
    BY <2>3, <2>8, <2>9
<1>4. QED
  BY <1>2, <1>3

\* What a queue of texts put together is.
LEMMA FlattenType ==
    ASSUME NEW S, NEW q \in Seq(Seq(S))
    PROVE  FlattenSeq(q) \in Seq(S)
<1>1. PICK g : Builds(g, q, S)
  BY BuildsExists
<1>2. Len(q) \in 0 .. Len(q) /\ g \in [0 .. Len(q) -> Seq(S)]
  BY <1>1 DEF Builds
<1>3. QED
  BY <1>1, <1>2, FlattenBuilds

\* The empty queue holds no text.
LEMMA FlattenEmpty == FlattenSeq(<<>>) = <<>>
  BY DEF FlattenSeq

\* One text more at the end.
LEMMA FlattenAppend ==
    ASSUME NEW S, NEW q \in Seq(Seq(S)), NEW x \in Seq(S)
    PROVE  FlattenSeq(Append(q, x)) = FlattenSeq(q) \o x
<1> DEFINE r == Append(q, x)
<1>1. /\ r \in Seq(Seq(S)) /\ Len(q) \in Nat /\ Len(r) = Len(q) + 1 /\ r[Len(q) + 1] = x
      /\ \A i \in 1 .. Len(q) : q[i] = r[i]
  OBVIOUS
<1> HIDE DEF r
<1>2. PICK g : Builds(g, q, S)
  BY BuildsExists
<1>3. PICK h : Builds(h, r, S)
  BY <1>1, BuildsExists
<1>4. g[Len(q)] = h[Len(q)]
  <2>1. Len(q) <= Len(q) /\ Len(q) <= Len(r)
    BY <1>1
  <2>2. Len(q) \in Nat /\ r \in Seq(Seq(S)) /\ \A i \in 1 .. Len(q) : q[i] = r[i]
    BY <1>1
  <2>3. QED
    BY <1>2, <1>3, <2>1, <2>2, BuildsAgree, SMTT(20)
<1>5. h[Len(q) + 1] = h[Len(q)] \o x
  <2>1. Len(q) + 1 \in 1 .. Len(r) /\ (Len(q) + 1) - 1 = Len(q)
    BY <1>1
  <2>2. QED
    BY <1>1, <1>3, <2>1 DEF Builds
<1>6. FlattenSeq(q) = g[Len(q)] /\ FlattenSeq(r) = h[Len(q) + 1]
  BY <1>1, <1>2, <1>3, FlattenBuilds
<1>7. QED
  BY <1>4, <1>5, <1>6 DEF r

\* A queue is its front and one element, unless it is empty.
LEMMA FrontAndLast ==
    ASSUME NEW S, NEW q \in Seq(S), NEW n \in Nat, Len(q) = n + 1
    PROVE  LET f == SubSeq(q, 1, n)
           IN  f \in Seq(S) /\ Len(f) = n /\ q[n + 1] \in S /\ q = Append(f, q[n + 1])
<1> DEFINE f == SubSeq(q, 1, n)
<1>1. f \in Seq(S) /\ Len(f) = n /\ (\A i \in 1 .. n : f[i] = q[i]) /\ q[n + 1] \in S
  OBVIOUS
<1> HIDE DEF f
<1> DEFINE a == Append(f, q[n + 1])
<1>2. a \in Seq(S) /\ Len(a) = n + 1 /\ (\A i \in 1 .. n : a[i] = f[i]) /\ a[n + 1] = q[n + 1]
  BY <1>1
<1> HIDE DEF a
<1>3. \A i \in 1 .. n + 1 : a[i] = q[i]
  BY <1>1, <1>2
<1>4. a = q
  BY <1>2, <1>3, SeqEqual
<1>5. QED
  BY <1>1, <1>4 DEF a, f

\* Three queues, one behind the other.
LEMMA Group ==
    ASSUME NEW S, NEW a \in Seq(S), NEW b \in Seq(S), NEW c \in Seq(S)
    PROVE  (a \o b) \o c = a \o (b \o c)
  BY ConcatAssociative

\* The same as a fact about every three of them.
LEMMA Groups ==
    ASSUME NEW S
    PROVE  \A a, b, c \in Seq(S) : (a \o b) \o c = a \o (b \o c)
  BY Group

\* One element more at the end of the second of two.
LEMMA AppendGroup ==
    ASSUME NEW S, NEW a \in Seq(S), NEW b \in Seq(S), NEW x \in S
    PROVE  a \o b \in Seq(S) /\ a \o Append(b, x) = Append(a \o b, x)
<1>1. a \o b \in Seq(S) /\ <<x>> \in Seq(S)
  OBVIOUS
<1>2. Append(b, x) = b \o <<x>> /\ Append(a \o b, x) = (a \o b) \o <<x>>
  BY <1>1, AppendIsConcat
<1> DEFINE y == <<x>>
<1>3. y \in Seq(S)
  BY <1>1
<1> HIDE DEF y
<1>4. (a \o b) \o y = a \o (b \o y)
  BY <1>3, Group
<1>5. QED
  BY <1>1, <1>2, <1>4 DEF y

\* The second of two queues gets one text more.
LEMMA FlattenConcatAppend ==
    ASSUME NEW S, NEW p \in Seq(Seq(S)), NEW f \in Seq(Seq(S)), NEW x \in Seq(S),
           FlattenSeq(p \o f) = FlattenSeq(p) \o FlattenSeq(f)
    PROVE  FlattenSeq(p \o Append(f, x)) = FlattenSeq(p) \o FlattenSeq(Append(f, x))
<1> DEFINE W == Seq(S)
           a == FlattenSeq(p)
           b == FlattenSeq(f)
<1>1. p \in Seq(W) /\ f \in Seq(W) /\ x \in W
  OBVIOUS
<1>2. p \o f \in Seq(W) /\ p \o Append(f, x) = Append(p \o f, x)
  <2> HIDE DEF W
  <2>1. QED
    BY <1>1, AppendGroup
<1>3. FlattenSeq(p \o Append(f, x)) = (a \o b) \o x
  BY <1>1, <1>2, FlattenAppend
<1>4. FlattenSeq(Append(f, x)) = b \o x
  BY FlattenAppend
<1>5. a \in Seq(S) /\ b \in Seq(S) /\ x \in Seq(S)
  BY FlattenType
<1> HIDE DEF a, b
<1>6. (a \o b) \o x = a \o (b \o x)
  <2>1. \A r, s, t \in Seq(S) : (r \o s) \o t = r \o (s \o t)
    BY Groups, SMTT(30)
  <2>2. QED
    BY <1>5, <2>1, Zenon
<1>7. QED
  BY <1>3, <1>4, <1>6 DEF a, b

\* Two queues, one behind the other.
LEMMA FlattenConcat ==
    ASSUME NEW S, NEW p \in Seq(Seq(S)), NEW q \in Seq(Seq(S))
    PROVE  FlattenSeq(p \o q) = FlattenSeq(p) \o FlattenSeq(q)
<1> DEFINE P(n) == \A r \in Seq(Seq(S)) : Len(r) = n => FlattenSeq(p \o r) = FlattenSeq(p) \o FlattenSeq(r)
           T == {n \in Nat : P(n)}
<1>1. 0 \in T
  <2> SUFFICES ASSUME NEW r \in Seq(Seq(S)), Len(r) = 0
               PROVE  FlattenSeq(p \o r) = FlattenSeq(p) \o FlattenSeq(r)
    OBVIOUS
  <2>1. r = <<>> /\ p \o r = p
    OBVIOUS
  <2>2. FlattenSeq(p) \in Seq(S)
    BY FlattenType
  <2>3. FlattenSeq(p) \o <<>> = FlattenSeq(p)
    BY <2>2
  <2>4. QED
    BY <2>1, <2>3, FlattenEmpty
<1>2. ASSUME NEW n \in Nat, n \in T PROVE n + 1 \in T
  <2> SUFFICES ASSUME NEW r \in Seq(Seq(S)), Len(r) = n + 1
               PROVE  FlattenSeq(p \o r) = FlattenSeq(p) \o FlattenSeq(r)
    OBVIOUS
  <2> DEFINE f == SubSeq(r, 1, n)
             x == r[n + 1]
  <2>1. f \in Seq(Seq(S)) /\ Len(f) = n /\ x \in Seq(S) /\ r = Append(f, x)
    BY FrontAndLast
  <2> HIDE DEF f, x
  <2>2. FlattenSeq(p \o f) = FlattenSeq(p) \o FlattenSeq(f)
    BY <1>2, <2>1
  <2>3. QED
    BY <2>1, <2>2, FlattenConcatAppend
<1> HIDE DEF P
<1>3. Nat \subseteq T
  <2> HIDE DEF T
  <2>1. QED
    BY <1>1, <1>2, SetInduction, Zenon
<1>4. P(Len(q))
  <2>1. Len(q) \in Nat
    OBVIOUS
  <2>2. QED
    BY <1>3, <2>1
<1>5. QED
  BY <1>4 DEF P

\* The first text comes first.
LEMMA FlattenFront ==
    ASSUME NEW S, NEW q \in Seq(Seq(S)), q # <<>>
    PROVE  FlattenSeq(q) = Head(q) \o FlattenSeq(Tail(q))
<1> DEFINE e == <<>>
           h == Head(q)
           t == Tail(q)
           f == Append(e, h)
<1>1. h \in Seq(S) /\ t \in Seq(Seq(S)) /\ e \in Seq(Seq(S))
  OBVIOUS
<1>2. f \in Seq(Seq(S)) /\ q = f \o t
  BY <1>1
<1> HIDE DEF h, t
<1>3. FlattenSeq(f) = FlattenSeq(e) \o h /\ FlattenSeq(e) = <<>>
  BY <1>1, FlattenAppend, FlattenEmpty
<1>4. FlattenSeq(f) = h
  <2>1. <<>> \o h = h
    BY <1>1, ConcatEmptySeq
  <2>2. QED
    BY <1>3, <2>1
<1> HIDE DEF f
<1>5. FlattenSeq(f \o t) = FlattenSeq(f) \o FlattenSeq(t)
  BY <1>1, <1>2, FlattenConcat
<1>6. QED
  BY <1>2, <1>4, <1>5 DEF h, t

-----------------------------------------------------------------------------
(* What completed reads hold *)

\* The text a handler gives to the application.
ReadPart(h) == IF h.kind = "read" THEN h.data ELSE <<>>
ReadParts(q) == [i \in DOMAIN q |-> ReadPart(q[i])]

\* The texts of a queue of handlers, position by position.
LEMMA ReadPartsType ==
    ASSUME NEW q \in Seq(AnyHandler)
    PROVE  /\ ReadParts(q) \in Seq(Seq(Byte)) /\ Len(ReadParts(q)) = Len(q)
           /\ \A i \in 1 .. Len(q) : ReadParts(q)[i] = ReadPart(q[i])
           /\ ReadText(q) = FlattenSeq(ReadParts(q))
<1>1. Len(q) \in Nat /\ DOMAIN q = 1 .. Len(q) /\ \A i \in 1 .. Len(q) : q[i] \in AnyHandler
  BY LenProperties, ElementOfSeq
<1>2. ASSUME NEW h \in AnyHandler PROVE ReadPart(h) \in Seq(Byte)
  <2>1. CASE h \in Handler
    BY <2>1 DEF Handler, ReadPart
  <2>2. CASE h \in RxHandler
    <3>1. h.kind # "read"
      BY <2>2 DEF RxHandler
    <3>2. QED
      BY <3>1 DEF ReadPart
  <2>3. QED
    BY <2>1, <2>2 DEF AnyHandler
<1> DEFINE W == Seq(Byte)
<1>3. ReadParts(q) \in [1 .. Len(q) -> W]
  BY <1>1, <1>2 DEF ReadParts
<1>4. /\ \A i \in 1 .. Len(q) : ReadParts(q)[i] = ReadPart(q[i])
      /\ DOMAIN ReadParts(q) = 1 .. Len(q)
  BY <1>1 DEF ReadParts
<1>5. ReadParts(q) \in Seq(W)
  <2> HIDE DEF W
  <2>1. QED
    BY <1>1, <1>3, FunctionIsSeq
<1>6. Len(ReadParts(q)) = Len(q)
  <2> DEFINE r == ReadParts(q)
  <2>1. DOMAIN r = 1 .. Len(r) /\ Len(r) \in Nat
    <3> HIDE DEF W
    <3>1. QED
      BY <1>5, LenProperties
  <2>2. QED
    BY <1>1, <1>4, <2>1
<1>7. ReadText(q) = FlattenSeq(ReadParts(q))
  BY DEF ReadText, ReadParts, ReadPart
<1>8. QED
  BY <1>4, <1>5, <1>6, <1>7

\* A queue of handlers holds a text.
LEMMA ReadTextType ==
    ASSUME NEW q \in Seq(AnyHandler)
    PROVE  ReadText(q) \in Seq(Byte)
  BY ReadPartsType, FlattenType

\* Two queues of handlers, one behind the other.
LEMMA ReadTextConcat ==
    ASSUME NEW p \in Seq(AnyHandler), NEW q \in Seq(AnyHandler)
    PROVE  p \o q \in Seq(AnyHandler) /\ ReadText(p \o q) = ReadText(p) \o ReadText(q)
<1> DEFINE r == p \o q
           W == Seq(Byte)
           a == ReadParts(p)
           b == ReadParts(q)
           c == ReadParts(r)
<1>1. /\ r \in Seq(AnyHandler) /\ Len(p) \in Nat /\ Len(q) \in Nat /\ Len(r) = Len(p) + Len(q)
      /\ \A i \in 1 .. Len(p) + Len(q) : r[i] = IF i <= Len(p) THEN p[i] ELSE q[i - Len(p)]
  BY ConcatProperties, LenProperties
<1> HIDE DEF r
<1>2. /\ a \in Seq(W) /\ Len(a) = Len(p) /\ \A i \in 1 .. Len(p) : a[i] = ReadPart(p[i])
      /\ b \in Seq(W) /\ Len(b) = Len(q) /\ \A i \in 1 .. Len(q) : b[i] = ReadPart(q[i])
      /\ c \in Seq(W) /\ Len(c) = Len(r) /\ \A i \in 1 .. Len(r) : c[i] = ReadPart(r[i])
  BY <1>1, ReadPartsType
<1>3. ReadText(p) = FlattenSeq(a) /\ ReadText(q) = FlattenSeq(b) /\ ReadText(r) = FlattenSeq(c)
  BY <1>1, ReadPartsType
<1>4. FlattenSeq(a \o b) = FlattenSeq(a) \o FlattenSeq(b)
  BY <1>2, FlattenConcat
<1> HIDE DEF W, a, b, c
<1> DEFINE d == a \o b
<1>5. d \in Seq(W) /\ IsConcat(a, b, d)
  BY <1>2, ConcatIs
<1> HIDE DEF d
<1>10. /\ \A i \in 1 .. Len(p) : d[i] = a[i]
       /\ \A i \in 1 .. Len(p) + Len(q) : i \notin 1 .. Len(p) => d[i] = b[i - Len(p)]
  <2>1. DOMAIN a = 1 .. Len(p) /\ DOMAIN d = 1 .. Len(p) + Len(q) /\ Len(a) = Len(p)
    BY <1>2, <1>5 DEF IsConcat
  <2>2. QED
    BY <1>5, <2>1 DEF IsConcat
<1>6. d \in Seq(W) /\ Len(d) = Len(c)
  BY <1>1, <1>2, <1>5 DEF IsConcat
<1>7. ASSUME NEW i \in 1 .. Len(c) PROVE d[i] = c[i]
  <2>1. i \in 1 .. Len(p) + Len(q) /\ i \in 1 .. Len(r)
    BY <1>1, <1>2
  <2>2. CASE i <= Len(p)
    <3>1. i \in 1 .. Len(p)
      BY <2>2, <1>1
    <3>2. QED
      BY <1>1, <1>2, <1>10, <2>1, <2>2, <3>1
  <2>3. CASE ~(i <= Len(p))
    <3>1. i - Len(p) \in 1 .. Len(q)
      BY <2>1, <2>3, <1>1
    <3>2. i \notin 1 .. Len(p) /\ d[i] = b[i - Len(p)]
      BY <1>1, <1>10, <2>1, <2>3
    <3>3. QED
      BY <1>1, <1>2, <2>1, <2>3, <3>1, <3>2
  <2>4. QED
    BY <2>2, <2>3
<1>8. d = c
  BY <1>2, <1>6, <1>7, SeqEqual
<1>9. QED
  BY <1>1, <1>3, <1>4, <1>8 DEF d, r

\* The empty queue gives nothing.
LEMMA ReadTextEmpty == ReadText(<<>>) = <<>>
<1>1. <<>> \in Seq(AnyHandler) /\ Len(<<>>) = 0
  BY EmptySeq
<1> DEFINE W == Seq(Byte)
           r == ReadParts(<<>>)
<1>2. r \in Seq(W) /\ Len(r) = 0 /\ ReadText(<<>>) = FlattenSeq(r)
  BY <1>1, ReadPartsType
<1> HIDE DEF W, r
<1>3. r = <<>>
  BY <1>2, EmptySeq
<1>4. QED
  BY <1>2, <1>3, FlattenEmpty

\* A queue of one handler gives what that handler gives.
LEMMA ReadTextOne ==
    ASSUME NEW h \in AnyHandler
    PROVE  <<h>> \in Seq(AnyHandler) /\ ReadText(<<h>>) = ReadPart(h) /\ ReadPart(h) \in Seq(Byte)
<1>1. <<h>> \in Seq(AnyHandler) /\ Len(<<h>>) = 1 /\ <<h>>[1] = h
  OBVIOUS
<1> DEFINE W == Seq(Byte)
           q == <<h>>
           r == ReadParts(q)
           e == <<>>
<1>2. q \in Seq(AnyHandler) /\ Len(q) = 1 /\ q[1] = h /\ 1 \in 1 .. 1
  BY <1>1
<1> HIDE DEF q
<1>8. r \in Seq(W) /\ Len(r) = 1 /\ r[1] = ReadPart(h) /\ ReadText(q) = FlattenSeq(r)
  BY <1>2, ReadPartsType
<1> HIDE DEF r
<1>3. r # <<>> /\ Head(r) = r[1] /\ Tail(r) = <<>> /\ r[1] \in W
  <2> HIDE DEF W
  <2>1. QED
    BY <1>8, OneElement
<1>4. FlattenSeq(r) = Head(r) \o FlattenSeq(Tail(r))
  BY <1>8, <1>3, FlattenFront
<1>5. FlattenSeq(r) = r[1] \o <<>>
  BY <1>3, <1>4, FlattenEmpty
<1>6. r[1] \o <<>> = r[1]
  BY <1>3, ConcatEmptySeq
<1>7. QED
  BY <1>1, <1>8, <1>3, <1>5, <1>6 DEF q

\* The handler at the front comes first.
LEMMA ReadTextFront ==
    ASSUME NEW q \in Seq(AnyHandler), q # <<>>
    PROVE  ReadText(q) = ReadPart(Head(q)) \o ReadText(Tail(q))
<1> DEFINE h == Head(q)
           t == Tail(q)
           f == <<h>>
<1>1. h \in AnyHandler /\ t \in Seq(AnyHandler) /\ f \in Seq(AnyHandler) /\ q = f \o t
  OBVIOUS
<1> HIDE DEF h, t
<1>2. ReadText(f) = ReadPart(h)
  BY <1>1, ReadTextOne
<1> HIDE DEF f
<1>3. ReadText(f \o t) = ReadText(f) \o ReadText(t)
  BY <1>1, ReadTextConcat
<1>4. QED
  BY <1>1, <1>2, <1>3 DEF h, t

-----------------------------------------------------------------------------
(* The line from one host to the other *)

\* The received segments that wait in queue q, and the first of them.
Rxs(q) == {h \in Range(q) : h.kind = "rx"}
RxPart(q) == IF Rxs(q) = {} THEN <<>> ELSE <<(CHOOSE h \in Rxs(q) : TRUE).seg>>

\* At most one of them waits: the device is read again when its handler returns.
OneRx(q) == \A i, j \in DOMAIN q : q[i].kind = "rx" /\ q[j].kind = "rx" => i = j

\* What has left the TCB of host n towards its application.
Stored(n) == got[n] \o ReadText(ioq[n])

\* The line in terms of the queue, now and after a step.
LEMMA LineIs ==
    \A n : /\ Line(n) = RxPart(ioq[n]) \o net[n]
           /\ Line(n)' = RxPart(ioq'[n]) \o net'[n]
  BY Zenon DEF Line, RxPart, Rxs

\* What waits is a segment.
LEMMA RxPartType ==
    ASSUME NEW q \in Seq(AnyHandler)
    PROVE  RxPart(q) \in Seq(Segment)
<1>1. Range(q) \subseteq AnyHandler
  BY OverRange
<1>2. \A h \in Rxs(q) : h.seg \in Segment
  BY <1>1 DEF Rxs, AnyHandler, Handler, HandlerKind, RxHandler
<1>3. CASE Rxs(q) = {}
  BY <1>3 DEF RxPart
<1>4. CASE Rxs(q) # {}
  <2> DEFINE h == CHOOSE x \in Rxs(q) : TRUE
  <2>1. h \in Rxs(q)
    BY <1>4
  <2> HIDE DEF h
  <2>2. RxPart(q) = <<h.seg>> /\ h.seg \in Segment
    BY <1>2, <1>4, <2>1 DEF RxPart, h
  <2>3. QED
    BY <2>2
<1>5. QED
  BY <1>3, <1>4

\* Handlers that a TCB posts are not among them.
LEMMA RxPosts ==
    ASSUME NEW q \in Seq(AnyHandler), NEW p \in Seq(Handler)
    PROVE  /\ p \in Seq(AnyHandler) /\ q \o p \in Seq(AnyHandler)
           /\ RxPart(q \o p) = RxPart(q)
           /\ OneRx(q) => OneRx(q \o p)
<1> DEFINE r == q \o p
<1>1. p \in Seq(AnyHandler)
  BY SeqMonotone DEF AnyHandler
<1>2. r \in Seq(AnyHandler) /\ IsConcat(q, p, r)
  BY <1>1, ConcatIs
<1> HIDE DEF r
<1>3. \A i \in DOMAIN p : p[i].kind # "rx"
  <2>1. \A i \in DOMAIN p : p[i] \in Handler
    BY LenProperties, ElementOfSeq
  <2>2. QED
    BY <2>1 DEF Handler, HandlerKind
<1>4. \A i \in DOMAIN r : r[i].kind = "rx" => i \in DOMAIN q /\ r[i] = q[i]
  BY <1>2, <1>3 DEF IsConcat
<1>5. \A i \in DOMAIN q : i \in DOMAIN r /\ r[i] = q[i]
  BY <1>2 DEF IsConcat
<1>6. Rxs(r) = Rxs(q)
  BY <1>4, <1>5 DEF Rxs, Range
<1>7. RxPart(r) = RxPart(q)
  BY <1>6 DEF RxPart
<1>8. OneRx(q) => OneRx(r)
  BY <1>4 DEF OneRx
<1>9. QED
  BY <1>1, <1>2, <1>7, <1>8 DEF r

\* The front of a queue is taken.
LEMMA RxTail ==
    ASSUME NEW q \in Seq(AnyHandler), q # <<>>, OneRx(q)
    PROVE  /\ OneRx(Tail(q)) /\ Tail(q) \in Seq(AnyHandler)
           /\ Head(q).kind = "rx" => RxPart(q) = <<Head(q).seg>> /\ RxPart(Tail(q)) = <<>>
           /\ Head(q).kind # "rx" => RxPart(Tail(q)) = RxPart(q)
<1> DEFINE t == Tail(q)
<1>1. IsTail(q, t) /\ Head(q) = q[1] /\ t \in Seq(AnyHandler)
  BY TailIs
<1>2. /\ 1 \in DOMAIN q
      /\ \A i \in DOMAIN t : i \in Nat \ {0} /\ i + 1 \in DOMAIN q /\ t[i] = q[i + 1]
      /\ \A i \in DOMAIN q : i \in Nat \ {0} /\ (i # 1 => i - 1 \in DOMAIN t /\ t[i - 1] = q[i])
  BY <1>1 DEF IsTail
<1> HIDE DEF t
<1>3. OneRx(t)
  <2> SUFFICES ASSUME NEW i \in DOMAIN t, NEW j \in DOMAIN t, t[i].kind = "rx", t[j].kind = "rx"
               PROVE  i = j
    BY DEF OneRx
  <2>1. i + 1 = j + 1
    BY <1>2 DEF OneRx
  <2>2. i \in Nat /\ j \in Nat
    BY <1>2
  <2>3. QED
    BY <2>1, <2>2
<1>4. ASSUME q[1].kind = "rx" PROVE RxPart(q) = <<q[1].seg>> /\ RxPart(t) = <<>>
  <2>1. ASSUME NEW i \in DOMAIN t, t[i].kind = "rx" PROVE FALSE
    <3>1. i + 1 = 1
      BY <1>2, <1>4, <2>1 DEF OneRx
    <3>2. i \in Nat \ {0}
      BY <1>2
    <3>3. QED
      BY <3>1, <3>2
  <2>2. Rxs(t) = {}
    BY <2>1 DEF Rxs, Range
  <2>3. Rxs(q) = {q[1]}
    BY <1>2, <1>4 DEF Rxs, Range, OneRx
  <2>4. (CHOOSE h \in Rxs(q) : TRUE) = q[1]
    BY <2>3
  <2>5. QED
    BY <2>2, <2>3, <2>4 DEF RxPart
<1>5. ASSUME q[1].kind # "rx" PROVE RxPart(t) = RxPart(q)
  <2>1. \A i \in DOMAIN q : q[i].kind = "rx" => i - 1 \in DOMAIN t /\ t[i - 1] = q[i]
    BY <1>2, <1>5
  <2>2. Rxs(q) \subseteq Rxs(t)
    BY <2>1 DEF Rxs, Range
  <2>3. Rxs(t) \subseteq Rxs(q)
    BY <1>2 DEF Rxs, Range
  <2>4. Rxs(t) = Rxs(q)
    BY <2>2, <2>3
  <2>5. QED
    BY <2>4 DEF RxPart
<1>6. QED
  BY <1>1, <1>3, <1>4, <1>5 DEF t

\* A received segment joins a queue that has none.
LEMMA RxJoins ==
    ASSUME NEW q \in Seq(AnyHandler), \A i \in DOMAIN q : q[i].kind # "rx",
           NEW h \in RxHandler
    PROVE  /\ RxPart(q) = <<>> /\ RxPart(Append(q, h)) = <<h.seg>>
           /\ OneRx(Append(q, h))
           /\ ReadText(Append(q, h)) = ReadText(q)
<1> DEFINE r == Append(q, h)
<1>1. h.kind = "rx" /\ h \in AnyHandler
  BY DEF RxHandler, AnyHandler
<1>2. IsAppend(q, h, r)
  BY AppendIs
<1>3. r \in Seq(AnyHandler) /\ r = q \o <<h>>
  BY <1>1, AppendProperties, AppendIsConcat
<1> HIDE DEF r
<1>4. Rxs(q) = {}
  BY DEF Rxs, Range
<1>5. /\ Len(q) + 1 \in DOMAIN r /\ r[Len(q) + 1] = h
      /\ \A i \in DOMAIN r : i # Len(q) + 1 => r[i].kind # "rx"
  BY <1>2 DEF IsAppend
<1>6. Rxs(r) = {h}
  BY <1>1, <1>5 DEF Rxs, Range
<1>7. (CHOOSE x \in Rxs(r) : TRUE) = h
  BY <1>6
<1>8. RxPart(q) = <<>> /\ RxPart(r) = <<h.seg>>
  BY <1>4, <1>6, <1>7 DEF RxPart
<1>9. OneRx(r)
  BY <1>5 DEF OneRx
<1>10. ReadText(r) = ReadText(q)
  <2>1. ReadText(<<h>>) = <<>> /\ <<h>> \in Seq(AnyHandler)
    BY <1>1, ReadTextOne DEF ReadPart
  <2>2. ReadText(r) = ReadText(q) \o ReadText(<<h>>)
    BY <1>3, <2>1, ReadTextConcat
  <2>3. ReadText(q) \in Seq(Byte)
    BY ReadTextType
  <2>4. QED
    BY <2>1, <2>2, <2>3, ConcatEmptySeq
<1>11. QED
  BY <1>8, <1>9, <1>10 DEF r

\* What a step of host n, which leaves context c behind, does to the lines and to
\* what was given to the applications.
Moved(n, c) ==
    /\ abort[n] = "none" /\ faults' = faults
    /\ Line(Peer(n))' = Line(Peer(n)) \o c.out
    /\ Stored(Peer(n))' = Stored(Peer(n))
    /\ Stored(n)' = Stored(n) \o ReadText(c.posts)
    /\ \A m \in Node : OneRx(ioq'[m])

\* The context of a step that takes the first segment of the line.
FromFront(n, c) ==
    /\ Line(n) # <<>> /\ Line(n)' = Tail(Line(n)) /\ Head(Line(n)) \in Coming(n)
    /\ \E t \in lookup(n), isn \in Isns :
            \E una \in clamp(Head(Line(n)).ack_no, t.seq_nr_unack, t.seq_nr_next) :
                c = process(Call(t), Head(Line(n)), isn, una)
    /\ UNCHANGED <<sock, written>>

\* A step of a host takes a segment or has to do with none.
HostMove(n, c) ==
    /\ HostStep(n, c) /\ Moved(n, c)
    /\ \/ FromFront(n, c)
       \/ Line(n)' = Line(n) /\ (FromConnect(n, c) \/ FromCall(n, c) \/ FromSend(n, c))

\* The types of the parts of a line.
LEMMA LineType ==
    ASSUME TypeOK, NEW n \in Node
    PROVE  /\ ioq[n] \in Seq(AnyHandler) /\ net[n] \in Seq(Segment) /\ got[n] \in Seq(Byte)
           /\ Line(n) \in Seq(Segment) /\ Stored(n) \in Seq(Byte) /\ ReadText(ioq[n]) \in Seq(Byte)
<1>1. ioq[n] \in Seq(AnyHandler) /\ net[n] \in Seq(Segment) /\ got[n] \in Seq(Byte)
  BY DEF TypeOK, AnyHandler
<1>2. RxPart(ioq[n]) \in Seq(Segment) /\ ReadText(ioq[n]) \in Seq(Byte)
  BY <1>1, RxPartType, ReadTextType
<1>3. QED
  BY <1>1, <1>2, LineIs, ConcatProperties DEF Stored

\* What Commit does to the queues.
LEMMA CommitMoved ==
    ASSUME TypeOK, NEW n \in Node, NEW c \in Context, NEW q \in Seq(AnyHandler), OneRx(q),
           \A m \in Node : OneRx(ioq[m]), Commit(n, c, q)
    PROVE  /\ Line(Peer(n))' = Line(Peer(n)) \o c.out
           /\ Line(n)' = RxPart(q) \o net[n]
           /\ ioq'[Peer(n)] = ioq[Peer(n)]
           /\ ReadText(ioq'[n]) = ReadText(q) \o ReadText(c.posts)
           /\ ReadText(c.posts) \in Seq(Byte)
           /\ \A m \in Node : OneRx(ioq'[m])
<1>1. Peer(n) \in Node /\ Peer(n) # n /\ \A m \in Node : m = n \/ m = Peer(n)
  BY DEF Peer, Node
<1>2. /\ ioq \in [Node -> Seq(AnyHandler)] /\ net \in [Node -> Seq(Segment)]
      /\ c.posts \in Seq(Handler) /\ c.out \in Seq(Segment)
  BY DEF TypeOK, AnyHandler, Context
<1>3. /\ ioq'[n] = q \o c.posts /\ ioq'[Peer(n)] = ioq[Peer(n)]
      /\ net'[n] = net[n] /\ net'[Peer(n)] = net[Peer(n)] \o c.out
  BY <1>1, <1>2 DEF Commit
<1>4. /\ c.posts \in Seq(AnyHandler) /\ RxPart(q \o c.posts) = RxPart(q) /\ OneRx(q \o c.posts)
  BY <1>2, RxPosts
<1>5. Line(n)' = RxPart(q) \o net[n]
  BY <1>3, <1>4, LineIs
<1>6. Line(Peer(n))' = Line(Peer(n)) \o c.out
  <2> DEFINE a == RxPart(ioq[Peer(n)])
             b == net[Peer(n)]
             d == c.out
  <2>1. a \in Seq(Segment) /\ b \in Seq(Segment) /\ d \in Seq(Segment)
    BY <1>1, <1>2, RxPartType
  <2>2. Line(Peer(n))' = a \o (b \o d) /\ Line(Peer(n)) = a \o b
    BY <1>3, LineIs
  <2> HIDE DEF a, b, d
  <2>3. (a \o b) \o d = a \o (b \o d)
    <3>1. \A x, y, z \in Seq(Segment) : (x \o y) \o z = x \o (y \o z)
      BY Groups
    <3>2. QED
      BY <2>1, <3>1, Zenon
  <2>4. QED
    BY <2>2, <2>3 DEF d
<1>7. ReadText(ioq'[n]) = ReadText(q) \o ReadText(c.posts) /\ ReadText(c.posts) \in Seq(Byte)
  BY <1>3, <1>4, ReadTextConcat, ReadTextType
<1>8. \A m \in Node : OneRx(ioq'[m])
  BY <1>1, <1>3, <1>4
<1>9. QED
  BY <1>3, <1>5, <1>6, <1>7, <1>8

\* A step that takes no handler, or one that has nothing to give.
LEMMA StoredGrows ==
    ASSUME TypeOK, NEW n \in Node, NEW c \in Context, NEW q \in Seq(AnyHandler), OneRx(q),
           \A m \in Node : OneRx(ioq[m]), Commit(n, c, q), faults' = faults, abort[n] = "none",
           got'[Peer(n)] = got[Peer(n)], got'[n] \o ReadText(q) = Stored(n),
           got'[n] \in Seq(Byte)
    PROVE  Moved(n, c)
<1> DEFINE x == got'[n]
           y == ReadText(q)
           z == ReadText(c.posts)
<1>1. /\ ReadText(ioq'[n]) = y \o z /\ ioq'[Peer(n)] = ioq[Peer(n)]
      /\ Line(Peer(n))' = Line(Peer(n)) \o c.out /\ \A m \in Node : OneRx(ioq'[m])
  BY CommitMoved
<1>2. x \in Seq(Byte) /\ y \in Seq(Byte) /\ z \in Seq(Byte)
  BY ReadTextType, CommitMoved
<1>3. Stored(n)' = x \o (y \o z) /\ Stored(n) = x \o y
  BY <1>1 DEF Stored
<1>4. Stored(Peer(n))' = Stored(Peer(n))
  BY <1>1 DEF Stored
<1> HIDE DEF x, y, z
<1>5. (x \o y) \o z = x \o (y \o z)
  <2>1. \A r, s, t \in Seq(Byte) : (r \o s) \o t = r \o (s \o t)
    BY Groups, SMTT(30)
  <2>2. QED
    BY <1>2, <2>1, Zenon
<1>6. Stored(n)' = Stored(n) \o ReadText(c.posts)
  BY <1>3, <1>5 DEF z
<1>7. QED
  BY <1>1, <1>4, <1>6 DEF Moved

\* The handler at the front of the queue of host n runs.
LEMMA RunMoved ==
    ASSUME TypeOK, \A m \in Node : OneRx(ioq[m]), NEW n \in Node, NEW c \in Context,
           ioq[n] # <<>>, abort[n] = "none", faults' = faults, Commit(n, c, Tail(ioq[n])),
           got' = [got EXCEPT ![n] = @ \o ReadPart(Head(ioq[n]))]
    PROVE  /\ Moved(n, c)
           /\ Head(ioq[n]).kind # "rx" => Line(n)' = Line(n)
           /\ Head(ioq[n]).kind = "rx" =>
                 /\ Line(n) # <<>> /\ Line(n)' = Tail(Line(n)) /\ Head(Line(n)) = Head(ioq[n]).seg
<1> DEFINE q == Tail(ioq[n])
           h == Head(ioq[n])
<1>1. /\ ioq[n] \in Seq(AnyHandler) /\ net[n] \in Seq(Segment) /\ got[n] \in Seq(Byte)
      /\ got \in [Node -> Seq(Byte)] /\ Peer(n) # n /\ Peer(n) \in Node
  BY LineType DEF TypeOK, Peer, Node
<1>2. /\ OneRx(q) /\ q \in Seq(AnyHandler)
      /\ h.kind = "rx" => RxPart(ioq[n]) = <<h.seg>> /\ RxPart(q) = <<>>
      /\ h.kind # "rx" => RxPart(q) = RxPart(ioq[n])
  BY <1>1, RxTail
<1>3. h \in AnyHandler
  BY <1>1
<1>4. ReadText(ioq[n]) = ReadPart(h) \o ReadText(q) /\ ReadPart(h) \in Seq(Byte) /\ ReadText(q) \in Seq(Byte)
  BY <1>1, <1>2, <1>3, ReadTextFront, ReadTextOne, ReadTextType
<1>5. got'[n] = got[n] \o ReadPart(h) /\ got'[Peer(n)] = got[Peer(n)]
  BY <1>1
<1>6. Line(n)' = RxPart(q) \o net[n]
  BY <1>2, CommitMoved
<1>7. h.kind # "rx" => Line(n)' = Line(n)
  BY <1>2, <1>6, LineIs
<1>8. h.kind = "rx" => Line(n) # <<>> /\ Line(n)' = Tail(Line(n)) /\ Head(Line(n)) = h.seg
  <2> SUFFICES ASSUME h.kind = "rx"
               PROVE  Line(n) # <<>> /\ Line(n)' = Tail(Line(n)) /\ Head(Line(n)) = h.seg
    OBVIOUS
  <2>1. Line(n)' = net[n] /\ Line(n) = <<h.seg>> \o net[n]
    <3>1. <<>> \o net[n] = net[n]
      BY <1>1, ConcatEmptySeq
    <3>2. QED
      BY <1>2, <1>6, <3>1, LineIs
  <2>2. h.seg \in Segment
    BY <1>3 DEF AnyHandler, Handler, HandlerKind, RxHandler
  <2> DEFINE s == h.seg
             r == net[n]
  <2> HIDE DEF s, r, h
  <2>3. s \in Segment /\ r \in Seq(Segment)
    BY <1>1, <2>2 DEF s, r
  <2>4. <<s>> \o r # <<>> /\ Tail(<<s>> \o r) = r /\ Head(<<s>> \o r) = s
    BY <2>3
  <2>5. QED
    BY <2>1, <2>4 DEF s, r
<1> HIDE DEF h, q
<1>9. got'[n] \o ReadText(q) = Stored(n) /\ got'[n] \in Seq(Byte)
  <2> DEFINE x == got[n]
             y == ReadPart(h)
             z == ReadText(q)
  <2>1. x \in Seq(Byte) /\ y \in Seq(Byte) /\ z \in Seq(Byte)
    BY <1>1, <1>4
  <2>2. got'[n] = x \o y /\ Stored(n) = x \o (y \o z)
    BY <1>4, <1>5 DEF Stored
  <2>3. x \o y \in Seq(Byte)
    BY <2>1, ConcatProperties
  <2> HIDE DEF x, y, z
  <2>4. (x \o y) \o z = x \o (y \o z)
    <3>1. \A r, s, t \in Seq(Byte) : (r \o s) \o t = r \o (s \o t)
      BY Groups
    <3>2. QED
      BY <2>1, <3>1, Zenon
  <2>5. QED
    BY <2>2, <2>3, <2>4 DEF z
<1>10. Commit(n, c, q)
  BY DEF q
<1>11. Moved(n, c)
  BY <1>2, <1>5, <1>9, <1>10, StoredGrows
<1>12. QED
  BY <1>7, <1>8, <1>11 DEF h

\* t is the queue s with one of its elements there twice, one behind the other.
Doubled(s, t) ==
    /\ Len(s) \in Nat /\ DOMAIN s = 1 .. Len(s) /\ DOMAIN t = 1 .. Len(s) + 1
    /\ \E i \in DOMAIN s :
            /\ \A j \in DOMAIN t : j <= i => j \in DOMAIN s /\ t[j] = s[j]
            /\ \A j \in DOMAIN t : i < j => j - 1 \in DOMAIN s /\ t[j] = s[j - 1]

\* A step of the network or of a device.
NetMove ==
    /\ NetStep
    /\ \A n \in Node : Stored(n)' = Stored(n) /\ OneRx(ioq'[n])
    /\ \/ faults' = faults /\ \A n \in Node : Line(n)' = Line(n)
       \/ /\ faults' = [faults EXCEPT !["duplicate"] = @ + 1]
          /\ \A n \in Node : Line(n)' = Line(n) \/ Doubled(Line(n), Line(n)')
       \/ faults'["lose"] + faults'["swap"] # 0

\* The device of host n has read a segment.
LEMMA RxReadyMove ==
    ASSUME TypeOK, \A m \in Node : OneRx(ioq[m]), NEW n \in Node, RxReady(n)
    PROVE  NetMove
<1> DEFINE h == [kind |-> "rx", seg |-> Head(net[n])]
<1>1. /\ ioq \in [Node -> Seq(AnyHandler)] /\ net \in [Node -> Seq(Segment)]
      /\ ioq[n] \in Seq(AnyHandler) /\ net[n] \in Seq(Segment)
  BY DEF TypeOK, AnyHandler
<1>2. /\ net[n] # <<>> /\ got' = got /\ faults' = faults
      /\ ioq' = [ioq EXCEPT ![n] = Append(ioq[n], h)]
      /\ net' = [net EXCEPT ![n] = Tail(net[n])]
      /\ \A i \in DOMAIN ioq[n] : ioq[n][i].kind # "rx"
  BY DEF RxReady
<1>3. h \in RxHandler /\ h.seg = Head(net[n])
  BY <1>1, <1>2 DEF RxHandler
<1> HIDE DEF h
<1>4. /\ RxPart(ioq[n]) = <<>> /\ RxPart(Append(ioq[n], h)) = <<h.seg>>
      /\ OneRx(Append(ioq[n], h)) /\ ReadText(Append(ioq[n], h)) = ReadText(ioq[n])
  BY <1>1, <1>2, <1>3, RxJoins
<1>5. ASSUME NEW m \in Node PROVE Stored(m)' = Stored(m) /\ OneRx(ioq'[m]) /\ Line(m)' = Line(m)
  <2>1. CASE m = n
    <3>1. ioq'[m] = Append(ioq[n], h) /\ net'[m] = Tail(net[n])
      BY <1>1, <1>2, <2>1
    <3>2. Stored(m)' = Stored(m) /\ OneRx(ioq'[m])
      BY <1>2, <1>4, <2>1, <3>1 DEF Stored
    <3> DEFINE s == net[n]
    <3>3. s \in Seq(Segment) /\ s # <<>>
      BY <1>1, <1>2
    <3> HIDE DEF s
    <3>4. <<Head(s)>> \o Tail(s) = s /\ <<>> \o s = s
      BY <3>3
    <3>5. Line(m)' = <<Head(s)>> \o Tail(s) /\ Line(m) = <<>> \o s
      BY <1>3, <1>4, <2>1, <3>1, LineIs DEF s
    <3>6. QED
      BY <3>2, <3>4, <3>5
  <2>2. CASE m # n
    <3>1. ioq'[m] = ioq[m] /\ net'[m] = net[m]
      BY <1>1, <1>2, <2>2
    <3>2. QED
      BY <1>2, <3>1, LineIs DEF Stored
  <2>3. QED
    BY <2>1, <2>2
<1>6. QED
  BY <1>2, <1>5, RxReadyStep DEF NetMove

\* An element of the second of two queues is there twice.
LEMMA DoubledBehind ==
    ASSUME NEW S, NEW a \in Seq(S), NEW s \in Seq(S), NEW i \in DOMAIN s
    PROVE  Doubled(a \o s, a \o InsertAt(s, i, s[i]))
<1> DEFINE x == SubSeq(s, 1, i - 1)
           y == SubSeq(s, i, Len(s))
           e == <<s[i]>>
           t == (x \o e) \o y
           l == a \o s
           m == a \o t
           k == Len(a)
<1>1. Len(s) \in Nat /\ DOMAIN s = 1 .. Len(s) /\ i \in 1 .. Len(s) /\ \A j \in 1 .. Len(s) : s[j] \in S
  OBVIOUS
<1>2. /\ x \in Seq(S) /\ Len(x) = i - 1 /\ \A j \in 1 .. i - 1 : x[j] = s[j]
      /\ y \in Seq(S) /\ Len(y) = Len(s) - i + 1 /\ \A j \in 1 .. Len(s) - i + 1 : y[j] = s[i + j - 1]
  BY <1>1, SMTT(30)
<1>3. e \in Seq(S) /\ Len(e) = 1 /\ e[1] = s[i]
  BY <1>1
<1>4. InsertAt(s, i, s[i]) = t
  BY DEF InsertAt
<1> HIDE DEF x, y, e
<1>5. x \o e \in Seq(S) /\ IsConcat(x, e, x \o e)
  BY <1>2, <1>3, ConcatIs
<1> DEFINE w == x \o e
<1>6. w \in Seq(S) /\ Len(w) = i /\ \A j \in 1 .. i : w[j] = s[j]
  <2>5. w \in Seq(S) /\ IsConcat(x, e, w)
    BY <1>5
  <2> HIDE DEF w
  <2>6. Len(w) = (i - 1) + 1 /\ (\A j \in 1 .. i - 1 : w[j] = x[j])
    BY <1>1, <1>2, <1>3, <2>5 DEF IsConcat
  <2>2. (i - 1) + 1 = i
    BY <1>1
  <2>7. i \in DOMAIN w /\ i \notin 1 .. i - 1 /\ i - (i - 1) = 1
    BY <1>1, <2>2, <2>5, <2>6
  <2>1. Len(w) = i /\ (\A j \in 1 .. i - 1 : w[j] = x[j]) /\ w[i] = e[1]
    BY <1>1, <1>2, <1>3, <2>2, <2>5, <2>6, <2>7 DEF IsConcat
  <2>3. \A j \in 1 .. i : j = i \/ j \in 1 .. i - 1
    BY <1>1
  <2>4. QED
    BY <1>2, <1>3, <2>1, <2>3, <2>5
<1> HIDE DEF w
<1>7. t = w \o y /\ t \in Seq(S) /\ IsConcat(w, y, t)
  BY <1>2, <1>6, ConcatIs DEF w
<1> HIDE DEF t
<1>8. Len(t) = Len(s) + 1 /\ DOMAIN t = 1 .. Len(s) + 1
  BY <1>1, <1>2, <1>6, <1>7 DEF IsConcat
<1>9. \A j \in 1 .. i : t[j] = s[j]
  BY <1>1, <1>6, <1>7 DEF IsConcat
<1>10. ASSUME NEW j \in i + 1 .. Len(s) + 1 PROVE t[j] = s[j - 1]
  <2>1. j \in DOMAIN t /\ j \notin 1 .. i /\ j - i \in 1 .. Len(s) - i + 1 /\ i + (j - i) - 1 = j - 1
    BY <1>1, <1>8
  <2>2. t[j] = y[j - i]
    BY <1>1, <1>6, <1>7, <2>1 DEF IsConcat
  <2>3. QED
    BY <1>2, <2>1, <2>2
<1>11. IsConcat(a, s, l) /\ IsConcat(a, t, m)
  BY <1>7, ConcatIs
<1> HIDE DEF l, m
<1>12. /\ k \in Nat /\ DOMAIN l = 1 .. k + Len(s) /\ Len(l) = k + Len(s) /\ DOMAIN m = 1 .. k + (Len(s) + 1)
       /\ \A j \in 1 .. k : l[j] = a[j] /\ m[j] = a[j]
       /\ \A j \in 1 .. Len(s) : l[k + j] = s[j]
       /\ \A j \in 1 .. k + (Len(s) + 1) : j \notin 1 .. k => m[j] = t[j - k]
  BY <1>1, <1>8, <1>11 DEF IsConcat
<1> HIDE DEF k
<1>13. k + i \in DOMAIN l
  BY <1>1, <1>12
<1>14. ASSUME NEW j \in DOMAIN m, j <= k + i PROVE j \in DOMAIN l /\ m[j] = l[j]
  <2>1. j \in DOMAIN l
    BY <1>1, <1>12, <1>14
  <2>2. CASE j \in 1 .. k
    BY <1>12, <2>1, <2>2
  <2>3. CASE j \notin 1 .. k
    <3>1. j - k \in 1 .. i /\ j - k \in 1 .. Len(s) /\ k + (j - k) = j
      BY <1>1, <1>12, <1>14, <2>3
    <3>2. m[j] = t[j - k] /\ l[k + (j - k)] = s[j - k] /\ t[j - k] = s[j - k]
      BY <1>9, <1>12, <2>3, <3>1
    <3>3. QED
      BY <2>1, <3>1, <3>2
  <2>4. QED
    BY <2>2, <2>3
<1>15. ASSUME NEW j \in DOMAIN m, k + i < j PROVE j - 1 \in DOMAIN l /\ m[j] = l[j - 1]
  <2>1. /\ j - 1 \in DOMAIN l /\ j \notin 1 .. k /\ j - k \in i + 1 .. Len(s) + 1
        /\ (j - k) - 1 \in 1 .. Len(s) /\ k + ((j - k) - 1) = j - 1
    BY <1>1, <1>12, <1>15
  <2>2. m[j] = t[j - k] /\ l[k + ((j - k) - 1)] = s[(j - k) - 1] /\ t[j - k] = s[(j - k) - 1]
    BY <1>10, <1>12, <2>1
  <2>3. QED
    BY <2>1, <2>2
<1>16. Len(l) \in Nat /\ DOMAIN l = 1 .. Len(l) /\ DOMAIN m = 1 .. Len(l) + 1
  BY <1>1, <1>12
<1>17. Doubled(l, m)
  BY <1>13, <1>14, <1>15, <1>16 DEF Doubled
<1>18. QED
  BY <1>4, <1>17 DEF l, m

\* A fault of the network.
LEMMA FaultMove ==
    ASSUME TypeOK, \A m \in Node : OneRx(ioq[m]), NEW n \in Node, Lose(n) \/ Duplicate(n) \/ Swap(n)
    PROVE  NetMove
<1>1. NetStep
  BY FaultStep
<1>2. ioq' = ioq /\ got' = got
  BY DEF Lose, Duplicate, Swap, Fault
<1>3. \A m \in Node : Stored(m)' = Stored(m) /\ OneRx(ioq'[m])
  BY <1>2 DEF Stored
<1>4. ASSUME Lose(n) \/ Swap(n) PROVE faults'["lose"] + faults'["swap"] # 0
  <2>1. faults \in [FaultKinds -> Nat] /\ {"lose", "swap"} \subseteq FaultKinds
    BY DEF TypeOK, FaultKinds
  <2>2. \/ faults' = [faults EXCEPT !["lose"] = @ + 1]
        \/ faults' = [faults EXCEPT !["swap"] = @ + 1]
    BY <1>4 DEF Lose, Swap, Fault
  <2>3. \/ faults'["lose"] = faults["lose"] + 1 /\ faults'["swap"] = faults["swap"]
        \/ faults'["swap"] = faults["swap"] + 1 /\ faults'["lose"] = faults["lose"]
    BY <2>1, <2>2
  <2>4. faults["lose"] \in Nat /\ faults["swap"] \in Nat
    BY <2>1
  <2>5. QED
    BY <2>3, <2>4
<1>5. ASSUME Duplicate(n)
      PROVE  /\ faults' = [faults EXCEPT !["duplicate"] = @ + 1]
             /\ \A m \in Node : Line(m)' = Line(m) \/ Doubled(Line(m), Line(m)')
  <2>1. PICK i \in DOMAIN net[n] : net' = [net EXCEPT ![n] = InsertAt(@, i, @[i])]
    BY <1>5 DEF Duplicate
  <2>2. net \in [Node -> Seq(Segment)] /\ ioq[n] \in Seq(AnyHandler) /\ net[n] \in Seq(Segment)
    BY DEF TypeOK, AnyHandler
  <2>3. ASSUME NEW m \in Node PROVE Line(m)' = Line(m) \/ Doubled(Line(m), Line(m)')
    <3>1. CASE m = n
      <4> DEFINE a == RxPart(ioq[n])
                 s == net[n]
      <4>1. net'[n] = InsertAt(s, i, s[i])
        BY <2>1, <2>2
      <4>2. a \in Seq(Segment)
        BY <2>2, RxPartType
      <4>3. Line(n) = a \o s /\ Line(n)' = a \o InsertAt(s, i, s[i])
        BY <1>2, <4>1, LineIs
      <4>4. Doubled(a \o s, a \o InsertAt(s, i, s[i]))
        BY <2>2, <4>2, DoubledBehind
      <4>5. QED
        BY <3>1, <4>3, <4>4
    <3>2. CASE m # n
      <4>1. net'[m] = net[m]
        BY <2>1, <2>2, <3>2
      <4>2. QED
        BY <1>2, <4>1, LineIs
    <3>3. QED
      BY <3>1, <3>2
  <2>4. faults' = [faults EXCEPT !["duplicate"] = @ + 1]
    BY <1>5 DEF Duplicate, Fault
  <2>5. QED
    BY <2>3, <2>4
<1>6. QED
  BY <1>1, <1>3, <1>4, <1>5 DEF NetMove

\* Every step is a move of the network or of one host, as above.
LEMMA StreamShape ==
    ASSUME TypeOK, \A m \in Node : OneRx(ioq[m]), Next
    PROVE  NetMove \/ \E n \in Node : \E c \in Context : HostMove(n, c)
<1>1. ASSUME NEW n \in Node
      PROVE  /\ tcb[n] \in TcbT /\ Call(tcb[n]) \in Context /\ NextBufs(n) \subseteq Seq(Byte)
             /\ ioq[n] \in Seq(AnyHandler) /\ OneRx(ioq[n]) /\ got[n] \in Seq(Byte)
             /\ Range(ioq[n]) \subseteq Range(ioq[n]) /\ Peer(n) \in Node
  BY CallType, NextBufsType DEF TypeOK, AnyHandler, Peer, Node
<1>2. ASSUME NEW n \in Node, NEW c \in Context, Commit(n, c, ioq[n]), faults' = faults,
             got' = got, abort[n] = "none"
      PROVE  HostStep(n, c) /\ Moved(n, c) /\ Line(n)' = Line(n)
  <2>1. HostStep(n, c)
    BY <1>1, <1>2, CommitStep
  <2>2. got'[n] \o ReadText(ioq[n]) = Stored(n) /\ got'[Peer(n)] = got[Peer(n)] /\ got'[n] \in Seq(Byte)
    BY <1>1, <1>2 DEF Stored
  <2>3. Moved(n, c)
    BY <1>1, <1>2, <2>2, StoredGrows
  <2>4. Line(n)' = RxPart(ioq[n]) \o net[n]
    BY <1>1, <1>2, CommitMoved
  <2>5. QED
    BY <2>1, <2>3, <2>4, LineIs
<1>3. ASSUME NEW n \in Node, NEW c \in Context, ioq[n] # <<>>, Commit(n, c, Tail(ioq[n])),
             abort[n] = "none", faults' = faults,
             got' = IF Head(ioq[n]).kind = "read"
                    THEN [got EXCEPT ![n] = @ \o Head(ioq[n]).data] ELSE got
      PROVE  /\ HostStep(n, c) /\ Moved(n, c)
             /\ Head(ioq[n]).kind # "rx" => Line(n)' = Line(n)
             /\ Head(ioq[n]).kind = "rx" =>
                    Line(n) # <<>> /\ Line(n)' = Tail(Line(n)) /\ Head(Line(n)) = Head(ioq[n]).seg
  <2>1. HostStep(n, c)
    BY <1>3, FrontHandler, CommitStep
  <2>2. got' = [got EXCEPT ![n] = @ \o ReadPart(Head(ioq[n]))]
    <3>1. CASE Head(ioq[n]).kind = "read"
      BY <1>3, <3>1 DEF ReadPart
    <3>2. CASE Head(ioq[n]).kind # "read"
      <4>1. ReadPart(Head(ioq[n])) = <<>> /\ got' = got
        BY <1>3, <3>2 DEF ReadPart
      <4>2. got[n] \o <<>> = got[n]
        BY <1>1
      <4>3. got \in [Node -> Seq(Byte)]
        BY DEF TypeOK
      <4>4. got = [got EXCEPT ![n] = @ \o <<>>]
        BY <4>2, <4>3
      <4>5. QED
        BY <4>1, <4>4
    <3>3. QED
      BY <3>1, <3>2
  <2>3. QED
    BY <1>3, <2>1, <2>2, RunMoved
<1>4. CASE async_connect
  <2>1. PICK isn \in Isns, m \in UninitMss : Commit("client",
            start_connecting(Call(new_tcb("Connecting", m)), isn, MyMss), ioq["client"])
    BY <1>4 DEF async_connect
  <2> DEFINE c == start_connecting(Call(new_tcb("Connecting", m)), isn, MyMss)
  <2>2. isn \in SeqNr /\ m \in Nat /\ MyMss \in Nat /\ "Connecting" \in TcpState
    BY ConnectionConstants DEF TcpState
  <2>3. c \in Context
    BY <2>2, NewTcbType, CallType, StartConnectingType
  <2>4. "client" \in Node /\ abort["client"] = "none" /\ faults' = faults /\ got' = got
    BY <1>4 DEF async_connect, Node
  <2>5. FromConnect("client", c)
    BY <1>4 DEF async_connect, FromConnect
  <2>6. Commit("client", c, ioq["client"])
    BY <2>1
  <2> HIDE DEF c
  <2>7. HostMove("client", c)
    BY <1>2, <2>3, <2>4, <2>5, <2>6 DEF HostMove
  <2>8. QED
    BY <2>3, <2>4, <2>7
<1>5. ASSUME NEW n \in Node, RunRx(n)
      PROVE  \E c \in Context : HostMove(n, c)
  <2> DEFINE s == Head(ioq[n]).seg
  <2>1. /\ ioq[n] # <<>> /\ Head(ioq[n]).kind = "rx" /\ UNCHANGED <<sock, written>>
        /\ abort[n] = "none" /\ faults' = faults /\ got' = got
        /\ \E t \in lookup(n), isn \in Isns :
                \E una \in clamp(s.ack_no, t.seq_nr_unack, t.seq_nr_next) :
                    Commit(n, process(Call(t), s, isn, una), Tail(ioq[n]))
    BY <1>5 DEF RunRx, Next_handler
  <2>2. s \in Coming(n) /\ s \in Segment
    BY <2>1, FrontHandler DEF Coming, AnyHandler, Handler, HandlerKind, RxHandler
  <2> HIDE DEF s
  <2>3. PICK t \in lookup(n), isn \in Isns :
                \E una \in clamp(s.ack_no, t.seq_nr_unack, t.seq_nr_next) :
                    Commit(n, process(Call(t), s, isn, una), Tail(ioq[n]))
    BY <2>1
  <2>4. PICK una \in clamp(s.ack_no, t.seq_nr_unack, t.seq_nr_next) :
                    Commit(n, process(Call(t), s, isn, una), Tail(ioq[n]))
    BY <2>3
  <2>5. t \in TcbT /\ isn \in SeqNr
    BY LookupType, ConnectionConstants
  <2>6. una \in SeqNr
    BY <2>2, <2>5, ClampType DEF TcbT, Segment
  <2> DEFINE c == process(Call(t), s, isn, una)
  <2>7. c \in Context
    BY <2>2, <2>5, <2>6, CallType, ProcessType
  <2>8. "rx" # "read" /\ Commit(n, c, Tail(ioq[n]))
    BY <2>4
  <2>9. c = process(Call(t), s, isn, una)
    OBVIOUS
  <2> HIDE DEF c
  <2>10. HostStep(n, c) /\ Moved(n, c) /\ Line(n) # <<>> /\ Line(n)' = Tail(Line(n)) /\ Head(Line(n)) = s
    BY <1>3, <2>1, <2>7, <2>8 DEF s
  <2>11. FromFront(n, c)
    BY <2>1, <2>2, <2>9, <2>10 DEF FromFront
  <2>12. QED
    BY <2>7, <2>10, <2>11 DEF HostMove
<1>6. ASSUME NEW n \in Node, RunEstablished(n) \/ RunRead(n) \/ RunWrite(n)
      PROVE  \E c \in Context : HostMove(n, c)
  <2>1. /\ ioq[n] # <<>> /\ Head(ioq[n]).kind # "rx" /\ abort[n] = "none" /\ faults' = faults
        /\ sock' \in {sock, [sock EXCEPT ![n] = TRUE]}
        /\ got' = IF Head(ioq[n]).kind = "read"
                  THEN [got EXCEPT ![n] = @ \o Head(ioq[n]).data] ELSE got
    BY <1>6 DEF RunEstablished, RunRead, RunWrite, Next_handler
  <2>2. \E call \in Calls(tcb[n], NextBufs(n)) :
            \E c \in {app_call(Call(tcb[n]), call), read_handler(Call(tcb[n]), call)} :
                Commit(n, c, Tail(ioq[n])) /\ Wrote(n, call, c)
    BY <1>6 DEF RunEstablished, RunRead, RunWrite
  <2>3. PICK call \in Calls(tcb[n], NextBufs(n)) :
            \E c \in {app_call(Call(tcb[n]), call), read_handler(Call(tcb[n]), call)} :
                Commit(n, c, Tail(ioq[n])) /\ Wrote(n, call, c)
    BY <2>2
  <2>4. PICK c \in {app_call(Call(tcb[n]), call), read_handler(Call(tcb[n]), call)} :
                Commit(n, c, Tail(ioq[n])) /\ Wrote(n, call, c)
    BY <2>3
  <2>5. c \in Context
    BY <1>1, AppCallType, ReadHandlerType
  <2>6. Active(n)
    BY <2>1, FrontHandler DEF Active
  <2>7. FromCall(n, c)
    BY <2>1, <2>4, <2>6 DEF FromCall
  <2>8. HostStep(n, c) /\ Moved(n, c) /\ Line(n)' = Line(n)
    BY <1>3, <2>1, <2>4, <2>5
  <2>9. QED
    BY <2>5, <2>7, <2>8 DEF HostMove
<1>7. ASSUME NEW n \in Node, RunSendAppData(n)
      PROVE  \E c \in Context : HostMove(n, c)
  <2> DEFINE c == send_app_data(Call(tcb[n]))
  <2>1. /\ ioq[n] # <<>> /\ Head(ioq[n]).kind = "send_app_data" /\ UNCHANGED <<sock, written>>
        /\ abort[n] = "none" /\ faults' = faults /\ got' = got
        /\ Commit(n, c, Tail(ioq[n]))
    BY <1>7 DEF RunSendAppData, Next_handler
  <2>2. c \in Context
    BY <1>1, SendAppDataType
  <2>3. FromSend(n, c)
    BY <2>1, FrontHandler DEF FromSend, Active
  <2> HIDE DEF c
  <2>4. HostStep(n, c) /\ Moved(n, c) /\ Line(n)' = Line(n)
    BY <1>3, <2>1, <2>2
  <2>5. QED
    BY <2>2, <2>3, <2>4 DEF HostMove
<1>8. ASSUME NEW n \in Node, NEW op, AppCall(n, op)
      PROVE  \E c \in Context : HostMove(n, c)
  <2>1. /\ sock[n] /\ sock' = sock /\ abort[n] = "none" /\ faults' = faults /\ got' = got
        /\ \E call \in Calls(tcb[n], NextBufs(n)) :
                LET c == app_call(Call(tcb[n]), call)
                IN  Commit(n, c, ioq[n]) /\ Wrote(n, call, c)
    BY <1>8 DEF AppCall
  <2>2. PICK call \in Calls(tcb[n], NextBufs(n)) :
                /\ Commit(n, app_call(Call(tcb[n]), call), ioq[n])
                /\ Wrote(n, call, app_call(Call(tcb[n]), call))
    BY <2>1
  <2> DEFINE c == app_call(Call(tcb[n]), call)
  <2>3. c \in Context
    BY <1>1, AppCallType
  <2>4. FromCall(n, c)
    BY <2>1, <2>2 DEF FromCall, Active
  <2>5. Commit(n, c, ioq[n])
    BY <2>2
  <2> HIDE DEF c
  <2>6. HostStep(n, c) /\ Moved(n, c) /\ Line(n)' = Line(n)
    BY <1>2, <2>1, <2>3, <2>5
  <2>7. QED
    BY <2>3, <2>4, <2>6 DEF HostMove
<1>9. QED
  BY <1>4, <1>5, <1>6, <1>7, <1>8, RxReadyMove, FaultMove DEF Next, RunHandler

-----------------------------------------------------------------------------
(* Lines of segments *)

HasText(s) == s.data # <<>>
End(s) == s.seq_no + Len(s.data)

\* What the text on line L is to a receiver that has the stream up to b, when
\* the sender has sent it up to e.  Every text is old or new, none is both.
Apart(L, b) == \A j \in DOMAIN L : HasText(L[j]) => b <= L[j].seq_no \/ End(L[j]) <= b

\* New text starts at b or where some text in front of it ends.
Linked(L, b) ==
    \A j \in DOMAIN L : HasText(L[j]) =>
        \/ L[j].seq_no <= b
        \/ \E i \in DOMAIN L : i < j /\ HasText(L[i]) /\ End(L[i]) = L[j].seq_no

\* Of two texts the later one continues the earlier one or repeats it.
Tiled(L) ==
    \A i, j \in DOMAIN L : i < j /\ HasText(L[i]) /\ HasText(L[j]) =>
        \/ End(L[i]) <= L[j].seq_no
        \/ L[i].seq_no = L[j].seq_no /\ End(L[i]) = End(L[j])

\* The text reaches up to e.
Reaches(L, b, e) == e <= b \/ \E j \in DOMAIN L : HasText(L[j]) /\ End(L[j]) = e

Chain(L, b, e) == Apart(L, b) /\ Linked(L, b) /\ Tiled(L) /\ Reaches(L, b, e)

\* No text is on the line twice, and none of it is old.
Strict(L, b) ==
    \A j \in DOMAIN L : HasText(L[j]) =>
        /\ b <= L[j].seq_no
        /\ \A i \in DOMAIN L : i < j /\ HasText(L[i]) => End(L[i]) <= L[j].seq_no

\* The acknowledgments on line L never go back, and not behind a.
Acks(L, a) ==
    \A i, j \in DOMAIN L : i <= j /\ "ACK" \in L[i].flags /\ "ACK" \in L[j].flags =>
        a <= L[i].ack_no /\ L[i].ack_no <= L[j].ack_no

\* The numbers of the segments of a line.
Numbered(L) ==
    \A j \in DOMAIN L :
        /\ j \in Nat \ {0} /\ L[j].seq_no \in Nat /\ End(L[j]) \in Nat /\ L[j].ack_no \in Nat
        /\ HasText(L[j]) => L[j].seq_no < End(L[j])

\* The numbers of a segment: one with text ends behind its first byte.
LEMMA SegmentEnds ==
    ASSUME NEW s \in Segment
    PROVE  /\ s.seq_no \in Nat /\ End(s) \in Nat /\ s.ack_no \in Nat
           /\ HasText(s) => s.seq_no < End(s)
           /\ ~HasText(s) => End(s) = s.seq_no
<1>1. s.seq_no \in Nat /\ s.ack_no \in Nat /\ s.data \in Seq(Byte) /\ Len(s.data) \in Nat
  BY SegmentNumbers
<1>2. s.data # <<>> <=> Len(s.data) # 0
  BY <1>1
<1>3. QED
  BY <1>1, <1>2 DEF HasText, End

\* The numbers of every line are numbers.
LEMMA LineNumbered ==
    ASSUME NEW L \in Seq(Segment)
    PROVE  Numbered(L)
<1>1. \A j \in DOMAIN L : j \in Nat \ {0} /\ L[j] \in Segment
  OBVIOUS
<1>2. QED
  BY <1>1, SegmentEnds DEF Numbered

\* The first segment of a line leaves it: what it carried is old or has no text.
LEMMA ChainTailOld ==
    ASSUME NEW L \in Seq(Segment), L # <<>>, NEW b \in Nat, NEW e \in Nat, Chain(L, b, e),
           ~HasText(Head(L)) \/ End(Head(L)) <= b
    PROVE  Chain(Tail(L), b, e)
<1> DEFINE m == Tail(L)
<1>1. IsTail(L, m) /\ Head(L) = L[1]
  BY TailIs
<1>2. Numbered(L)
  BY LineNumbered
<1> HIDE DEF m
<1>3. ~HasText(L[1]) \/ End(L[1]) <= b
  BY <1>1
<1>4. Apart(m, b)
  BY <1>1 DEF IsTail, Chain, Apart
<1>5. Tiled(m)
  BY <1>1 DEF IsTail, Chain, Tiled
<1>6. Linked(m, b)
  <2> SUFFICES ASSUME NEW j \in DOMAIN m, HasText(m[j]), ~(m[j].seq_no <= b)
               PROVE  \E i \in DOMAIN m : i < j /\ HasText(m[i]) /\ End(m[i]) = m[j].seq_no
    BY DEF Linked
  <2>1. j + 1 \in DOMAIN L /\ m[j] = L[j + 1] /\ j \in Nat
    BY <1>1 DEF IsTail
  <2>2. PICK i \in DOMAIN L : i < j + 1 /\ HasText(L[i]) /\ End(L[i]) = L[j + 1].seq_no
    BY <2>1 DEF Chain, Linked
  <2>3. i # 1
    BY <1>2, <1>3, <2>1, <2>2 DEF Numbered
  <2>4. i - 1 \in DOMAIN m /\ m[i - 1] = L[i] /\ i \in Nat
    BY <1>1, <2>3 DEF IsTail
  <2>5. i - 1 < j
    BY <2>1, <2>2, <2>4
  <2>6. QED
    BY <2>1, <2>2, <2>4, <2>5
<1>7. Reaches(m, b, e)
  <2> SUFFICES ASSUME ~(e <= b)
               PROVE  \E j \in DOMAIN m : HasText(m[j]) /\ End(m[j]) = e
    BY DEF Reaches
  <2>1. PICK i \in DOMAIN L : HasText(L[i]) /\ End(L[i]) = e
    BY DEF Chain, Reaches
  <2>2. i # 1
    BY <1>3, <2>1
  <2>3. i - 1 \in DOMAIN m /\ m[i - 1] = L[i]
    BY <1>1, <2>2 DEF IsTail
  <2>4. QED
    BY <2>1, <2>3
<1>8. QED
  BY <1>4, <1>5, <1>6, <1>7 DEF Chain, m

\* It carried text that is not old: that text starts just where the stream ends.
LEMMA ChainTailNew ==
    ASSUME NEW L \in Seq(Segment), L # <<>>, NEW b \in Nat, NEW e \in Nat, Chain(L, b, e),
           HasText(Head(L)), b <= Head(L).seq_no
    PROVE  Head(L).seq_no = b /\ Chain(Tail(L), End(Head(L)), e)
<1> DEFINE m == Tail(L)
           f == End(Head(L))
<1>1. IsTail(L, m) /\ Head(L) = L[1] /\ 1 \in DOMAIN L
  BY TailIs DEF IsTail
<1>2. Numbered(L)
  BY LineNumbered
<1>3. f = End(L[1]) /\ HasText(L[1]) /\ b <= L[1].seq_no
  BY <1>1
<1> HIDE DEF m, f
<1>4. L[1].seq_no = b
  <2>1. ASSUME NEW i \in DOMAIN L, i < 1 PROVE FALSE
    BY <1>2, <2>1 DEF Numbered
  <2>2. L[1].seq_no <= b
    BY <1>1, <1>3, <2>1 DEF Chain, Linked
  <2>3. QED
    BY <1>1, <1>2, <1>3, <2>2 DEF Numbered
<1>5. f \in Nat /\ b < f
  BY <1>1, <1>2, <1>3, <1>4 DEF Numbered
<1>6. ASSUME NEW j \in DOMAIN m
      PROVE  /\ j + 1 \in DOMAIN L /\ m[j] = L[j + 1] /\ j \in Nat \ {0} /\ 1 < j + 1
             /\ L[j + 1].seq_no \in Nat /\ End(L[j + 1]) \in Nat
  <2>1. j + 1 \in DOMAIN L /\ m[j] = L[j + 1] /\ j \in Nat \ {0}
    BY <1>1 DEF IsTail
  <2>2. QED
    BY <1>2, <2>1 DEF Numbered
<1>7. Apart(m, f)
  <2> SUFFICES ASSUME NEW j \in DOMAIN m, HasText(m[j])
               PROVE  f <= m[j].seq_no \/ End(m[j]) <= f
    BY DEF Apart
  <2>1. f <= L[j + 1].seq_no \/ f = End(L[j + 1])
    BY <1>1, <1>3, <1>6 DEF Chain, Tiled
  <2>2. QED
    BY <1>5, <1>6, <2>1
<1>8. Tiled(m)
  BY <1>1 DEF IsTail, Chain, Tiled
<1>9. Linked(m, f)
  <2> SUFFICES ASSUME NEW j \in DOMAIN m, HasText(m[j]), ~(m[j].seq_no <= f)
               PROVE  \E i \in DOMAIN m : i < j /\ HasText(m[i]) /\ End(m[i]) = m[j].seq_no
    BY DEF Linked
  <2>1. ~(L[j + 1].seq_no <= b)
    BY <1>5, <1>6
  <2>2. PICK i \in DOMAIN L : i < j + 1 /\ HasText(L[i]) /\ End(L[i]) = L[j + 1].seq_no
    BY <1>6, <2>1 DEF Chain, Linked
  <2>3. i # 1
    BY <1>3, <1>5, <1>6, <2>2
  <2>4. i - 1 \in DOMAIN m /\ m[i - 1] = L[i] /\ i \in Nat
    BY <1>1, <2>3 DEF IsTail
  <2>5. i - 1 < j
    BY <1>6, <2>2, <2>4
  <2>6. QED
    BY <1>6, <2>2, <2>4, <2>5
<1>10. Reaches(m, f, e)
  <2> SUFFICES ASSUME ~(e <= f)
               PROVE  \E j \in DOMAIN m : HasText(m[j]) /\ End(m[j]) = e
    BY DEF Reaches
  <2>0. ~(e <= b)
    BY <1>5
  <2>1. PICK i \in DOMAIN L : HasText(L[i]) /\ End(L[i]) = e
    BY <2>0 DEF Chain, Reaches
  <2>2. i # 1
    BY <1>3, <1>5, <2>1
  <2>3. i - 1 \in DOMAIN m /\ m[i - 1] = L[i]
    BY <1>1, <2>2 DEF IsTail
  <2>4. QED
    BY <2>1, <2>3
<1>11. QED
  BY <1>1, <1>4, <1>7, <1>8, <1>9, <1>10 DEF Chain, m, f

\* The sender adds segments that go on where the line ends.
LEMMA ChainSend ==
    ASSUME NEW L \in Seq(Segment), NEW M \in Seq(Segment), NEW b \in Nat, NEW e \in Nat, NEW f \in Nat,
           b <= e, e <= f, Chain(L, b, e), Chain(M, e, f), Strict(M, e),
           \A j \in DOMAIN L : End(L[j]) <= e
    PROVE  Chain(L \o M, b, f)
<1> DEFINE r == L \o M
           k == Len(L)
<1>1. IsConcat(L, M, r)
  BY ConcatIs
<1>2. Numbered(L) /\ Numbered(M)
  BY LineNumbered
<1> HIDE DEF r
<1>3. /\ k \in Nat /\ DOMAIN L = 1 .. k
      /\ \A i \in DOMAIN L : i \in DOMAIN r /\ r[i] = L[i]
      /\ \A i \in DOMAIN M : k + i \in DOMAIN r /\ r[k + i] = M[i] /\ i \in Nat \ {0}
      /\ \A i \in DOMAIN r : i \in Nat /\ (i \notin DOMAIN L => i - k \in DOMAIN M /\ r[i] = M[i - k] /\ k < i)
  BY <1>1, <1>2 DEF IsConcat, Numbered
<1> HIDE DEF k
<1>4. \A j \in DOMAIN M : HasText(M[j]) => e <= M[j].seq_no
  BY DEF Strict
<1>5. Apart(r, b)
  <2> SUFFICES ASSUME NEW j \in DOMAIN r, HasText(r[j])
               PROVE  b <= r[j].seq_no \/ End(r[j]) <= b
    BY DEF Apart
  <2>1. CASE j \in DOMAIN L
    BY <1>3, <2>1 DEF Chain, Apart
  <2>2. CASE j \notin DOMAIN L
    <3>1. j - k \in DOMAIN M /\ r[j] = M[j - k]
      BY <1>3, <2>2
    <3>2. e <= M[j - k].seq_no /\ M[j - k].seq_no \in Nat
      BY <1>2, <1>4, <3>1 DEF Numbered
    <3>3. QED
      BY <3>1, <3>2
  <2>3. QED
    BY <2>1, <2>2
<1>6. Linked(r, b)
  <2> SUFFICES ASSUME NEW j \in DOMAIN r, HasText(r[j]), ~(r[j].seq_no <= b)
               PROVE  \E i \in DOMAIN r : i < j /\ HasText(r[i]) /\ End(r[i]) = r[j].seq_no
    BY DEF Linked
  <2>1. CASE j \in DOMAIN L
    <3>1. PICK i \in DOMAIN L : i < j /\ HasText(L[i]) /\ End(L[i]) = L[j].seq_no
      BY <1>3, <2>1 DEF Chain, Linked
    <3>2. QED
      BY <1>3, <2>1, <3>1
  <2>2. CASE j \notin DOMAIN L
    <3>1. j - k \in DOMAIN M /\ r[j] = M[j - k] /\ k < j /\ j \in Nat
      BY <1>3, <2>2
    <3>2. e <= M[j - k].seq_no /\ M[j - k].seq_no \in Nat
      BY <1>2, <1>4, <3>1 DEF Numbered
    <3>3. CASE M[j - k].seq_no <= e
      <4>1. M[j - k].seq_no = e /\ ~(e <= b)
        BY <3>1, <3>2, <3>3
      <4>2. PICK i \in DOMAIN L : HasText(L[i]) /\ End(L[i]) = e
        BY <4>1 DEF Chain, Reaches
      <4>3. i < j
        BY <1>3, <3>1
      <4>4. QED
        BY <1>3, <3>1, <4>1, <4>2, <4>3
    <3>4. CASE ~(M[j - k].seq_no <= e)
      <4>1. PICK i \in DOMAIN M : i < j - k /\ HasText(M[i]) /\ End(M[i]) = M[j - k].seq_no
        BY <3>1, <3>4 DEF Chain, Linked
      <4>2. k + i \in DOMAIN r /\ r[k + i] = M[i] /\ i \in Nat
        BY <1>3
      <4>3. k + i < j
        BY <1>3, <3>1, <4>1, <4>2
      <4>4. QED
        BY <3>1, <4>1, <4>2, <4>3
    <3>5. QED
      BY <3>3, <3>4
  <2>3. QED
    BY <2>1, <2>2
<1>7. Tiled(r)
  <2> SUFFICES ASSUME NEW i \in DOMAIN r, NEW j \in DOMAIN r, i < j, HasText(r[i]), HasText(r[j])
               PROVE  \/ End(r[i]) <= r[j].seq_no
                      \/ r[i].seq_no = r[j].seq_no /\ End(r[i]) = End(r[j])
    BY DEF Tiled
  <2>1. CASE j \in DOMAIN L
    <3>1. i \in DOMAIN L
      BY <1>3, <2>1
    <3>2. QED
      BY <1>3, <2>1, <3>1 DEF Chain, Tiled
  <2>2. CASE j \notin DOMAIN L
    <3>1. j - k \in DOMAIN M /\ r[j] = M[j - k] /\ k < j /\ j \in Nat
      BY <1>3, <2>2
    <3>2. e <= M[j - k].seq_no /\ M[j - k].seq_no \in Nat
      BY <1>2, <1>4, <3>1 DEF Numbered
    <3>3. CASE i \in DOMAIN L
      <4>1. End(L[i]) <= e /\ End(L[i]) \in Nat /\ r[i] = L[i]
        BY <1>2, <1>3, <3>3 DEF Numbered
      <4>2. QED
        BY <3>1, <3>2, <4>1
    <3>4. CASE i \notin DOMAIN L
      <4>1. i - k \in DOMAIN M /\ r[i] = M[i - k] /\ i \in Nat
        BY <1>3, <3>4
      <4>2. i - k < j - k
        BY <1>3, <3>1, <4>1
      <4>3. QED
        BY <3>1, <4>1, <4>2 DEF Chain, Tiled
    <3>5. QED
      BY <3>3, <3>4
  <2>3. QED
    BY <2>1, <2>2
<1>8. Reaches(r, b, f)
  <2>1. CASE f <= e
    <3>1. f = e
      BY <2>1
    <3>2. QED
      BY <1>3, <3>1 DEF Chain, Reaches
  <2>2. CASE ~(f <= e)
    BY <1>3, <2>2 DEF Chain, Reaches
  <2>3. QED
    BY <2>1, <2>2
<1>9. QED
  BY <1>5, <1>6, <1>7, <1>8 DEF Chain, r

\* What is sent behind the end of a line in which no byte is there twice keeps it so.
LEMMA StrictSend ==
    ASSUME NEW L \in Seq(Segment), NEW M \in Seq(Segment), NEW b \in Nat, NEW e \in Nat,
           b <= e, Strict(L, b), Strict(M, e), \A j \in DOMAIN L : End(L[j]) <= e
    PROVE  Strict(L \o M, b)
<1> DEFINE r == L \o M
           k == Len(L)
<1>1. IsConcat(L, M, r)
  BY ConcatIs
<1>2. Numbered(L) /\ Numbered(M)
  BY LineNumbered
<1> HIDE DEF r
<1>3. /\ k \in Nat /\ DOMAIN L = 1 .. k
      /\ \A i \in DOMAIN L : i \in DOMAIN r /\ r[i] = L[i]
      /\ \A i \in DOMAIN r : i \in Nat /\ (i \notin DOMAIN L => i - k \in DOMAIN M /\ r[i] = M[i - k] /\ k < i)
  BY <1>1, <1>2 DEF IsConcat, Numbered
<1> HIDE DEF k
<1>4. ASSUME NEW j \in DOMAIN r, HasText(r[j])
      PROVE  /\ b <= r[j].seq_no
             /\ \A i \in DOMAIN r : i < j /\ HasText(r[i]) => End(r[i]) <= r[j].seq_no
  <2>1. CASE j \in DOMAIN L
    <3>1. \A i \in DOMAIN r : i < j => i \in DOMAIN L
      BY <1>3, <2>1
    <3>2. QED
      BY <1>3, <1>4, <2>1, <3>1 DEF Strict
  <2>2. CASE j \notin DOMAIN L
    <3>1. j - k \in DOMAIN M /\ r[j] = M[j - k] /\ k < j /\ j \in Nat
      BY <1>3, <2>2
    <3>2. e <= M[j - k].seq_no /\ M[j - k].seq_no \in Nat
      BY <1>2, <1>4, <3>1 DEF Numbered, Strict
    <3>3. ASSUME NEW i \in DOMAIN r, i < j, HasText(r[i]) PROVE End(r[i]) <= r[j].seq_no
      <4>1. CASE i \in DOMAIN L
        <5>1. End(L[i]) <= e /\ End(L[i]) \in Nat /\ r[i] = L[i]
          BY <1>2, <1>3, <4>1 DEF Numbered
        <5>2. QED
          BY <3>1, <3>2, <5>1
      <4>2. CASE i \notin DOMAIN L
        <5>1. i - k \in DOMAIN M /\ r[i] = M[i - k] /\ i \in Nat
          BY <1>3, <4>2
        <5>2. i - k < j - k
          BY <1>3, <3>1, <3>3, <5>1
        <5>3. QED
          BY <1>4, <3>1, <3>3, <5>1, <5>2 DEF Strict
      <4>3. QED
        BY <4>1, <4>2
    <3>4. QED
      BY <3>1, <3>2, <3>3
  <2>3. QED
    BY <2>1, <2>2
<1>5. QED
  BY <1>4 DEF Strict, r

\* The first segment leaves a line on which nothing is repeated.
LEMMA StrictTail ==
    ASSUME NEW L \in Seq(Segment), L # <<>>, NEW b \in Nat, Strict(L, b)
    PROVE  /\ Strict(Tail(L), b)
           /\ HasText(Head(L)) => Strict(Tail(L), End(Head(L))) /\ b <= Head(L).seq_no
<1> DEFINE m == Tail(L)
<1>1. IsTail(L, m) /\ Head(L) = L[1] /\ 1 \in DOMAIN L
  BY TailIs DEF IsTail
<1> HIDE DEF m
<1>2. \A j \in DOMAIN m : j \in Nat \ {0} /\ j + 1 \in DOMAIN L /\ m[j] = L[j + 1]
  BY <1>1 DEF IsTail
<1>3. Strict(m, b)
  BY <1>2 DEF Strict
<1>4. ASSUME HasText(L[1]) PROVE Strict(m, End(L[1])) /\ b <= L[1].seq_no
  BY <1>1, <1>2, <1>4 DEF Strict
<1>5. QED
  BY <1>1, <1>3, <1>4 DEF m

\* The acknowledgements of a line still ascend when its first segment has left it, from
\* the acknowledgement of that segment on.
LEMMA AcksTail ==
    ASSUME NEW L \in Seq(Segment), L # <<>>, NEW a, Acks(L, a)
    PROVE  /\ Acks(Tail(L), a)
           /\ "ACK" \in Head(L).flags => a <= Head(L).ack_no /\ Acks(Tail(L), Head(L).ack_no)
<1> DEFINE m == Tail(L)
<1>1. IsTail(L, m) /\ Head(L) = L[1] /\ 1 \in DOMAIN L
  BY TailIs DEF IsTail
<1> HIDE DEF m
<1>2. \A j \in DOMAIN m : j \in Nat \ {0} /\ j + 1 \in DOMAIN L /\ m[j] = L[j + 1]
  BY <1>1 DEF IsTail
<1>3. Acks(m, a)
  BY <1>2 DEF Acks
<1>4. ASSUME "ACK" \in L[1].flags PROVE a <= L[1].ack_no /\ Acks(m, L[1].ack_no)
  BY <1>1, <1>2, <1>4 DEF Acks
<1>5. QED
  BY <1>1, <1>3, <1>4 DEF m

\* Segments that acknowledge no less than all of the line keep the acknowledgements ascending.
LEMMA AcksSend ==
    ASSUME NEW L \in Seq(Segment), NEW M \in Seq(Segment), NEW a \in Nat, NEW r \in Nat, Acks(L, a),
           \A j \in DOMAIN L : "ACK" \in L[j].flags => L[j].ack_no <= r,
           \A j \in DOMAIN M : "ACK" \in M[j].flags => M[j].ack_no = r /\ a <= r
    PROVE  Acks(L \o M, a)
<1> DEFINE w == L \o M
           k == Len(L)
<1>1. IsConcat(L, M, w)
  BY ConcatIs
<1> HIDE DEF w
<1>2. /\ k \in Nat /\ DOMAIN L = 1 .. k
      /\ \A i \in DOMAIN L : i \in DOMAIN w /\ w[i] = L[i]
      /\ \A i \in DOMAIN w : i \in Nat /\ (i \notin DOMAIN L => i - k \in DOMAIN M /\ w[i] = M[i - k] /\ k < i)
  BY <1>1 DEF IsConcat
<1> HIDE DEF k
<1>3. ASSUME NEW i \in DOMAIN w, NEW j \in DOMAIN w, i <= j, "ACK" \in w[i].flags, "ACK" \in w[j].flags
      PROVE  a <= w[i].ack_no /\ w[i].ack_no <= w[j].ack_no
  <2>1. CASE j \in DOMAIN L
    <3>1. i \in DOMAIN L
      BY <1>2, <1>3, <2>1
    <3>2. QED
      BY <1>2, <1>3, <2>1, <3>1 DEF Acks
  <2>2. CASE j \notin DOMAIN L
    <3>1. w[j].ack_no = r /\ a <= r
      BY <1>2, <1>3, <2>2
    <3>2. CASE i \in DOMAIN L
      <4>1. i <= i
        BY <1>2
      <4>2. a <= L[i].ack_no /\ L[i].ack_no <= r
        BY <1>2, <1>3, <3>2, <4>1 DEF Acks
      <4>3. QED
        BY <1>2, <3>1, <3>2, <4>2
    <3>3. CASE i \notin DOMAIN L
      BY <1>2, <1>3, <3>1, <3>3
    <3>4. QED
      BY <3>2, <3>3
  <2>3. QED
    BY <2>1, <2>2
<1>4. QED
  BY <1>3 DEF Acks, w

\* A segment is there twice: to the receiver nothing is different.
LEMMA DoubledLine ==
    ASSUME NEW L, NEW M, Doubled(L, M), Numbered(L)
    PROVE  /\ \A j \in DOMAIN M : \E i \in DOMAIN L : M[j] = L[i]
           /\ \A b, e : Chain(L, b, e) => Chain(M, b, e)
           /\ \A a : Acks(L, a) => Acks(M, a)
<1>1. PICK d \in DOMAIN L :
            /\ \A j \in DOMAIN M : j <= d => j \in DOMAIN L /\ M[j] = L[j]
            /\ \A j \in DOMAIN M : d < j => j - 1 \in DOMAIN L /\ M[j] = L[j - 1]
  BY DEF Doubled
<1> DEFINE f(j) == IF j <= d THEN j ELSE j - 1
           g(i) == IF i <= d THEN i ELSE i + 1
<1>2. /\ Len(L) \in Nat /\ DOMAIN L = 1 .. Len(L) /\ DOMAIN M = 1 .. Len(L) + 1
      /\ d \in 1 .. Len(L)
  BY DEF Doubled
<1>3. \A j \in DOMAIN M : j \in Int /\ f(j) \in DOMAIN L /\ f(j) \in Int /\ M[j] = L[f(j)]
  BY <1>1, <1>2
<1>4. \A i, j \in DOMAIN M : i <= j => f(i) <= f(j)
  BY <1>1, <1>2
<1>5. \A i \in DOMAIN L : g(i) \in DOMAIN M /\ f(g(i)) = i
  BY <1>1, <1>2
<1>6. \A i \in DOMAIN L, j \in DOMAIN M : i < f(j) => g(i) < j
  BY <1>1, <1>2
<1> HIDE DEF f, g
<1>7. \A i \in DOMAIN L : M[g(i)] = L[i]
  BY <1>3, <1>5
<1>8. \A j \in DOMAIN M : \E i \in DOMAIN L : M[j] = L[i]
  BY <1>3
<1>9. ASSUME NEW b, NEW e, Chain(L, b, e) PROVE Chain(M, b, e)
  <2>1. Apart(M, b)
    BY <1>3, <1>9 DEF Chain, Apart
  <2>2. Linked(M, b)
    BY <1>3, <1>5, <1>6, <1>7, <1>9 DEF Chain, Linked
  <2>3. Tiled(M)
    <3> SUFFICES ASSUME NEW i \in DOMAIN M, NEW j \in DOMAIN M, i < j, HasText(M[i]), HasText(M[j])
                 PROVE  \/ End(M[i]) <= M[j].seq_no
                        \/ M[i].seq_no = M[j].seq_no /\ End(M[i]) = End(M[j])
      BY DEF Tiled
    <3>1. i <= j /\ f(i) \in Int /\ f(j) \in Int /\ f(i) <= f(j)
      BY <1>3, <1>4
    <3>2. f(i) = f(j) \/ f(i) < f(j)
      BY <3>1
    <3>3. CASE f(i) = f(j)
      BY <1>3, <3>3
    <3>4. CASE f(i) < f(j)
      BY <1>3, <1>9, <3>4 DEF Chain, Tiled
    <3>5. QED
      BY <3>2, <3>3, <3>4
  <2>4. Reaches(M, b, e)
    BY <1>5, <1>7, <1>9 DEF Chain, Reaches
  <2>5. QED
    BY <2>1, <2>2, <2>3, <2>4 DEF Chain
<1>10. ASSUME NEW a, Acks(L, a) PROVE Acks(M, a)
  BY <1>3, <1>4, <1>10 DEF Acks
<1>11. QED
  BY <1>8, <1>9, <1>10

-----------------------------------------------------------------------------
(* What an operation sends *)

\* The text of segment s is where its number says in the send queue of t.
Copies(t, s) ==
    \A i \in DOMAIN s.data :
        LET k == s.seq_no - t.seq_nr_unack + i
        IN  k \in DOMAIN t.snd_pq /\ s.data[i] = t.snd_pq[k]

\* TCB t becomes u and sends the segments out: the text goes on at SND.NXT.
Sends(t, u, out) ==
    /\ SameButNext(t, u)
    /\ Chain(out, t.seq_nr_next, u.seq_nr_next) /\ Strict(out, t.seq_nr_next)
    /\ t.seq_nr_next - t.seq_nr_unack <= Len(t.snd_pq) =>
            u.seq_nr_next - u.seq_nr_unack <= Len(u.snd_pq)
    /\ t.snd_pq = <<>> => u.seq_nr_next = t.seq_nr_next /\ \A j \in DOMAIN out : ~HasText(out[j])
    /\ \A j \in DOMAIN out :
            /\ out[j].ack_no = t.rcv_next /\ "ACK" \in out[j].flags
            /\ "SYN" \in out[j].flags => t.next_state = "SynReceived"
            /\ Copies(t, out[j])

\* A line without text.
LEMMA NoText ==
    ASSUME NEW L, NEW b \in Int, \A j \in DOMAIN L : ~HasText(L[j])
    PROVE  Chain(L, b, b) /\ Strict(L, b)
<1>1. b <= b
  OBVIOUS
<1>2. QED
  BY <1>1 DEF Chain, Apart, Linked, Tiled, Reaches, Strict

\* There is no segment on an empty line.
LEMMA NoSegment == DOMAIN <<>> = {}
  OBVIOUS

\* One segment, with at most one MSS of what waits.
LEMMA MakeAndSendStream ==
    ASSUME NEW c \in Context, NEW room \in Nat, SendSide(c.tcb, room), c.out = <<>>,
           c.tcb.seq_nr_next - c.tcb.seq_nr_unack <= Len(c.tcb.snd_pq) \/ c.tcb.snd_pq = <<>>
    PROVE  Sends(c.tcb, make_and_send_pkt(c).tcb, make_and_send_pkt(c).out)
<1> DEFINE t       == c.tcb
           from    == app_data_unacknowleged(t)
           seg_len == app_data_to_send_left(t)
           seq_no  == IF seg_len = 0 THEN t.seq_nr_unack ELSE t.seq_nr_next
           data    == SubSeq(t.snd_pq, from + 1, from + seg_len)
           p       == packet(t, seq_no, data)
           d       == make_and_send_pkt(c)
           u       == d.tcb
           flight  == t.seq_nr_next - t.seq_nr_unack
           len     == Len(t.snd_pq)
<1>1. t \in TcbT /\ d \in Context /\ u \in TcbT
  BY MakeAndSendType DEF Context
<1>2. d.out = <<p>>
  <2>1. d.out = Append(c.out, p)
    BY DEF make_and_send_pkt, Context
  <2>2. QED
    BY <2>1
<1>3. SameButNext(t, u) /\ u.seq_nr_next = Add(t.seq_nr_next, seg_len)
  BY <1>1 DEF make_and_send_pkt, Context, TcbT, SameButNext
<1>4. /\ seg_len \in Nat /\ seg_len <= Left(t) /\ from \in Nat /\ from + seg_len <= len
      /\ len \in Nat
  BY <1>1, SendSizes DEF Left
<1>5. /\ t.seq_nr_next \in Nat /\ t.seq_nr_unack \in Nat /\ t.seq_nr_unack <= t.seq_nr_next
      /\ t.snd_pq \in Seq(Byte)
  BY <1>1, TcbNumbers DEF SendSide
<1>6. flight \in Nat /\ from = (IF len < flight THEN len ELSE flight)
  BY <1>1, <1>5, LeftExact
<1>7. /\ p.seq_no = seq_no /\ p.data = data /\ p.ack_no = t.rcv_next /\ "ACK" \in p.flags
      /\ ("SYN" \in p.flags => t.next_state = "SynReceived")
  BY DEF packet
<1>8. u.seq_nr_next = t.seq_nr_next + seg_len
  <2> HIDE DEF seg_len, d
  <2>1. QED
    BY <1>1, <1>3, <1>4, AdvanceSide
<1>9. seq_no = IF seg_len = 0 THEN t.seq_nr_unack ELSE t.seq_nr_next
  OBVIOUS
<1>10. data = SubSeq(t.snd_pq, from + 1, from + seg_len)
  OBVIOUS
<1>11. flight <= len \/ t.snd_pq = <<>>
  OBVIOUS
<1>12. flight = t.seq_nr_next - t.seq_nr_unack /\ len = Len(t.snd_pq)
  OBVIOUS
<1> HIDE DEF p, data, seq_no, seg_len, from, d, t, flight, len
<1>13. /\ data \in Seq(Byte) /\ Len(data) = seg_len /\ DOMAIN data = 1 .. seg_len
       /\ \A i \in 1 .. seg_len : from + i \in DOMAIN t.snd_pq /\ data[i] = t.snd_pq[from + i]
  <2>1. from <= from + seg_len /\ from + seg_len \in Nat /\ (from + seg_len) - from = seg_len
    BY <1>4
  <2> DEFINE b == from + seg_len
  <2>2. from \in Nat /\ b \in Nat /\ from <= b /\ b <= Len(t.snd_pq) /\ b - from = seg_len
    BY <1>4, <1>12, <2>1
  <2>3. data = SubSeq(t.snd_pq, from + 1, b)
    BY <1>10
  <2> HIDE DEF b
  <2>4. QED
    BY <1>5, <2>2, <2>3, Cut
<1>14. seg_len # 0 => from = flight /\ seq_no = t.seq_nr_next
  <2>1. t.snd_pq = <<>> => len = 0
    BY <1>12
  <2>2. QED
    BY <1>4, <1>6, <1>9, <1>11, <2>1
<1>15. HasText(p) <=> seg_len # 0
  BY <1>7, <1>13 DEF HasText
<1>16. Copies(t, p)
  <2> SUFFICES ASSUME NEW i \in 1 .. seg_len
               PROVE  /\ p.seq_no - t.seq_nr_unack + i \in DOMAIN t.snd_pq
                      /\ p.data[i] = t.snd_pq[p.seq_no - t.seq_nr_unack + i]
    BY <1>7, <1>13 DEF Copies
  <2>1. seg_len # 0
    BY <1>4
  <2>2. p.seq_no - t.seq_nr_unack + i = from + i
    BY <1>7, <1>12, <1>14, <2>1
  <2>3. QED
    BY <1>7, <1>13, <2>2
<1>17. End(p) = seq_no + seg_len
  BY <1>7, <1>13 DEF End
<1> DEFINE L == <<p>>
<1>18. DOMAIN L = {1} /\ L[1] = p
  OBVIOUS
<1> HIDE DEF L
<1>19. Chain(L, t.seq_nr_next, u.seq_nr_next) /\ Strict(L, t.seq_nr_next)
  <2>1. CASE seg_len = 0
    <3>1. u.seq_nr_next = t.seq_nr_next /\ t.seq_nr_next \in Int
      BY <1>5, <1>8, <2>1
    <3>2. \A j \in DOMAIN L : ~HasText(L[j])
      BY <1>15, <1>18, <2>1
    <3>3. QED
      BY <3>1, <3>2, NoText
  <2>2. CASE seg_len # 0
    <3>1. /\ p.seq_no = t.seq_nr_next /\ End(p) = u.seq_nr_next /\ HasText(p)
          /\ t.seq_nr_next <= p.seq_no /\ p.seq_no <= t.seq_nr_next
      BY <1>5, <1>7, <1>8, <1>14, <1>15, <1>17, <2>2
    <3>2. \A i, j \in DOMAIN L : ~(i < j)
      BY <1>18
    <3>3. QED
      BY <1>18, <3>1, <3>2 DEF Chain, Apart, Linked, Tiled, Reaches, Strict
  <2>3. QED
    BY <2>1, <2>2
<1>20. flight <= len => u.seq_nr_next - u.seq_nr_unack <= Len(u.snd_pq)
  <2>1. u.seq_nr_unack = t.seq_nr_unack /\ Len(u.snd_pq) = len
    BY <1>3, <1>12 DEF SameButNext
  <2>2. ASSUME flight <= len PROVE u.seq_nr_next - u.seq_nr_unack = flight + seg_len /\ from = flight
    BY <1>4, <1>5, <1>6, <1>8, <1>12, <2>1, <2>2
  <2>3. QED
    BY <1>4, <1>6, <2>1, <2>2
<1>21. t.snd_pq = <<>> => u.seq_nr_next = t.seq_nr_next /\ ~HasText(p)
  <2>1. ASSUME t.snd_pq = <<>> PROVE seg_len = 0
    <3>1. len = 0
      BY <1>12, <2>1
    <3>2. QED
      BY <1>4, <3>1
  <2>2. QED
    BY <1>5, <1>8, <1>15, <2>1
<1>22. d.out = L
  BY <1>2 DEF L
<1>23. Sends(t, u, L)
  BY <1>3, <1>7, <1>12, <1>16, <1>18, <1>19, <1>20, <1>21 DEF Sends
<1>24. QED
  BY <1>22, <1>23 DEF t, d

\* The pieces of the text leave nothing out.
LEMMA PieceEnds ==
    ASSUME NEW left \in Nat \ {0}, NEW m \in Nat \ {0}
    PROVE  LET k == (left + m - 1) \div m IN k \in Nat \ {0} /\ left <= k * m
<1> DEFINE k == (left + m - 1) \div m
<1>1. k \in Nat /\ left + m - 1 < k * m + m
  <2>1. ASSUME NEW a \in Nat PROVE a \div m \in Nat /\ a < (a \div m) * m + m
    OBVIOUS
  <2>2. left + m - 1 \in Nat
    OBVIOUS
  <2>3. QED
    BY <2>1, <2>2
<1> HIDE DEF k
<1>2. k * m \in Int
  BY <1>1
<1>3. left <= k * m
  BY <1>1, <1>2
<1>4. k # 0
  <2>1. 0 * m = 0
    OBVIOUS
  <2>2. QED
    BY <1>3, <2>1
<1>5. QED
  BY <1>1, <1>3, <1>4 DEF k

\* Pieces of m bytes, from a: piece i ends i * m or, if that is nearer, left bytes
\* behind a.
Pieces(out, k, m, a, left) ==
    /\ DOMAIN out = 1 .. k
    /\ \A i \in 1 .. k : /\ HasText(out[i]) /\ out[i].seq_no = a + (i - 1) * m
                         /\ End(out[i]) = a + Lesser(i * m, left)

\* The pieces into which send_app_data cuts the queue follow each other without a gap.
LEMMA PiecesChain ==
    ASSUME NEW out, NEW k \in Nat \ {0}, NEW m \in Nat \ {0}, NEW a \in Nat, NEW left \in Nat,
           Pieces(out, k, m, a, left), left <= k * m, \A i \in 1 .. k : (i - 1) * m < left
    PROVE  Chain(out, a, a + left) /\ Strict(out, a)
<1> DEFINE S(i) == (i - 1) * m
           Z(i) == Lesser(i * m, left)
<1>1. /\ DOMAIN out = 1 .. k
      /\ \A i \in 1 .. k : HasText(out[i]) /\ out[i].seq_no = a + S(i) /\ End(out[i]) = a + Z(i)
  BY DEF Pieces
<1>2. ASSUME NEW i \in 1 .. k
      PROVE  /\ i \in Nat /\ S(i) \in Nat /\ i * m \in Nat
             /\ Z(i) \in Nat /\ Z(i) <= i * m
  <2>1. i \in Nat \ {0} /\ i - 1 \in Nat
    OBVIOUS
  <2>2. (i - 1) * m \in Nat /\ i * m \in Nat
    BY <2>1
  <2>3. Lesser(i * m, left) \in Nat /\ Lesser(i * m, left) <= i * m
    BY <2>2, LesserType
  <2>4. QED
    BY <2>1, <2>2, <2>3
<1>3. ASSUME NEW i \in 1 .. k, NEW j \in 1 .. k, i < j
      PROVE  Z(i) <= S(j)
  <2>1. i <= j - 1 /\ i \in Int /\ j - 1 \in Int
    BY <1>3
  <2>2. i * m <= S(j)
    BY <2>1, MulMonotone
  <2> DEFINE x == i * m
             y == S(j)
             z == Z(i)
  <2>3. x \in Nat /\ y \in Nat /\ z \in Nat /\ z <= x /\ x <= y
    BY <1>2, <2>2
  <2> HIDE DEF x, y, z
  <2>4. z <= y
    BY <2>3
  <2>5. QED
    BY <2>4 DEF y, z
<1>4. S(1) = 0
  OBVIOUS
<1>5. ASSUME NEW j \in 1 .. k, j # 1 PROVE Z(j - 1) = S(j)
  <2>1. S(j) < left /\ S(j) \in Nat
    BY <1>2
  <2>2. QED
    BY <2>1 DEF Lesser
<1>6. Z(k) = left /\ k \in 1 .. k
  <2>1. k \in 1 .. k
    OBVIOUS
  <2>2. k * m \in Nat
    BY <1>2, <2>1
  <2>3. QED
    BY <2>1, <2>2 DEF Lesser
<1> HIDE DEF S, Z
<1>7. ASSUME NEW i \in 1 .. k PROVE a <= out[i].seq_no /\ (i = 1 => out[i].seq_no <= a)
  BY <1>1, <1>2, <1>4, SMTT(30)
<1>8. ASSUME NEW i \in 1 .. k, NEW j \in 1 .. k, i < j PROVE End(out[i]) <= out[j].seq_no
  <2>1. Z(i) <= S(j) /\ Z(i) \in Nat /\ S(j) \in Nat
    BY <1>2, <1>3, <1>8
  <2>2. a + Z(i) <= a + S(j)
    BY <2>1
  <2>3. QED
    BY <1>1, <2>2
<1>9. ASSUME NEW j \in 1 .. k, j # 1
      PROVE  \E i \in DOMAIN out : i < j /\ HasText(out[i]) /\ End(out[i]) = out[j].seq_no
  <2>1. j - 1 \in 1 .. k /\ j - 1 < j
    BY <1>9
  <2>2. End(out[j - 1]) = out[j].seq_no
    BY <1>1, <1>5, <1>9, <2>1
  <2>3. QED
    BY <1>1, <2>1, <2>2
<1>10. k \in DOMAIN out /\ HasText(out[k]) /\ End(out[k]) = a + left
  BY <1>1, <1>6
<1>11. QED
  BY <1>1, <1>7, <1>8, <1>9, <1>10 DEF Chain, Apart, Linked, Tiled, Reaches, Strict

\* All that waits is sent.
LEMMA SendAppDataStream ==
    ASSUME NEW c \in Context, NEW room \in Nat, SendSide(c.tcb, room), c.out = <<>>,
           c.tcb.next_state = "Established",
           c.tcb.seq_nr_next - c.tcb.seq_nr_unack <= Len(c.tcb.snd_pq)
    PROVE  Sends(c.tcb, send_app_data(c).tcb, send_app_data(c).out)
<1> DEFINE t    == c.tcb
           m    == t.mss
           len  == Len(t.snd_pq)
           from == app_data_unacknowleged(t)
           left == len - from
           piece(i) == SubSeq(t.snd_pq, from + (i - 1) * m + 1, Lesser(from + i * m, len))
           k    == (left + m - 1) \div m
           p(i) == packet(t, Add(t.seq_nr_next, (i - 1) * m), piece(i))
           out  == [i \in 1 .. k |-> p(i)]
           d    == send_app_data(c)
           u    == d.tcb
           flight == t.seq_nr_next - t.seq_nr_unack
<1>1. t \in TcbT /\ d \in Context /\ u \in TcbT /\ m \in Nat
  <2>1. t \in TcbT /\ d \in Context /\ u \in TcbT
    BY SendAppDataType DEF Context
  <2>2. QED
    BY <2>1 DEF TcbT
<1>2. /\ t.seq_nr_next \in Nat /\ t.seq_nr_next \in SeqNr /\ t.seq_nr_unack \in Nat
      /\ t.snd_pq \in Seq(Byte) /\ t.seq_nr_unack <= t.seq_nr_next /\ len \in Nat
  BY <1>1, TcbNumbers DEF SendSide
<1>3. flight \in Nat /\ from = flight /\ left \in Nat /\ left = Left(t) /\ flight <= len
  <2>1. flight \in Nat /\ from = (IF len < flight THEN len ELSE flight) /\ Left(t) = left
    BY <1>1, <1>2, LeftExact DEF Left
  <2>2. flight <= len
    OBVIOUS
  <2> HIDE DEF flight, from, len, left
  <2>3. from = flight
    BY <1>2, <2>1, <2>2
  <2>4. QED
    BY <1>2, <2>1, <2>2, <2>3 DEF left
<1>4. CASE app_data_to_send_left(t) = 0
  <2>1. d = c
    BY <1>4 DEF send_app_data
  <2>2. \A j \in DOMAIN <<>> : FALSE
    BY NoSegment
  <2>3. Chain(<<>>, t.seq_nr_next, t.seq_nr_next) /\ Strict(<<>>, t.seq_nr_next)
    BY <1>2, <2>2, NoText
  <2>4. QED
    BY <2>1, <2>2, <2>3 DEF Sends, SameButNext
<1>5. CASE app_data_to_send_left(t) # 0
  <2>1. d.out = c.out \o out
    BY <1>5 DEF send_app_data, Context
  <2>2. SameButNext(t, u) /\ u.seq_nr_next = Add(t.seq_nr_next, left)
    BY <1>1, <1>5 DEF send_app_data, Context, TcbT, SameButNext
  <2>3. m # 0 /\ left # 0
    <3>1. app_data_to_send_left(t) = Lesser(m, left)
      BY DEF app_data_to_send_left
    <3> HIDE DEF m, left
    <3>2. QED
      BY <1>1, <1>3, <1>5, <3>1 DEF Lesser
  <2>4. u.seq_nr_next = t.seq_nr_next + left
    <3>1. left <= Left(t) /\ left \in Nat
      BY <1>3
    <3> HIDE DEF left, d
    <3>2. QED
      BY <1>1, <2>2, <3>1, AdvanceSide
  <2>5. t.seq_nr_next + left < SeqSpace
    <3>1. u.seq_nr_next < SeqSpace
      BY <1>1, TcbNumbers
    <3>2. QED
      BY <2>4, <3>1
  <2>6. k \in Nat \ {0} /\ left <= k * m
    <3> HIDE DEF left, m
    <3>1. QED
      BY <1>1, <1>3, <2>3, PieceEnds
  <2>7. from + left = len
    <3> HIDE DEF from, len
    <3>1. from \in Nat
      BY <1>3
    <3>2. QED
      BY <1>2, <3>1
  <2>8. ASSUME NEW i \in 1 .. k
        PROVE  /\ (i - 1) * m < left /\ HasText(p(i)) /\ p(i).seq_no = t.seq_nr_next + (i - 1) * m
               /\ End(p(i)) = t.seq_nr_next + Lesser(i * m, left)
               /\ p(i).ack_no = t.rcv_next /\ p(i).flags = {"ACK"}
               /\ Copies(t, p(i))
    <3> DEFINE a == (i - 1) * m
               b == i * m
               z == Lesser(b, left)
    <3>1. a \in Nat /\ b = a + m /\ a < left
      <4> HIDE DEF left, m
      <4>1. QED
        BY <1>1, <1>3, <2>3, PieceStarts
    <3>2. /\ p(i).seq_no = Add(t.seq_nr_next, a) /\ p(i).ack_no = t.rcv_next
          /\ p(i).flags = {"ACK"}
          /\ p(i).data = SubSeq(t.snd_pq, from + a + 1, Lesser(from + b, len))
      BY DEF packet
    <3> HIDE DEF p, a, b, d, k, left, from, len, m, flight
    <3>3. b \in Nat /\ z \in Nat /\ a < z /\ z <= left /\ Lesser(from + b, len) = from + z
      <4>1. z = (IF b < left THEN b ELSE left)
        BY DEF Lesser
      <4>2. Lesser(from + b, len) = (IF from + b < len THEN from + b ELSE len)
        BY DEF Lesser
      <4> HIDE DEF z
      <4>3. b \in Nat /\ a < b
        BY <1>1, <2>3, <3>1
      <4>4. from \in Nat /\ left \in Nat /\ from + left = len
        BY <1>3, <2>7
      <4>5. QED
        BY <3>1, <4>1, <4>2, <4>3, <4>4
    <3> HIDE DEF z
    <3>4. p(i).data = SubSeq(t.snd_pq, from + a + 1, from + z)
      BY <3>2, <3>3
    <3> DEFINE data == p(i).data
               x == from + a
               y == from + z
    <3>5. x \in Nat /\ y \in Nat /\ x <= y /\ y <= Len(t.snd_pq) /\ y - x = z - a
      <4>1. from \in Nat /\ left \in Nat /\ from + left = Len(t.snd_pq)
        BY <1>3, <2>7 DEF len
      <4>2. QED
        BY <3>1, <3>3, <4>1
    <3>6. data = SubSeq(t.snd_pq, x + 1, y)
      BY <3>4
    <3> HIDE DEF data, x, y
    <3>7. /\ Len(data) = y - x /\ DOMAIN data = 1 .. y - x
          /\ \A j \in 1 .. y - x : x + j \in DOMAIN t.snd_pq /\ data[j] = t.snd_pq[x + j]
      <4> DEFINE q == t.snd_pq
                 r == SubSeq(q, x + 1, y)
      <4>1. q \in Seq(Byte) /\ x \in Nat /\ y \in Nat /\ x <= y /\ y <= Len(q)
        BY <1>2, <3>5
      <4>2. data = r
        BY <3>6
      <4> HIDE DEF q
      <4>3. Len(r) = y - x /\ DOMAIN r = 1 .. y - x
            /\ \A j \in 1 .. y - x : x + j \in DOMAIN q /\ r[j] = q[x + j]
        BY <4>1, Cut
      <4> HIDE DEF r
      <4>4. QED
        BY <4>2, <4>3 DEF q
    <3>8. p(i).seq_no = t.seq_nr_next + a
      <4>1. a \in SeqNr /\ t.seq_nr_next + a < SeqSpace
        BY <1>2, <1>3, <2>5, <3>1, TcbConstants, SMTT(30) DEF SeqNr
      <4>2. QED
        BY <1>2, <3>2, <4>1, AddExact
    <3>9. Len(data) = z - a /\ Len(data) # 0
      BY <3>1, <3>3, <3>5, <3>7
    <3>10. HasText(p(i))
      <4>1. Len(<<>>) = 0
        OBVIOUS
      <4>2. QED
        BY <3>9, <4>1 DEF HasText, data
    <3>11. End(p(i)) = t.seq_nr_next + z
      <4>1. End(p(i)) = (t.seq_nr_next + a) + (z - a)
        BY <3>8, <3>9 DEF End, data
      <4>2. \A v, w, q \in Nat : (v + w) + (q - w) = v + q
        OBVIOUS
      <4>3. t.seq_nr_next \in Nat /\ a \in Nat /\ z \in Nat
        BY <1>2, <3>1, <3>3
      <4>4. QED
        BY <4>1, <4>2, <4>3
    <3>12. Copies(t, p(i))
      <4> SUFFICES ASSUME NEW j \in 1 .. y - x
                   PROVE  /\ p(i).seq_no - t.seq_nr_unack + j \in DOMAIN t.snd_pq
                          /\ data[j] = t.snd_pq[p(i).seq_no - t.seq_nr_unack + j]
        BY <3>7 DEF Copies, data
      <4>1. x = (t.seq_nr_next - t.seq_nr_unack) + a
        BY <1>3 DEF x, flight
      <4>4. \A v, w, q, h \in Int : (v + q) - w + h = ((v - w) + q) + h
        OBVIOUS
      <4>5. t.seq_nr_next \in Int /\ t.seq_nr_unack \in Int /\ a \in Int /\ j \in Int
        BY <1>2, <3>1
      <4>6. (t.seq_nr_next + a) - t.seq_nr_unack + j = ((t.seq_nr_next - t.seq_nr_unack) + a) + j
        BY <4>4, <4>5
      <4>2. p(i).seq_no - t.seq_nr_unack + j = x + j
        BY <3>8, <4>1, <4>6, Zenon
      <4>3. QED
        BY <3>7, <4>2
    <3>13. a = (i - 1) * m /\ z = Lesser(i * m, left)
      BY DEF a, z, b
    <3>14. QED
      BY <3>1, <3>2, <3>8, <3>10, <3>11, <3>12, <3>13
  <2>9. DOMAIN out = 1 .. k /\ \A i \in 1 .. k : out[i] = p(i)
    OBVIOUS
  <2>10. d.out = out
    <3> DEFINE P == {p(i) : i \in 1 .. k}
    <3> HIDE DEF p, k, d
    <3>1. out \in [1 .. k -> P]
      OBVIOUS
    <3>2. out \in Seq(P)
      BY <2>6, <3>1, FunctionIsSeq
    <3> HIDE DEF out
    <3>3. <<>> \o out = out
      BY <3>2
    <3>4. QED
      BY <2>1, <3>3
  <2> HIDE DEF p, out, k, d, left, from, len, m, flight
  <2>11. Pieces(out, k, m, t.seq_nr_next, left)
    BY <2>8, <2>9 DEF Pieces
  <2>12. Chain(out, t.seq_nr_next, t.seq_nr_next + left) /\ Strict(out, t.seq_nr_next)
    BY <1>1, <1>2, <1>3, <2>3, <2>6, <2>8, <2>11, PiecesChain
  <2>13. u.seq_nr_next - u.seq_nr_unack <= Len(u.snd_pq)
    <3>1. u.seq_nr_unack = t.seq_nr_unack /\ Len(u.snd_pq) = len
      BY <2>2 DEF SameButNext, len
    <3>2. u.seq_nr_next - u.seq_nr_unack = flight + left
      BY <1>2, <1>3, <2>4, <3>1 DEF flight
    <3>3. flight + left = len
      BY <1>3, <2>7
    <3>4. QED
      BY <1>2, <3>1, <3>2, <3>3
  <2>14. t.snd_pq # <<>>
    <3>1. len # 0
      BY <1>3, <2>3, <2>7
    <3>2. QED
      BY <3>1 DEF len
  <2>15. \A j \in DOMAIN out :
            /\ out[j].ack_no = t.rcv_next /\ "ACK" \in out[j].flags
            /\ "SYN" \in out[j].flags => t.next_state = "SynReceived"
            /\ Copies(t, out[j])
    BY <2>8, <2>9
  <2>16. Sends(t, u, out)
    BY <2>2, <2>4, <2>12, <2>13, <2>14, <2>15 DEF Sends
  <2>17. QED
    BY <2>10, <2>16 DEF d
<1>6. QED
  BY <1>4, <1>5

-----------------------------------------------------------------------------
(* What an operation receives *)

\* A queue is its first n bytes and the others.
LEMMA TakeDrop ==
    ASSUME NEW S, NEW s \in Seq(S), NEW n \in Nat, n <= Len(s)
    PROVE  Take(s, n) \o Drop(s, n) = s
<1> DEFINE a == Take(s, n)
           b == Drop(s, n)
           r == a \o b
           N == Len(s)
<1>1. N \in Nat /\ DOMAIN s = 1 .. N /\ n <= N
  OBVIOUS
<1>2. a = SubSeq(s, 0 + 1, n) /\ b = SubSeq(s, n + 1, Len(s))
  BY DEF Take, Drop
<1>3. 0 <= n /\ n <= Len(s) /\ n - 0 = n /\ Len(s) <= Len(s)
  BY <1>1
<1> HIDE DEF a, b
<1>4. a \in Seq(S) /\ Len(a) = n - 0 /\ \A i \in 1 .. n - 0 : a[i] = s[0 + i]
  BY <1>2, <1>3, Cut
<1>5. b \in Seq(S) /\ Len(b) = N - n /\ \A i \in 1 .. N - n : b[i] = s[n + i]
  <2>1. b = SubSeq(s, n + 1, N) /\ N <= Len(s) /\ N \in Nat /\ n <= N
    BY <1>1, <1>2, <1>3
  <2> HIDE DEF N
  <2>2. QED
    BY <2>1, Cut
<1>6. r \in Seq(S) /\ IsConcat(a, b, r)
  BY <1>4, <1>5, ConcatIs
<1> HIDE DEF r, N
<1>7. Len(a) = n /\ \A i \in 1 .. n : a[i] = s[i]
  <2>1. \A i \in 1 .. n : 0 + i = i
    OBVIOUS
  <2>2. QED
    BY <1>3, <1>4, <2>1
<1>8. DOMAIN r = 1 .. N
  BY <1>1, <1>5, <1>6, <1>7 DEF IsConcat
<1>9. ASSUME NEW i \in 1 .. N PROVE r[i] = s[i]
  <2>1. CASE i <= n
    BY <1>1, <1>6, <1>7, <2>1, SMTT(30) DEF IsConcat
  <2>2. CASE ~(i <= n)
    <3>1. i \in DOMAIN r /\ i \notin 1 .. n /\ i - n \in 1 .. N - n /\ n + (i - n) = i
      BY <1>1, <1>8, <2>2
    <3>2. r[i] = b[i - n]
      BY <1>6, <1>7, <3>1 DEF IsConcat
    <3>3. b[i - n] = s[n + (i - n)]
      BY <1>5, <3>1
    <3>4. QED
      BY <3>1, <3>2, <3>3
  <2>3. QED
    BY <2>1, <2>2
<1>10. r = s
  BY <1>1, <1>6, <1>8, <1>9
<1>11. QED
  BY <1>10 DEF r, a, b

\* What a handler that was just posted gives to the application.
LEMMA PostedText ==
    ASSUME NEW q \in Seq(Handler), NEW kind \in HandlerKind, NEW data \in Seq(Byte), ReadText(q) = <<>>
    PROVE  ReadText(Append(q, Post(kind, data))) = IF kind = "read" THEN data ELSE <<>>
<1> DEFINE h == Post(kind, data)
<1>1. h \in Handler /\ h.kind = kind /\ h.data = data
  BY DEF Post, Handler
<1>2. h \in AnyHandler
  BY <1>1 DEF AnyHandler
<1> HIDE DEF h
<1>3. q \in Seq(AnyHandler)
  BY SeqMonotone DEF AnyHandler
<1>4. Append(q, h) = q \o <<h>>
  BY <1>2, <1>3
<1>5. <<h>> \in Seq(AnyHandler) /\ ReadText(<<h>>) = ReadPart(h) /\ ReadPart(h) \in Seq(Byte)
  BY <1>2, ReadTextOne
<1>6. ReadText(q \o <<h>>) = ReadText(q) \o ReadText(<<h>>)
  BY <1>3, <1>5, ReadTextConcat
<1>7. <<>> \o ReadPart(h) = ReadPart(h)
  BY <1>5
<1>8. ReadPart(h) = IF kind = "read" THEN data ELSE <<>>
  BY <1>1 DEF ReadPart
<1>9. QED
  BY <1>4, <1>5, <1>6, <1>7, <1>8 DEF h

\* An operation that posts posts and makes u of TCB t gives the text behind what t
\* has received to the application or keeps it, in order.
Takes(t, u, posts, text) ==
    /\ ReadText(posts) \o u.rcv_pq = t.rcv_pq \o text
    /\ u.rcv_next + Len(u.rcv_pq) = t.rcv_next + Len(t.rcv_pq) + Len(text)

\* At most one read waits, and only while there is nothing to read.
OneRead(t) == Len(t.on_data_receive) <= 1 /\ (t.on_data_receive # <<>> => t.rcv_pq = <<>>)

\* An operation that leaves the receive queue alone and completes no read takes no text.
LEMMA TakesNothing ==
    ASSUME NEW t \in TcbT, NEW u \in TcbT, NEW posts, ReadText(posts) = <<>>, u.rcv_pq = t.rcv_pq,
           u.rcv_next = t.rcv_next
    PROVE  Takes(t, u, posts, <<>>)
<1>1. t.rcv_pq \in Seq(Byte) /\ Len(t.rcv_pq) \in Nat /\ t.rcv_next \in Nat
  BY TcbNumbers
<1>2. <<>> \o t.rcv_pq = t.rcv_pq /\ t.rcv_pq \o <<>> = t.rcv_pq /\ Len(<<>>) = 0
  BY <1>1
<1>3. t.rcv_next + Len(t.rcv_pq) + 0 = t.rcv_next + Len(t.rcv_pq)
  BY <1>1
<1>4. QED
  BY <1>2, <1>3 DEF Takes

\* A read.
LEMMA ReadStream ==
    ASSUME NEW t \in TcbT, NEW size \in Nat, t.rcv_next + Len(t.rcv_pq) < SeqSpace
    PROVE  LET d == async_read_some(Call(t), size)
           IN  /\ Takes(t, d.tcb, d.posts, <<>>)
               /\ OneRead(t) /\ Len(t.on_data_receive) < 1 => OneRead(d.tcb)
<1> DEFINE d == async_read_some(Call(t), size)
           n == Lesser(Len(t.rcv_pq), size)
<1>1. /\ t.rcv_next \in SeqNr /\ t.rcv_next \in Nat
      /\ t.rcv_pq \in Seq(Byte) /\ Len(t.rcv_pq) \in Nat /\ t.on_data_receive \in Seq(Nat)
  BY TcbNumbers DEF TcbT
<1>2. n \in Nat /\ n <= Len(t.rcv_pq)
  BY <1>1, LesserType
<1>3. d \in Context /\ d.tcb \in TcbT
  BY CallType, AsyncReadSomeType DEF Context
<1>4. Call(t).posts = <<>> /\ <<>> \in Seq(Handler) /\ ReadText(<<>>) = <<>>
  BY ReadTextEmpty, EmptySeq DEF Call
<1>5. CASE t.rcv_pq # <<>>
  <2>1. /\ d.tcb.rcv_next = Add(t.rcv_next, n) /\ d.tcb.rcv_pq = Drop(t.rcv_pq, n)
        /\ d.tcb.on_data_receive = t.on_data_receive
        /\ d.posts = Append(<<>>, Post("read", Take(t.rcv_pq, n)))
    BY <1>5 DEF async_read_some, Call, TcbT
  <2> HIDE DEF d, n
  <2>2. /\ Drop(t.rcv_pq, n) \in Seq(Byte) /\ Len(Drop(t.rcv_pq, n)) = Len(t.rcv_pq) - n
        /\ Take(t.rcv_pq, n) \in Seq(Byte)
    BY <1>1, <1>2, DropType, TakeType
  <2>3. ReadText(d.posts) = Take(t.rcv_pq, n)
    <3>1. "read" \in HandlerKind
      BY DEF HandlerKind
    <3>2. QED
      BY <1>4, <2>1, <2>2, <3>1, PostedText
  <2>4. Take(t.rcv_pq, n) \o Drop(t.rcv_pq, n) = t.rcv_pq /\ t.rcv_pq \o <<>> = t.rcv_pq
    <3> DEFINE q == t.rcv_pq
    <3>1. q \in Seq(Byte) /\ n <= Len(q)
      BY <1>1, <1>2
    <3> HIDE DEF q
    <3>2. Take(q, n) \o Drop(q, n) = q
      BY <1>2, <3>1, TakeDrop
    <3>3. q \o <<>> = q
      BY <3>1
    <3>4. QED
      BY <3>2, <3>3 DEF q
  <2>5. Add(t.rcv_next, n) = t.rcv_next + n
    <3>1. n \in SeqNr /\ t.rcv_next + n < SeqSpace
      BY <1>1, <1>2, TcbConstants DEF SeqNr
    <3>2. QED
      BY <1>1, <3>1, AddExact
  <2>6. (t.rcv_next + n) + (Len(t.rcv_pq) - n) = t.rcv_next + Len(t.rcv_pq) + Len(<<>>)
    <3>1. Len(<<>>) = 0
      OBVIOUS
    <3>2. QED
      BY <1>1, <1>2, <3>1
  <2>7. Takes(t, d.tcb, d.posts, <<>>)
    BY <2>1, <2>2, <2>3, <2>4, <2>5, <2>6 DEF Takes
  <2>8. OneRead(t) => OneRead(d.tcb)
    BY <1>5, <2>1 DEF OneRead
  <2>9. QED
    BY <2>7, <2>8 DEF d
<1>6. CASE t.rcv_pq = <<>>
  <2>1. /\ d.tcb.rcv_next = t.rcv_next /\ d.tcb.rcv_pq = t.rcv_pq /\ d.posts = <<>>
        /\ d.tcb.on_data_receive = Append(t.on_data_receive, size)
    BY <1>6 DEF async_read_some, Call, TcbT
  <2> HIDE DEF d, n
  <2>2. Takes(t, d.tcb, d.posts, <<>>)
    BY <1>3, <1>4, <2>1, TakesNothing
  <2>3. ASSUME Len(t.on_data_receive) < 1 PROVE OneRead(d.tcb)
    <3>1. Len(t.on_data_receive) \in Nat /\ Len(d.tcb.on_data_receive) = Len(t.on_data_receive) + 1
      BY <1>1, <2>1
    <3>2. Len(d.tcb.on_data_receive) <= 1
      BY <2>3, <3>1
    <3>3. QED
      BY <1>6, <2>1, <3>2 DEF OneRead
  <2>4. QED
    BY <2>2, <2>3 DEF d
<1>7. QED
  BY <1>5, <1>6

-----------------------------------------------------------------------------
(* A call of the application and the handler that sends what it wrote *)

\* No more is in flight than the send queue holds.
Held(t) == t.seq_nr_next - t.seq_nr_unack <= Len(t.snd_pq)

\* An established TCB that has become u has sent the segments out from nxt on.
Onward(nxt, u, out) ==
    /\ Chain(out, nxt, u.seq_nr_next) /\ Strict(out, nxt)
    /\ \A j \in DOMAIN out : /\ out[j].ack_no = u.rcv_next
                             /\ "ACK" \in out[j].flags /\ "SYN" \notin out[j].flags
                             /\ Copies(u, out[j])

\* What such an operation, which accepts the bytes buf, makes of TCB t.
Called(t, d, buf) ==
    /\ d.tcb.seq_nr_unack = t.seq_nr_unack
    /\ d.tcb.snd_pq = t.snd_pq \o buf
    /\ Held(d.tcb)
    /\ Onward(t.seq_nr_next, d.tcb, d.out)
    /\ Takes(t, d.tcb, d.posts, <<>>)
    /\ MaxReads <= 1 /\ OneRead(t) => OneRead(d.tcb)

\* What is sent in ESTABLISHED is a copy of the queue, from seq_nr_next on.
LEMMA SendsOnward ==
    ASSUME NEW t, NEW u, NEW out, Sends(t, u, out), t.next_state = "Established", Held(t)
    PROVE  Onward(t.seq_nr_next, u, out) /\ Held(u)
<1>1. ASSUME NEW j \in DOMAIN out, Copies(t, out[j]) PROVE Copies(u, out[j])
  BY <1>1 DEF Sends, SameButNext, Copies
<1>2. QED
  BY <1>1 DEF Sends, SameButNext, Onward, Held

\* A whole call of send_app_data takes no text and sends on from seq_nr_next.
LEMMA SendStream ==
    ASSUME NEW t \in TcbT, NEW room \in Nat, SendSide(t, room), t.next_state = "Established", Held(t)
    PROVE  Called(t, send_app_data(Call(t)), <<>>)
<1> DEFINE c == Call(t)
           d == send_app_data(c)
<1>1. c \in Context /\ c.tcb = t /\ c.out = <<>> /\ c.posts = <<>>
  BY CallType DEF Call
<1> HIDE DEF c
<1>2. Sends(t, d.tcb, d.out)
  BY <1>1, SendAppDataStream DEF Held
<1>3. d \in Context /\ d.tcb \in TcbT
  BY <1>1, SendAppDataType DEF Context
<1>4. d.tcb.rcv_pq = t.rcv_pq /\ d.posts = <<>> /\ d.tcb.on_data_receive = t.on_data_receive
  BY <1>1, SendAppDataFrame
<1> HIDE DEF d
<1>5. Onward(t.seq_nr_next, d.tcb, d.out) /\ Held(d.tcb)
  BY <1>2, SendsOnward
<1>6. d.tcb.seq_nr_unack = t.seq_nr_unack /\ d.tcb.snd_pq = t.snd_pq /\ d.tcb.rcv_next = t.rcv_next
  BY <1>2 DEF Sends, SameButNext
<1>7. Takes(t, d.tcb, d.posts, <<>>)
  BY <1>3, <1>4, <1>6, ReadTextEmpty, TakesNothing
<1>8. t.snd_pq \o <<>> = t.snd_pq
  <2>1. t.snd_pq \in Seq(Byte)
    BY TcbNumbers
  <2>2. QED
    BY <2>1
<1>9. OneRead(t) => OneRead(d.tcb)
  BY <1>4 DEF OneRead
<1>10. Called(t, d, <<>>)
  BY <1>5, <1>6, <1>7, <1>8, <1>9 DEF Called
<1>11. QED
  BY <1>10 DEF d, c

\* What a read and a write leave alone.
LEMMA ReadFields ==
    ASSUME NEW t \in TcbT, NEW size \in Nat
    PROVE  LET a == async_read_some(Call(t), size)
           IN  /\ a.out = <<>> /\ a.tcb.next_state = t.next_state /\ a.tcb.seq_nr_next = t.seq_nr_next
               /\ a.tcb.seq_nr_unack = t.seq_nr_unack /\ a.tcb.snd_pq = t.snd_pq
  BY DEF async_read_some, Call, TcbT

\* Two handlers, posted one after the other.
LEMMA TwoPosts ==
    ASSUME NEW S, NEW v \in S, NEW w \in S
    PROVE  Append(Append(<<>>, v), w) = <<>> \o <<v, w>>
<1>1. <<v, w>> \in Seq(S) /\ <<>> \in Seq(S)
  BY EmptySeq
<1>2. <<>> \o <<v, w>> = <<v, w>>
  BY <1>1, ConcatEmptySeq
<1>3. Append(Append(<<>>, v), w) = <<v, w>>
  <2> DEFINE x == Append(<<>>, v)
             y == Append(x, w)
             z == <<v, w>>
  <2>1. x \in Seq(S) /\ Len(x) = 1 /\ x[1] = v
    BY <1>1
  <2> HIDE DEF x
  <2>2. y \in Seq(S) /\ Len(y) = 2 /\ y[1] = v /\ y[2] = w
    <3>1. /\ y \in Seq(S) /\ Len(y) = Len(x) + 1 /\ y[Len(x) + 1] = w
          /\ \A i \in 1 .. Len(x) : y[i] = x[i]
      <4>1. x \in Seq(S)
        BY <2>1
      <4>2. \A p \in Seq(S) :
                LET r == Append(p, w)
                IN  /\ r \in Seq(S) /\ Len(r) = Len(p) + 1 /\ r[Len(p) + 1] = w
                    /\ \A i \in 1 .. Len(p) : r[i] = p[i]
        BY AppendProperties
      <4>3. QED
        BY <4>1, <4>2, Zenon
    <3> HIDE DEF y
    <3>2. 1 \in 1 .. 1 /\ 1 + 1 = 2
      OBVIOUS
    <3>3. QED
      BY <2>1, <3>1, <3>2
  <2>3. z \in Seq(S) /\ Len(z) = 2 /\ z[1] = v /\ z[2] = w
    OBVIOUS
  <2> HIDE DEF y, z
  <2>4. \A i \in 1 .. Len(y) : y[i] = z[i]
    <3>1. 1 .. Len(y) = {1, 2}
      BY <2>2
    <3>2. QED
      BY <2>2, <2>3, <3>1
  <2>5. y = z
    BY <2>2, <2>3, <2>4, SeqEqual
  <2>6. QED
    BY <2>5 DEF y, x, z
<1>4. QED
  BY <1>2, <1>3

\* What is left alone by a write, which may find too little room.
LEMMA WriteFields ==
    ASSUME NEW t \in TcbT, NEW buf \in Seq(Byte)
    PROVE  LET a == async_write(Call(t), buf)
           IN  /\ a.out = <<>> /\ a.tcb.next_state = t.next_state /\ a.tcb.seq_nr_next = t.seq_nr_next
               /\ a.tcb.seq_nr_unack = t.seq_nr_unack /\ a.tcb.rcv_pq = t.rcv_pq
               /\ a.tcb.rcv_next = t.rcv_next /\ a.tcb.on_data_receive = t.on_data_receive
               /\ \/ a.abort = "snd_overflow" /\ a.tcb = t /\ a.posts = <<>>
                  \/ /\ a.abort = "none" /\ a.tcb.snd_pq = t.snd_pq \o buf
                     /\ a.posts = <<>> \o <<Post("send_app_data", <<>>), Post("write", <<>>)>>
<1> DEFINE c == Call(t)
           bad == [c EXCEPT !.abort = "snd_overflow"]
           good == [c EXCEPT !.tcb.snd_pq = @ \o buf,
                             !.posts = @ \o <<Post("send_app_data", <<>>), Post("write", <<>>)>>]
           a == async_write(c, buf)
<1>1. c \in Context /\ c.tcb = t /\ c.posts = <<>> /\ c.out = <<>> /\ c.abort = "none"
  BY CallType DEF Call
<1>2. a = bad \/ a = good
  BY DEF async_write
<1> HIDE DEF c
<1>3. bad.abort = "snd_overflow" /\ bad.tcb = t /\ bad.posts = <<>> /\ bad.out = <<>>
  BY <1>1 DEF Context
<1>4. /\ good.abort = "none" /\ good.tcb = [t EXCEPT !.snd_pq = @ \o buf] /\ good.out = <<>>
      /\ good.posts = <<>> \o <<Post("send_app_data", <<>>), Post("write", <<>>)>>
  BY <1>1 DEF Context
<1> HIDE DEF bad, good, a
<1>5. /\ a.out = <<>> /\ a.tcb.next_state = t.next_state /\ a.tcb.seq_nr_next = t.seq_nr_next
      /\ a.tcb.seq_nr_unack = t.seq_nr_unack /\ a.tcb.rcv_pq = t.rcv_pq
      /\ a.tcb.rcv_next = t.rcv_next /\ a.tcb.on_data_receive = t.on_data_receive
      /\ \/ a.abort = "snd_overflow" /\ a.tcb = t /\ a.posts = <<>>
         \/ /\ a.abort = "none" /\ a.tcb.snd_pq = t.snd_pq \o buf
            /\ a.posts = <<>> \o <<Post("send_app_data", <<>>), Post("write", <<>>)>>
  <2>1. CASE a = bad
    BY <1>3, <2>1
  <2>2. CASE a = good
    <3>1. /\ good.tcb.next_state = t.next_state /\ good.tcb.seq_nr_next = t.seq_nr_next
          /\ good.tcb.seq_nr_unack = t.seq_nr_unack /\ good.tcb.rcv_pq = t.rcv_pq
          /\ good.tcb.rcv_next = t.rcv_next /\ good.tcb.on_data_receive = t.on_data_receive
          /\ good.tcb.snd_pq = t.snd_pq \o buf
      BY <1>4 DEF TcbT
    <3>2. QED
      BY <1>4, <2>2, <3>1
  <2>3. QED
    BY <1>2, <2>1, <2>2
<1>6. QED
  BY <1>5 DEF a, c

\* A call of the application sends nothing: what it writes joins the send queue.
LEMMA AppCallStream ==
    ASSUME NEW t \in TcbT, NEW bufs, bufs \subseteq Seq(Byte), NEW call \in Calls(t, bufs),
           t.next_state = "Established", t.rcv_next + Len(t.rcv_pq) < SeqSpace, Held(t)
    PROVE  LET a == app_call(Call(t), call)
           IN  /\ Called(t, a, IF a.abort = "none" THEN call.buf ELSE <<>>)
               /\ a.out = <<>> /\ a.tcb.next_state = "Established"
               /\ a.tcb.seq_nr_next = t.seq_nr_next
<1> DEFINE a == app_call(Call(t), call)
           buf == IF a.abort = "none" THEN call.buf ELSE <<>>
<1>1. Call(t).tcb = t /\ Call(t).out = <<>> /\ Call(t).posts = <<>> /\ Call(t).abort = "none"
  BY DEF Call
<1>2. a \in Context /\ a.tcb \in TcbT
  BY CallType, AppCallType DEF Context
<1>3. t.snd_pq \in Seq(Byte) /\ t.seq_nr_next \in Nat /\ t.seq_nr_unack \in Nat /\ Len(t.snd_pq) \in Nat
  BY TcbNumbers
<1>4. t.snd_pq \o <<>> = t.snd_pq /\ Chain(<<>>, t.seq_nr_next, t.seq_nr_next)
      /\ Strict(<<>>, t.seq_nr_next) /\ DOMAIN <<>> = {} /\ ReadText(<<>>) = <<>>
  BY <1>3, NoText, NoSegment, ReadTextEmpty
<1>5. \/ /\ call.op = "read" /\ call.buf = <<>> /\ call.size \in Nat
         /\ (MaxReads <= 1 => Len(t.on_data_receive) < 1)
      \/ call.op = "write" /\ call.buf \in bufs
      \/ call.op = "idle" /\ call.buf = <<>>
  <2>1. \/ call = Idle
        \/ \E r \in ReadSizes : /\ call = [op |-> "read", size |-> r, buf |-> <<>>]
                                /\ Len(t.on_data_receive) < MaxReads
        \/ \E b \in bufs : call = [op |-> "write", size |-> 0, buf |-> b]
    BY DEF Calls
  <2>2. Len(t.on_data_receive) \in Nat /\ MaxReads \in Nat /\ ReadSizes \subseteq Nat
    BY ApplicationConstants DEF TcbT
  <2>3. Len(t.on_data_receive) < MaxReads /\ MaxReads <= 1 => Len(t.on_data_receive) < 1
    BY <2>2
  <2>4. QED
    BY <2>1, <2>2, <2>3 DEF Idle
<1>6. /\ a.out = <<>> /\ a.tcb.next_state = "Established" /\ a.tcb.seq_nr_next = t.seq_nr_next
      /\ a.tcb.seq_nr_unack = t.seq_nr_unack /\ a.tcb.snd_pq = t.snd_pq \o buf
      /\ Takes(t, a.tcb, a.posts, <<>>) /\ (MaxReads <= 1 /\ OneRead(t) => OneRead(a.tcb))
      /\ buf \in Seq(Byte)
  <2>0. <<>> \in Seq(Byte) /\ "read" # "write" /\ "read" # "idle" /\ "write" # "idle"
    BY EmptySeq
  <2>1. CASE call.op = "read" /\ call.buf = <<>> /\ call.size \in Nat
             /\ (MaxReads <= 1 => Len(t.on_data_receive) < 1)
    <3>1. a = async_read_some(Call(t), call.size)
      BY <2>1 DEF app_call
    <3>2. buf = <<>>
      BY <2>1
    <3>3. /\ a.out = <<>> /\ a.tcb.next_state = t.next_state /\ a.tcb.seq_nr_next = t.seq_nr_next
          /\ a.tcb.seq_nr_unack = t.seq_nr_unack /\ a.tcb.snd_pq = t.snd_pq
      <4>1. call.size \in Nat
        BY <2>1
      <4> HIDE DEF a
      <4>2. QED
        BY <3>1, <4>1, ReadFields
    <3> HIDE DEF a, buf
    <3>4. Takes(t, a.tcb, a.posts, <<>>) /\ (OneRead(t) /\ Len(t.on_data_receive) < 1 => OneRead(a.tcb))
      BY <2>1, <3>1, ReadStream
    <3>5. QED
      BY <1>4, <2>0, <2>1, <3>2, <3>3, <3>4
  <2>2. CASE call.op = "write" /\ call.buf \in bufs
    <3>1. a = async_write(Call(t), call.buf)
      BY <2>0, <2>2 DEF app_call
    <3>2. /\ a.out = <<>> /\ a.tcb.next_state = t.next_state /\ a.tcb.seq_nr_next = t.seq_nr_next
          /\ a.tcb.seq_nr_unack = t.seq_nr_unack /\ a.tcb.rcv_pq = t.rcv_pq
          /\ a.tcb.rcv_next = t.rcv_next /\ a.tcb.on_data_receive = t.on_data_receive
      <4>1. call.buf \in Seq(Byte)
        BY <2>2
      <4> HIDE DEF a
      <4>2. QED
        BY <3>1, <4>1, WriteFields
    <3>3. \/ a.abort = "snd_overflow" /\ a.tcb = t /\ a.posts = <<>>
          \/ /\ a.abort = "none" /\ a.tcb.snd_pq = t.snd_pq \o call.buf
             /\ a.posts = <<>> \o <<Post("send_app_data", <<>>), Post("write", <<>>)>>
      <4>1. call.buf \in Seq(Byte)
        BY <2>2
      <4> HIDE DEF a
      <4>2. QED
        BY <3>1, <4>1, WriteFields
    <3>4. ReadText(<<>> \o <<Post("send_app_data", <<>>), Post("write", <<>>)>>) = <<>>
      <4> DEFINE x == Append(<<>>, Post("send_app_data", <<>>))
      <4>1. "send_app_data" \in HandlerKind /\ "write" \in HandlerKind /\ <<>> \in Seq(Handler)
        BY EmptySeq DEF HandlerKind
      <4>2. "send_app_data" # "read" /\ "write" # "read"
        OBVIOUS
      <4>3. ReadText(x) = <<>> /\ x \in Seq(Handler)
        BY <1>4, <2>0, <4>1, <4>2, PostedText, PostType
      <4>4. ReadText(Append(x, Post("write", <<>>))) = <<>>
        <5> HIDE DEF x
        <5>1. QED
          BY <2>0, <4>1, <4>2, <4>3, PostedText
      <4>5. Append(x, Post("write", <<>>)) = <<>> \o <<Post("send_app_data", <<>>), Post("write", <<>>)>>
        <5> DEFINE v == Post("send_app_data", <<>>)
                   w == Post("write", <<>>)
        <5> HIDE DEF v, w
        <5>1. Append(Append(<<>>, v), w) = <<>> \o <<v, w>>
          <6>1. v \in {v, w} /\ w \in {v, w}
            OBVIOUS
          <6>2. QED
            BY <6>1, TwoPosts
        <5>2. QED
          BY <5>1 DEF v, w
      <4>6. QED
        BY <4>4, <4>5
    <3> DEFINE posts == a.posts
               u == a.tcb
    <3>5. ReadText(posts) = <<>>
      BY <1>4, <3>3, <3>4
    <3>6. u.snd_pq = t.snd_pq \o buf /\ buf \in Seq(Byte)
      BY <1>4, <2>0, <2>2, <3>3
    <3> HIDE DEF a, buf
    <3>7. Takes(t, u, posts, <<>>)
      BY <1>2, <3>2, <3>5, TakesNothing
    <3>8. OneRead(t) => OneRead(u)
      BY <3>2 DEF OneRead
    <3>9. QED
      BY <3>2, <3>6, <3>7, <3>8
  <2>3. CASE call.op = "idle" /\ call.buf = <<>>
    <3>1. a = Call(t)
      BY <2>0, <2>3 DEF app_call
    <3>2. buf = <<>>
      BY <2>3
    <3> HIDE DEF a, buf
    <3>3. Takes(t, t, <<>>, <<>>)
      BY <1>4, TakesNothing
    <3>4. QED
      BY <1>1, <1>4, <2>0, <3>1, <3>2, <3>3
  <2>4. QED
    BY <1>5, <2>1, <2>2, <2>3
<1> HIDE DEF a, buf
<1>7. Onward(t.seq_nr_next, a.tcb, a.out)
  BY <1>4, <1>6 DEF Onward
<1>8. Held(a.tcb)
  <2>1. Len(t.snd_pq \o buf) = Len(t.snd_pq) + Len(buf) /\ Len(buf) \in Nat
    BY <1>3, <1>6
  <2>2. t.seq_nr_next - t.seq_nr_unack <= Len(t.snd_pq) + Len(buf)
    BY <1>3, <2>1 DEF Held
  <2>3. QED
    BY <1>6, <2>1, <2>2 DEF Held
<1>9. Called(t, a, buf)
  BY <1>6, <1>7, <1>8 DEF Called
<1>10. QED
  BY <1>6, <1>9 DEF buf, a

\* A call of the application, made by itself or from the callback of a read,
\* which is then acknowledged.
LEMMA CallStream ==
    ASSUME NEW t \in TcbT, NEW room \in Nat, SendSide(t, room), t.snd_cap = RcvWindow,
           t.next_state = "Established", t.rcv_next + Len(t.rcv_pq) < SeqSpace,
           NEW bufs, bufs \subseteq Seq(Byte), \A b \in bufs : Len(b) <= room,
           NEW call \in Calls(t, bufs), Held(t),
           NEW d \in {app_call(Call(t), call), read_handler(Call(t), call)}
    PROVE  Called(t, d, IF d.abort = "none" THEN call.buf ELSE <<>>)
<1> DEFINE a == app_call(Call(t), call)
           buf == IF a.abort = "none" THEN call.buf ELSE <<>>
<1>1. a \in Context /\ a.tcb \in TcbT
  BY CallType, AppCallType DEF Context
<1>2. /\ Called(t, a, buf) /\ a.out = <<>> /\ a.tcb.next_state = "Established"
      /\ a.tcb.seq_nr_next = t.seq_nr_next
  BY AppCallStream
<1>3. CASE d = a
  BY <1>2, <1>3
<1>4. CASE d = read_handler(Call(t), call) /\ a.abort # "none"
  <2>1. d = a
    BY <1>4 DEF read_handler
  <2>2. QED
    BY <1>3, <2>1
<1>5. CASE d = read_handler(Call(t), call) /\ a.abort = "none"
  <2>1. d = make_and_send_pkt(a) /\ buf = call.buf
    BY <1>5 DEF read_handler
  <2>2. \E r \in Nat : SendSide(a.tcb, r)
    <3> DEFINE used == IF a.abort = "none" THEN Len(call.buf) ELSE 0
    <3>1. used \in 0 .. room /\ Operated(t, a, room - used)
      BY CallSide
    <3> HIDE DEF a, used
    <3>2. room - used \in Nat /\ SendSide(a.tcb, room - used)
      BY <3>1 DEF Operated
    <3>3. QED
      BY <3>2
  <2> HIDE DEF a, buf
  <2>3. PICK r \in Nat : SendSide(a.tcb, r)
    BY <2>2
  <2>4. Held(a.tcb) /\ a.tcb.snd_pq = t.snd_pq \o buf /\ a.tcb.seq_nr_unack = t.seq_nr_unack
        /\ Takes(t, a.tcb, a.posts, <<>>) /\ (MaxReads <= 1 /\ OneRead(t) => OneRead(a.tcb))
    BY <1>2 DEF Called
  <2>5. Sends(a.tcb, d.tcb, d.out)
    BY <1>1, <1>2, <2>1, <2>3, <2>4, MakeAndSendStream DEF Held
  <2>6. Onward(t.seq_nr_next, d.tcb, d.out) /\ Held(d.tcb)
    BY <1>2, <2>4, <2>5, SendsOnward
  <2>7. /\ d.tcb.rcv_pq = a.tcb.rcv_pq /\ d.tcb.on_data_receive = a.tcb.on_data_receive
        /\ d.posts = a.posts /\ d.abort = "none"
    BY <1>1, <1>5, <2>1, MakeAndSendFrame
  <2>8. /\ d.tcb.seq_nr_unack = a.tcb.seq_nr_unack /\ d.tcb.snd_pq = a.tcb.snd_pq
        /\ d.tcb.rcv_next = a.tcb.rcv_next
    BY <2>5 DEF Sends, SameButNext
  <2>9. Takes(t, d.tcb, d.posts, <<>>) /\ (MaxReads <= 1 /\ OneRead(t) => OneRead(d.tcb))
    BY <2>4, <2>7, <2>8 DEF Takes, OneRead
  <2>10. Called(t, d, call.buf)
    BY <2>1, <2>4, <2>6, <2>8, <2>9 DEF Called
  <2>11. QED
    BY <2>7, <2>10
<1>6. QED
  BY <1>3, <1>4, <1>5

-----------------------------------------------------------------------------
(* A segment that reaches a host which has met the other one *)

\* What such a TCB t has received ends where its text goes on.
EdgeOf(t) == t.rcv_next + Len(t.rcv_pq)

\* What becomes of the text of segment s: taken, not new, or the assert fails, for
\* which two reads have to wait.
Hears(t, u, posts, ab, s) ==
    /\ \/ HasText(s) /\ EdgeOf(t) <= s.seq_no /\ Takes(t, u, posts, s.data)
       \/ (HasText(s) => s.seq_no < EdgeOf(t)) /\ Takes(t, u, posts, <<>>)
       \/ ab = "rcv_pq_not_empty" /\ Takes(t, u, posts, <<>>)
    /\ OneRead(t) => OneRead(u) /\ ab # "rcv_pq_not_empty"

\* Drop as a cut.
LEMMA DropNothing ==
    ASSUME NEW S, NEW q \in Seq(S)
    PROVE  Drop(q, 0) = q
<1>1. 0 \in Nat /\ 0 <= Len(q) /\ Len(q) \in Nat
  OBVIOUS
<1>2. Take(q, 0) \o Drop(q, 0) = q /\ Take(q, 0) \in Seq(S) /\ Len(Take(q, 0)) = 0 /\ Drop(q, 0) \in Seq(S)
  BY <1>1, TakeDrop, TakeType, DropType
<1> DEFINE a == Take(q, 0)
           b == Drop(q, 0)
<1> HIDE DEF a, b
<1>3. a \in Seq(S) /\ Len(a) = 0 /\ b \in Seq(S) /\ a \o b = q
  BY <1>2 DEF a, b
<1>4. a = <<>>
  BY <1>3, EmptySeq
<1>5. <<>> \o b = b
  BY <1>3, ConcatEmptySeq
<1>6. QED
  BY <1>3, <1>4, <1>5 DEF b

\* Context d is what an acknowledgment of something in flight makes of TCB t.
AckTaken(t, d, s) ==
    /\ d.out = <<>> /\ d.abort = "none" /\ d.ret = FALSE /\ ReadText(d.posts) = <<>>
    /\ d.tcb.state = "Established" /\ d.tcb.next_state = "Established"
    /\ d.tcb.seq_nr_next = t.seq_nr_next /\ d.tcb.seq_nr_unack = s.ack_no
    /\ d.tcb.snd_pq = Drop(t.snd_pq, Lesser(Len(t.snd_pq), s.ack_no - t.seq_nr_unack))
    /\ d.tcb.rcv_next = t.rcv_next /\ d.tcb.rcv_pq = t.rcv_pq
    /\ d.tcb.on_data_receive = t.on_data_receive

\* The ACK step.
LEMMA AckStream ==
    ASSUME NEW t \in TcbT, t.state \in {"SynReceived", "Established"},
           t.state = "Established" => t.next_state = "Established",
           t.state = "SynReceived" => t.snd_pq = <<>>,
           NEW s \in Segment, "ACK" \in s.flags,
           t.seq_nr_unack <= s.ack_no, s.ack_no <= t.seq_nr_next,
           NEW una \in clamp(s.ack_no, t.seq_nr_unack, t.seq_nr_next)
    PROVE  AckTaken(t, process_ack(Call(t), s, una), s)
<1> DEFINE c == Call(t)
           d == process_ack(c, s, una)
           k == Lesser(Len(t.snd_pq), s.ack_no - t.seq_nr_unack)
<1>1. c.tcb = t /\ c.out = <<>> /\ c.abort = "none" /\ c \in Context /\ c.ret = FALSE /\ c.posts = <<>>
  BY CallType DEF Call
<1> HIDE DEF c
<1>2. /\ t.seq_nr_next \in Nat /\ t.seq_nr_unack \in Nat /\ s.ack_no \in Nat /\ s.ack_no \in SeqNr
      /\ t.seq_nr_unack \in SeqNr /\ t.snd_pq \in Seq(Byte)
  BY TcbNumbers, SegmentNumbers
<1>3. una = s.ack_no
  <2>1. t.seq_nr_unack <= t.seq_nr_next /\ ~(s.ack_no < t.seq_nr_unack)
    BY <1>2
  <2>2. QED
    BY <1>2, <2>1, ClampExact
<1>4. ReadText(<<>>) = <<>>
  BY ReadTextEmpty
<1>5. CASE t.state = "Established"
  <2> DEFINE u == take_ack(t, s, una)
             v == [u EXCEPT !.next_state =
                        IF t.state = "FinWait_1" THEN "FinWait_2"
                        ELSE IF t.state = "Closing" THEN "TimeWait" ELSE @]
  <2>1. ~(s.ack_no > t.seq_nr_next)
    BY <1>2
  <2>2. d = [c EXCEPT !.tcb = v]
    BY <1>1, <1>5, <2>1 DEF process_ack
  <2>3. u \in TcbT
    BY <1>2, <1>3, TakeAckType
  <2>4. Sub(s.ack_no, t.seq_nr_unack) = s.ack_no - t.seq_nr_unack
    <3>1. s.ack_no >= t.seq_nr_unack
      BY <1>2
    <3>2. QED
      BY <1>2, <3>1, SubExact
  <2>5. /\ u.state = t.state /\ u.next_state = t.next_state /\ u.seq_nr_next = t.seq_nr_next
        /\ u.seq_nr_unack = una /\ u.rcv_next = t.rcv_next /\ u.rcv_pq = t.rcv_pq
        /\ u.on_data_receive = t.on_data_receive
        /\ u.snd_pq = Drop(t.snd_pq, Lesser(Len(t.snd_pq), Sub(s.ack_no, t.seq_nr_unack)))
    BY DEF take_ack, TcbT
  <2> HIDE DEF u
  <2>6. /\ v.state = u.state /\ v.next_state = u.next_state /\ v.seq_nr_next = u.seq_nr_next
        /\ v.seq_nr_unack = u.seq_nr_unack /\ v.rcv_next = u.rcv_next /\ v.rcv_pq = u.rcv_pq
        /\ v.on_data_receive = u.on_data_receive /\ v.snd_pq = u.snd_pq
    BY <1>5, <2>3 DEF TcbT
  <2> HIDE DEF v, d
  <2>7. d.tcb = v /\ d.out = <<>> /\ d.abort = "none" /\ d.posts = <<>>
    BY <1>1, <2>2 DEF Context
  <2>8. d.ret = FALSE
    BY <1>1, <2>2, Zenon DEF Context
  <2>9. QED
    BY <1>3, <1>4, <1>5, <2>4, <2>5, <2>6, <2>7, <2>8 DEF d, c, AckTaken
<1>6. CASE t.state = "SynReceived"
  <2> DEFINE u == [t EXCEPT !.seq_nr_unack = una, !.state = "Established",
                            !.next_state = "Established"]
             e == [c EXCEPT !.tcb = u]
  <2>1. d = listen_finish(e)
    BY <1>1, <1>6 DEF process_ack
  <2>2. /\ u.seq_nr_unack = una /\ u.seq_nr_next = t.seq_nr_next /\ u.state = "Established"
        /\ u.next_state = "Established"
        /\ u.snd_pq = t.snd_pq /\ u.rcv_next = t.rcv_next /\ u.rcv_pq = t.rcv_pq
        /\ u.on_data_receive = t.on_data_receive
    BY <1>6 DEF TcbT
  <2> HIDE DEF u
  <2>3. e.tcb = u /\ e.out = <<>> /\ e.abort = "none" /\ e.posts = <<>>
    BY <1>1 DEF Context
  <2>4. e.ret = FALSE
    BY <1>1, Zenon DEF Context
  <2>5. d.tcb = e.tcb /\ d.out = e.out /\ d.abort = e.abort /\ d.posts = Append(e.posts, Post("established", <<>>))
    BY <1>1, <2>1 DEF listen_finish, Context
  <2>6. d.ret = e.ret
    BY <1>1, <2>1, Zenon DEF listen_finish, Context
  <2> HIDE DEF d, e
  <2>7. ReadText(d.posts) = <<>>
    <3>1. "established" \in HandlerKind /\ "established" # "read" /\ <<>> \in Seq(Handler) /\ <<>> \in Seq(Byte)
      BY EmptySeq DEF HandlerKind
    <3>2. ReadText(Append(<<>>, Post("established", <<>>))) = <<>>
      BY <1>4, <3>1, PostedText
    <3>3. QED
      BY <2>3, <2>5, <3>2
  <2>8. Drop(t.snd_pq, k) = t.snd_pq
    <3>1. Len(t.snd_pq) = 0 /\ s.ack_no - t.seq_nr_unack \in Nat
      <4>1. Len(<<>>) = 0
        OBVIOUS
      <4>2. QED
        BY <1>2, <1>6, <4>1
    <3>2. k = 0
      BY <3>1 DEF Lesser
    <3> HIDE DEF k
    <3>3. QED
      BY <1>2, <3>2, DropNothing
  <2> HIDE DEF k
  <2>9. AckTaken(t, d, s)
    BY <1>3, <2>2, <2>3, <2>4, <2>5, <2>6, <2>7, <2>8 DEF AckTaken, k
  <2>10. QED
    BY <2>9 DEF d, c
<1>7. QED
  BY <1>5, <1>6

\* The text step of an established connection.
LEMMA TextStream ==
    ASSUME NEW c \in Context, c.tcb.state = "Established", c.ret = FALSE, c.abort = "none",
           ReadText(c.posts) = <<>>, NEW s \in Segment, End(s) < SeqSpace,
           process_text(c, s).abort # "rcv_overflow"
    PROVE  LET d == process_text(c, s) IN Hears(c.tcb, d.tcb, d.posts, d.abort, s)
<1> DEFINE t == c.tcb
           n == Lesser(Len(s.data), Head(t.on_data_receive))
           d == process_text(c, s)
           r2 == [c EXCEPT !.abort = "rcv_pq_not_empty"]
           r3 == [c EXCEPT !.tcb.rcv_pq = @ \o s.data]
           r4 == [c EXCEPT
                    !.tcb = [t EXCEPT !.on_data_receive = Tail(@), !.rcv_next = Add(@, n),
                                      !.rcv_pq = Drop(s.data, n)],
                    !.posts = Append(@, Post("read", Take(s.data, n)))]
           new == HasText(s) /\ EdgeOf(t) <= s.seq_no
<1>1. /\ t \in TcbT /\ t.rcv_next \in Nat /\ t.rcv_next \in SeqNr /\ Len(t.rcv_pq) \in Nat
      /\ t.rcv_pq \in Seq(Byte) /\ t.on_data_receive \in Seq(Nat) /\ EdgeOf(t) \in Nat
  BY TcbNumbers DEF Context, TcbT, EdgeOf
<1>2. s.seq_no \in Nat /\ s.data \in Seq(Byte) /\ Len(s.data) \in Nat
  BY SegmentNumbers
<1>3. d \in Context /\ d.tcb \in TcbT /\ c.posts \in Seq(Handler)
  BY ProcessTextType DEF Context
<1>4. \/ ~new /\ d = c
      \/ new /\ t.on_data_receive = <<>> /\ d = r3
      \/ new /\ t.on_data_receive # <<>> /\ t.rcv_pq # <<>> /\ d = r2
      \/ new /\ t.on_data_receive # <<>> /\ t.rcv_pq = <<>> /\ d = r4
  <2> DEFINE a1 == [c EXCEPT !.abort = "rcv_overflow"]
             nt == /\ s.data # <<>> /\ t.state \in {"Established", "FinWait_1", "FinWait_2"}
                   /\ s.seq_no >= t.rcv_next + Len(t.rcv_pq)
  <2>1. a1.abort = "rcv_overflow"
    BY DEF Context
  <2>2. nt <=> new
    <3>1. s.seq_no >= t.rcv_next + Len(t.rcv_pq) <=> EdgeOf(t) <= s.seq_no
      BY <1>1, <1>2 DEF EdgeOf
    <3>2. QED
      BY <3>1 DEF HasText
  <2>3. d = IF c.ret \/ ~nt THEN c
            ELSE IF t.on_data_receive = <<>>
            THEN IF Len(t.rcv_pq) + Len(s.data) > RcvWindow THEN a1 ELSE r3
            ELSE IF t.rcv_pq # <<>> THEN r2 ELSE r4
    BY DEF process_text
  <2>4. d # a1
    BY <2>1
  <2> HIDE DEF a1, r2, r3, r4, new, nt, d, t
  <2>5. CASE nt
    <3>1. d = IF t.on_data_receive = <<>>
              THEN IF Len(t.rcv_pq) + Len(s.data) > RcvWindow THEN a1 ELSE r3
              ELSE IF t.rcv_pq # <<>> THEN r2 ELSE r4
      BY <2>3, <2>5
    <3>2. QED
      BY <2>2, <2>4, <2>5, <3>1
  <2>6. CASE ~nt
    BY <2>2, <2>3, <2>6
  <2>7. QED
    BY <2>5, <2>6
<1>5. c.abort # "rcv_pq_not_empty" /\ "rcv_pq_not_empty" # "none"
  OBVIOUS
<1>6. CASE ~new /\ d = c
  <2>1. HasText(s) => s.seq_no < EdgeOf(t)
    BY <1>1, <1>2, <1>6
  <2>2. Takes(t, d.tcb, d.posts, <<>>)
    BY <1>1, <1>6, TakesNothing
  <2> HIDE DEF d
  <2>3. QED
    BY <1>5, <1>6, <2>1, <2>2 DEF Hears, d
<1>7. CASE new /\ t.on_data_receive = <<>> /\ d = r3
  <2>1. /\ d.tcb.rcv_next = t.rcv_next /\ d.tcb.rcv_pq = t.rcv_pq \o s.data /\ d.abort = "none"
        /\ d.posts = c.posts /\ d.tcb.on_data_receive = t.on_data_receive
    BY <1>1, <1>7, ZenonT(30) DEF Context, TcbT
  <2> HIDE DEF d, r2, r3, r4
  <2>2. Len(t.rcv_pq \o s.data) = Len(t.rcv_pq) + Len(s.data) /\ t.rcv_pq \o s.data \in Seq(Byte)
    BY <1>1, <1>2, ConcatProperties
  <2>3. <<>> \o (t.rcv_pq \o s.data) = t.rcv_pq \o s.data
    <3> DEFINE x == t.rcv_pq \o s.data
    <3> HIDE DEF x
    <3>1. x \in Seq(Byte) => <<>> \o x = x
      BY ConcatEmptySeq
    <3>2. QED
      BY <2>2, <3>1 DEF x
  <2>4. t.rcv_next + (Len(t.rcv_pq) + Len(s.data)) = t.rcv_next + Len(t.rcv_pq) + Len(s.data)
    <3>1. \A x, y, z \in Nat : x + (y + z) = x + y + z
      OBVIOUS
    <3>2. QED
      BY <1>1, <1>2, <3>1, ZenonT(30)
  <2> HIDE DEF t
  <2>5. Takes(t, d.tcb, d.posts, s.data)
    BY <2>1, <2>2, <2>3, <2>4 DEF Takes, t
  <2>6. OneRead(d.tcb) /\ d.abort # "rcv_pq_not_empty"
    <3>1. Len(<<>>) = 0
      OBVIOUS
    <3>2. QED
      BY <1>5, <1>7, <2>1, <3>1 DEF OneRead
  <2>7. QED
    BY <1>7, <2>5, <2>6 DEF Hears, d, t
<1>8. CASE new /\ t.on_data_receive # <<>> /\ t.rcv_pq # <<>> /\ d = r2
  <2>1. d.tcb = t /\ d.posts = c.posts /\ d.abort = "rcv_pq_not_empty"
    BY <1>8 DEF Context
  <2> HIDE DEF d, r2, r3, r4
  <2>2. Takes(t, d.tcb, d.posts, <<>>)
    BY <1>1, <2>1, TakesNothing
  <2>3. ~OneRead(t)
    BY <1>8 DEF OneRead
  <2>4. QED
    BY <2>1, <2>2, <2>3 DEF Hears, d
<1>9. CASE new /\ t.on_data_receive # <<>> /\ t.rcv_pq = <<>> /\ d = r4
  <2>1. n \in Nat /\ n <= Len(s.data)
    <3>1. Head(t.on_data_receive) \in Nat
      BY <1>1, <1>9, HeadTailProperties
    <3>2. QED
      BY <1>2, <3>1, LesserType
  <2> HIDE DEF n
  <2>2. /\ d.tcb.rcv_next = Add(t.rcv_next, n) /\ d.tcb.rcv_pq = Drop(s.data, n) /\ d.abort = "none"
        /\ d.posts = Append(c.posts, Post("read", Take(s.data, n)))
        /\ d.tcb.on_data_receive = Tail(t.on_data_receive)
    BY <1>1, <1>9, ZenonT(30) DEF Context, TcbT
  <2> HIDE DEF d, r2, r3, r4
  <2>3. /\ Len(Drop(s.data, n)) = Len(s.data) - n /\ Drop(s.data, n) \in Seq(Byte)
        /\ Take(s.data, n) \in Seq(Byte) /\ Take(s.data, n) \o Drop(s.data, n) = s.data
    BY <1>2, <2>1, DropType, TakeType, TakeDrop
  <2>4. ReadText(d.posts) = Take(s.data, n)
    <3>1. "read" \in HandlerKind
      BY DEF HandlerKind
    <3>2. QED
      BY <1>3, <2>2, <2>3, <3>1, PostedText
  <2>5. Len(t.rcv_pq) = 0 /\ <<>> \o s.data = s.data
    BY <1>2, <1>9, ConcatEmptySeq
  <2>6. Add(t.rcv_next, n) = t.rcv_next + n
    <3>1. t.rcv_next <= s.seq_no
      BY <1>1, <1>2, <1>9, <2>5 DEF EdgeOf
    <3>2. n \in SeqNr /\ t.rcv_next + n < SeqSpace
      <4>1. ASSUME NEW x \in Nat, NEW y \in Nat, NEW z \in Nat, NEW v \in Nat, NEW w \in Nat,
                   y <= z, x <= v, v + z < w
            PROVE  y \in 0 .. w - 1 /\ x + y < w
        BY <4>1
      <4>2. s.seq_no + Len(s.data) < SeqSpace /\ SeqSpace \in Nat
        BY TcbConstants DEF End
      <4>3. QED
        BY <1>1, <1>2, <2>1, <3>1, <4>1, <4>2 DEF SeqNr
    <3>3. QED
      BY <1>1, <3>2, AddExact
  <2>7. (t.rcv_next + n) + (Len(s.data) - n) = t.rcv_next + Len(t.rcv_pq) + Len(s.data)
    <3>1. \A x, y, z \in Nat : (x + y) + (z - y) = x + 0 + z
      OBVIOUS
    <3>2. QED
      BY <1>1, <1>2, <2>1, <2>5, <3>1
  <2> HIDE DEF t
  <2>8. Takes(t, d.tcb, d.posts, s.data)
    <3>1. t.rcv_pq \o s.data = s.data
      BY <1>9, <2>5
    <3>2. ReadText(d.posts) \o d.tcb.rcv_pq = t.rcv_pq \o s.data
      BY <2>2, <2>3, <2>4, <3>1
    <3>3. Len(d.tcb.rcv_pq) = Len(s.data) - n /\ d.tcb.rcv_next = t.rcv_next + n
      BY <2>2, <2>3, <2>6
    <3>4. QED
      BY <2>7, <3>2, <3>3 DEF Takes
  <2>9. OneRead(t) => OneRead(d.tcb) /\ d.abort # "rcv_pq_not_empty"
    <3>1. ASSUME OneRead(t) PROVE OneRead(d.tcb)
      <4> DEFINE q == t.on_data_receive
      <4>1. q \in Seq(Nat) /\ q # <<>> /\ Len(q) <= 1
        BY <1>1, <1>9, <3>1 DEF OneRead
      <4> HIDE DEF q
      <4>2. Len(q) = 1
        <5>1. Len(q) \in Nat /\ Len(q) # 0
          BY <4>1, EmptySeq
        <5>2. \A k \in Nat : k # 0 /\ k <= 1 => k = 1
          OBVIOUS
        <5>3. QED
          BY <4>1, <5>1, <5>2
      <4>3. Tail(q) = <<>>
        BY <4>1, <4>2, OneElement
      <4>4. d.tcb.on_data_receive = <<>> /\ Len(<<>>) = 0
        BY <2>2, <4>3 DEF q
      <4>5. QED
        BY <4>4 DEF OneRead
    <3>2. QED
      BY <1>5, <2>2, <3>1
  <2>10. QED
    BY <1>9, <2>8, <2>9 DEF Hears, d, t
<1>10. QED
  BY <1>4, <1>6, <1>7, <1>8, <1>9

\* What process() makes of TCB t and segment s: an acknowledgment is taken, or
\* the segment is not looked at any further.
Heard(t, d, s) ==
    /\ d.out = <<>> /\ d.tcb.seq_nr_next = t.seq_nr_next
    /\ \/ /\ d.tcb.state = t.state
          /\ d.tcb.seq_nr_unack = t.seq_nr_unack /\ d.tcb.snd_pq = t.snd_pq
       \/ /\ "ACK" \in s.flags /\ d.tcb.state = "Established"
          /\ d.tcb.seq_nr_unack = s.ack_no
          /\ d.tcb.snd_pq = Drop(t.snd_pq, Lesser(Len(t.snd_pq), s.ack_no - t.seq_nr_unack))
    /\ Hears(t, d.tcb, d.posts, d.abort, s)

\* All of process() for a segment that may come from the peer.
LEMMA HearStream ==
    ASSUME NEW t \in TcbT, t.state \in {"SynReceived", "Established"},
           t.state = "Established" => t.next_state = "Established",
           t.state = "SynReceived" => t.snd_pq = <<>>,
           NEW s \in Segment, s.flags \in {{"SYN"}, {"SYN", "ACK"}, {"ACK"}},
           "SYN" \in s.flags => ~HasText(s), End(s) < SeqSpace,
           "ACK" \in s.flags => t.seq_nr_unack <= s.ack_no /\ s.ack_no <= t.seq_nr_next,
           Add(t.rcv_next, RcvWindow) # 0,
           NEW isn \in SeqNr, NEW una \in clamp(s.ack_no, t.seq_nr_unack, t.seq_nr_next),
           process(Call(t), s, isn, una).abort # "rcv_overflow"
    PROVE  Heard(t, process(Call(t), s, isn, una), s)
<1> DEFINE c == Call(t)
           d == process(c, s, isn, una)
           a == process_ack(c, s, una)
           e == process_text(a, s)
<1>1. c.tcb = t /\ c.out = <<>> /\ c.abort = "none" /\ c \in Context /\ c.ret = FALSE /\ c.posts = <<>>
  BY CallType DEF Call
<1> HIDE DEF c
<1>2. t.rcv_next \in Nat /\ Len(t.rcv_pq) \in Nat /\ s.seq_no \in Nat
  BY TcbNumbers, SegmentNumbers
<1>3. CASE d = c /\ (HasText(s) => s.seq_no < EdgeOf(t))
  <2>1. Takes(t, t, <<>>, <<>>)
    BY TakesNothing, ReadTextEmpty
  <2> HIDE DEF d
  <2>2. "none" # "rcv_pq_not_empty"
    OBVIOUS
  <2>3. Hears(t, d.tcb, d.posts, d.abort, s)
    BY <1>1, <1>3, <2>1, <2>2 DEF Hears
  <2>4. Heard(t, d, s)
    BY <1>1, <1>3, <2>3 DEF Heard
  <2>5. QED
    BY <2>4 DEF d, c
<1>4. CASE d # c \/ ~(HasText(s) => s.seq_no < EdgeOf(t))
  <2>1. tcp_check_segment(t, s) /\ "SYN" \notin s.flags
    <3>1. CASE HasText(s) /\ ~(s.seq_no < EdgeOf(t))
      <4>1. "SYN" \notin s.flags
        BY <3>1
      <4>2. Len(s.data) # 0
        BY <3>1, SegmentNumbers, EmptySeq DEF HasText
      <4>3. t.rcv_next <= s.seq_no
        BY <1>2, <3>1 DEF EdgeOf
      <4>4. QED
        BY <4>1, <4>2, <4>3 DEF tcp_check_segment
    <3>2. CASE d # c
      BY <1>1, <3>2 DEF process
    <3>3. QED
      BY <1>4, <3>1, <3>2
  <2>2. s.flags = {"ACK"} /\ "ACK" \in s.flags
    BY <2>1
  <2>3. d = e
    <3>1. process_fin(e, s) = e
      BY <2>2 DEF process_fin
    <3>2. s.flags \cap {"RST", "SYN"} = {}
      BY <2>2
    <3> HIDE DEF e
    <3>3. d = process_fin(process_text(process_ack(c, s, una), s), s)
      BY <1>1, <2>1, <3>2 DEF process
    <3>4. QED
      BY <3>1, <3>3 DEF e
  <2>4. t.seq_nr_unack <= s.ack_no /\ s.ack_no <= t.seq_nr_next
    BY <2>2
  <2>5. /\ a.out = <<>> /\ a.abort = "none" /\ a.ret = FALSE /\ ReadText(a.posts) = <<>>
        /\ a.tcb.state = "Established" /\ a.tcb.next_state = "Established"
        /\ a.tcb.seq_nr_next = t.seq_nr_next /\ a.tcb.seq_nr_unack = s.ack_no
        /\ a.tcb.snd_pq = Drop(t.snd_pq, Lesser(Len(t.snd_pq), s.ack_no - t.seq_nr_unack))
        /\ a.tcb.rcv_next = t.rcv_next /\ a.tcb.rcv_pq = t.rcv_pq
        /\ a.tcb.on_data_receive = t.on_data_receive
    <3>1. AckTaken(t, a, s)
      BY <2>2, <2>4, AckStream DEF c
    <3> HIDE DEF a
    <3>2. QED
      BY <3>1 DEF AckTaken
  <2>6. a \in Context
    <3>1. una \in SeqNr
      BY ClampType, TcbNumbers, SegmentNumbers
    <3>2. QED
      BY <1>1, <3>1, ProcessAckType
  <2> HIDE DEF a
  <2>7. Hears(a.tcb, e.tcb, e.posts, e.abort, s)
    <3>1. e.abort # "rcv_overflow"
      BY <2>3 DEF c
    <3>2. QED
      BY <2>5, <2>6, <3>1, TextStream
  <2>8. /\ e.tcb.seq_nr_next = a.tcb.seq_nr_next /\ e.tcb.seq_nr_unack = a.tcb.seq_nr_unack
        /\ e.tcb.snd_pq = a.tcb.snd_pq /\ e.tcb.state = a.tcb.state /\ e.out = a.out
    BY <2>6, ProcessTextFrame
  <2> HIDE DEF e
  <2>9. Hears(t, e.tcb, e.posts, e.abort, s)
    BY <2>5, <2>7 DEF Hears, Takes, OneRead, EdgeOf
  <2>10. Heard(t, e, s)
    BY <2>2, <2>5, <2>8, <2>9 DEF Heard
  <2>11. QED
    BY <2>3, <2>10 DEF d, c
<1>5. QED
  BY <1>3, <1>4

-----------------------------------------------------------------------------
(* The SYN exchange *)

\* Context c is that of a TCB which has sent its SYN, with number isn.
Greets(c, isn) ==
    /\ c.tcb.seq_nr_next = isn + 1 /\ c.posts = <<>>
    /\ \A j \in DOMAIN c.out :
            /\ "SYN" \in c.out[j].flags /\ ~HasText(c.out[j]) /\ c.out[j].seq_no = isn
            /\ "ACK" \in c.out[j].flags => c.out[j].ack_no = c.tcb.rcv_next

\* The client's SYN.
LEMMA ConnectStream ==
    ASSUME NEW m \in Nat, NEW isn \in SeqNr, isn + 1 < SeqSpace
    PROVE  LET c == start_connecting(Call(new_tcb("Connecting", m)), isn, MyMss)
           IN  Greets(c, isn) /\ c.tcb.on_data_receive = <<>> /\ c.abort = "none"
<1> DEFINE c == start_connecting(Call(new_tcb("Connecting", m)), isn, MyMss)
           p == [flags |-> {"SYN"}, seq_no |-> isn, ack_no |-> 0,
                 window |-> RcvWindow, mss |-> MyMss, data |-> <<>>]
<1>1. /\ c.tcb.seq_nr_next = Add(isn, 1) /\ c.tcb.on_data_receive = <<>> /\ c.posts = <<>>
      /\ c.out = Append(<<>>, p) /\ c.abort = "none"
  BY DEF start_connecting, Call, new_tcb
<1>2. p.flags = {"SYN"} /\ p.seq_no = isn /\ p.data = <<>>
  OBVIOUS
<1> HIDE DEF c, p
<1>3. isn \in Nat /\ 1 \in SeqNr
  BY TcbConstants DEF SeqNr
<1>4. c.tcb.seq_nr_next = isn + 1
  BY <1>1, <1>3, AddExact
<1>5. c.out = <<p>>
  BY <1>1
<1> DEFINE L == <<p>>
<1>6. DOMAIN L = {1} /\ L[1] = p
  OBVIOUS
<1> HIDE DEF L
<1>7. c.out = L /\ "ACK" \notin p.flags /\ "SYN" \in p.flags /\ ~HasText(p)
  BY <1>2, <1>5 DEF L, HasText
<1>8. Greets(c, isn)
  BY <1>1, <1>2, <1>4, <1>6, <1>7 DEF Greets
<1>9. QED
  BY <1>1, <1>8 DEF c

\* A packet of a TCB that has nothing to send.
LEMMA EmptyPacket ==
    ASSUME NEW c \in Context, c.out = <<>>, c.tcb.snd_pq = <<>>
    PROVE  LET d == make_and_send_pkt(c)
           IN  /\ SameButNext(c.tcb, d.tcb) /\ d.tcb.seq_nr_next = c.tcb.seq_nr_next
               /\ \A j \in DOMAIN d.out :
                    /\ ~HasText(d.out[j]) /\ d.out[j].seq_no = c.tcb.seq_nr_unack
                    /\ d.out[j].ack_no = c.tcb.rcv_next /\ "ACK" \in d.out[j].flags
                    /\ "SYN" \in d.out[j].flags <=> c.tcb.next_state = "SynReceived"
<1> DEFINE t       == c.tcb
           from    == app_data_unacknowleged(t)
           seg_len == app_data_to_send_left(t)
           seq_no  == IF seg_len = 0 THEN t.seq_nr_unack ELSE t.seq_nr_next
           data    == SubSeq(t.snd_pq, from + 1, from + seg_len)
           p       == packet(t, seq_no, data)
           d       == make_and_send_pkt(c)
           u       == d.tcb
<1>1. t \in TcbT /\ d \in Context /\ u \in TcbT
  BY MakeAndSendType DEF Context
<1>2. d.out = <<p>>
  <2>1. d.out = Append(c.out, p)
    BY DEF make_and_send_pkt, Context
  <2>2. QED
    BY <2>1
<1>3. SameButNext(t, u) /\ u.seq_nr_next = Add(t.seq_nr_next, seg_len)
  BY <1>1 DEF make_and_send_pkt, Context, TcbT, SameButNext
<1>4. seg_len = 0 /\ from = 0
  <2>1. Len(t.snd_pq) = 0
    BY EmptySeq
  <2> HIDE DEF t
  <2>2. from \in 0 .. 0 /\ seg_len \in 0 .. 0 - from
    BY <1>1, <2>1, SendSizes
  <2> HIDE DEF from, seg_len
  <2>3. QED
    BY <2>2
<1>5. u.seq_nr_next = t.seq_nr_next
  <2>1. Add(t.seq_nr_next, 0) = t.seq_nr_next
    <3>1. 0 \in SeqNr /\ t.seq_nr_next \in SeqNr /\ t.seq_nr_next \in Nat /\ t.seq_nr_next < SeqSpace
      BY <1>1, TcbConstants, TcbNumbers DEF SeqNr
    <3> DEFINE v == t.seq_nr_next
    <3> HIDE DEF v
    <3>2. v \in SeqNr /\ v \in Nat /\ v < SeqSpace
      BY <3>1 DEF v
    <3>3. v + 0 = v /\ v + 0 < SeqSpace
      BY <3>2
    <3>4. Add(v, 0) = v
      BY <3>1, <3>2, <3>3, AddExact
    <3>5. QED
      BY <3>4 DEF v
  <2>2. QED
    BY <1>3, <1>4, <2>1
<1>6. /\ p.seq_no = seq_no /\ p.data = data /\ p.ack_no = t.rcv_next /\ "ACK" \in p.flags
      /\ ("SYN" \in p.flags <=> t.next_state = "SynReceived")
  BY DEF packet
<1>7. seq_no = t.seq_nr_unack
  BY <1>4
<1>8. data = <<>>
  <2>1. data = SubSeq(<<>>, 1, 0)
    BY <1>4
  <2>2. QED
    BY <2>1
<1> DEFINE L == <<p>>
<1>9. DOMAIN L = {1} /\ L[1] = p
  OBVIOUS
<1> HIDE DEF L, p, seq_no, data, d, t
<1>10. d.out = L
  BY <1>2 DEF L
<1>11. QED
  BY <1>3, <1>5, <1>6, <1>7, <1>8, <1>9, <1>10 DEF HasText, d, t

\* The server's answer to it.
LEMMA ListenStream ==
    ASSUME NEW t \in TcbT, t.state = "Listen", NEW isn \in SeqNr, isn + 1 < SeqSpace,
           NEW s \in Segment, s.seq_no + 1 < SeqSpace, NEW una
    PROVE  LET c == process(Call(t), s, isn, una)
           IN  \/ c = Call(t)
               \/ /\ Greets(c, isn) /\ "SYN" \in s.flags
                  /\ c.tcb.state = "SynReceived" /\ c.abort = "none"
                  /\ c.tcb.rcv_next = s.seq_no + 1 /\ c.tcb.rcv_pq = t.rcv_pq
                  /\ c.tcb.on_data_receive = t.on_data_receive /\ c.tcb.seq_nr_unack = isn
<1> DEFINE d == [Call(t) EXCEPT !.tcb = [@ EXCEPT
                !.mss = accept_mss(t, s), !.rcv_next = Add(s.seq_no, 1),
                !.snd_cap = s.window, !.snd_pq = <<>>,
                !.seq_nr_next = Add(isn, 1), !.seq_nr_unack = isn,
                !.next_state = "SynReceived"]]
           c == process(Call(t), s, isn, una)
<1>1. /\ Call(t).tcb = t /\ Call(t).out = <<>> /\ Call(t).abort = "none" /\ Call(t).posts = <<>>
      /\ Call(t) \in Context
  BY CallType DEF Call
<1>2. c = tcp_handle_listen_state(Call(t), s, isn)
  BY <1>1 DEF process
<1>3. CASE s.flags \cap {"RST", "ACK", "SYN"} # {"SYN"}
  BY <1>2, <1>3 DEF tcp_handle_listen_state
<1>4. CASE s.flags \cap {"RST", "ACK", "SYN"} = {"SYN"}
  <2>1. c = make_and_send_pkt(d)
    BY <1>1, <1>2, <1>4 DEF tcp_handle_listen_state
  <2>2. d \in Context
    <3>1. Add(s.seq_no, 1) \in SeqNr /\ Add(isn, 1) \in SeqNr /\ s.window \in SeqNr
      BY AddType DEF Segment
    <3>2. accept_mss(t, s) \in Nat /\ <<>> \in Seq(Byte) /\ "SynReceived" \in TcpState
      BY AcceptMssType, EmptySeq DEF TcpState
    <3>3. QED
      BY <1>1, <3>1, <3>2 DEF Context, TcbT
  <2>3. /\ d.out = <<>> /\ d.abort = "none" /\ d.posts = <<>>
        /\ d.tcb.rcv_next = Add(s.seq_no, 1) /\ d.tcb.snd_pq = <<>>
        /\ d.tcb.seq_nr_next = Add(isn, 1) /\ d.tcb.seq_nr_unack = isn
        /\ d.tcb.next_state = "SynReceived" /\ d.tcb.rcv_pq = t.rcv_pq
        /\ d.tcb.on_data_receive = t.on_data_receive
    BY <1>1 DEF Context, TcbT
  <2>4. "SYN" \in s.flags
    BY <1>4
  <2> HIDE DEF d, c
  <2>5. isn \in Nat /\ 1 \in SeqNr /\ s.seq_no \in SeqNr
    BY TcbConstants, SegmentNumbers DEF SeqNr
  <2>6. Add(isn, 1) = isn + 1 /\ Add(s.seq_no, 1) = s.seq_no + 1
    BY <2>5, AddExact
  <2>7. /\ SameButNext(d.tcb, c.tcb) /\ c.tcb.seq_nr_next = d.tcb.seq_nr_next
        /\ \A j \in DOMAIN c.out :
             /\ ~HasText(c.out[j]) /\ c.out[j].seq_no = d.tcb.seq_nr_unack
             /\ c.out[j].ack_no = d.tcb.rcv_next /\ "ACK" \in c.out[j].flags
             /\ "SYN" \in c.out[j].flags <=> d.tcb.next_state = "SynReceived"
    BY <2>1, <2>2, <2>3, EmptyPacket
  <2>8. /\ c.tcb.state = d.tcb.next_state /\ c.tcb.on_data_receive = d.tcb.on_data_receive
        /\ c.posts = d.posts /\ c.abort = d.abort
    BY <2>1, <2>2, MakeAndSendFrame
  <2>9. c.tcb.rcv_next = d.tcb.rcv_next /\ c.tcb.rcv_pq = d.tcb.rcv_pq
        /\ c.tcb.seq_nr_unack = d.tcb.seq_nr_unack
    BY <2>7 DEF SameButNext
  <2>10. Greets(c, isn)
    BY <2>3, <2>6, <2>7, <2>8, <2>9 DEF Greets
  <2>11. QED
    BY <2>3, <2>4, <2>6, <2>8, <2>9, <2>10 DEF c
<1>5. QED
  BY <1>3, <1>4

\* What the client makes of that answer.
LEMMA SynSentStream ==
    ASSUME NEW t \in TcbT, t.state = "SynSent",
           NEW s \in Segment, s.seq_no + 1 < SeqSpace, NEW isn, NEW una
    PROVE  LET c == process(Call(t), s, isn, una)
           IN  \/ c = Call(t)
               \/ /\ "SYN" \in s.flags /\ "ACK" \in s.flags
                  /\ c.tcb.state = "Established" /\ c.abort = "none" /\ ReadText(c.posts) = <<>>
                  /\ c.tcb.seq_nr_next = t.seq_nr_next /\ c.tcb.seq_nr_unack = s.ack_no
                  /\ c.tcb.snd_pq = <<>> /\ s.ack_no <= t.seq_nr_next
                  /\ c.tcb.rcv_next = s.seq_no + 1 /\ c.tcb.rcv_pq = t.rcv_pq
                  /\ c.tcb.on_data_receive = t.on_data_receive
                  /\ \A j \in DOMAIN c.out :
                        /\ ~HasText(c.out[j]) /\ c.out[j].ack_no = c.tcb.rcv_next
                        /\ "SYN" \notin c.out[j].flags
<1> DEFINE d == [Call(t) EXCEPT !.tcb = [@ EXCEPT
                !.mss = accept_mss(t, s), !.rcv_next = Add(s.seq_no, 1),
                !.snd_cap = s.window, !.snd_pq = <<>>,
                !.seq_nr_unack = s.ack_no,
                !.state = "Established", !.next_state = "Established"]]
           e == make_and_send_pkt(d)
           c == process(Call(t), s, isn, una)
<1>1. /\ Call(t).tcb = t /\ Call(t).out = <<>> /\ Call(t).abort = "none" /\ Call(t).posts = <<>>
      /\ Call(t) \in Context
  BY CallType DEF Call
<1>2. c = tcp_handle_syn_sent(Call(t), s)
  BY <1>1 DEF process
<1>3. CASE ~syn_ack_acceptable(t, s)
  BY <1>1, <1>2, <1>3 DEF tcp_handle_syn_sent
<1>4. CASE syn_ack_acceptable(t, s)
  <2>1. c = listen_finish(e)
    BY <1>1, <1>2, <1>4 DEF tcp_handle_syn_sent
  <2>2. d \in Context
    <3>1. Add(s.seq_no, 1) \in SeqNr /\ s.ack_no \in SeqNr /\ s.window \in SeqNr
      BY AddType DEF Segment
    <3>2. accept_mss(t, s) \in Nat /\ <<>> \in Seq(Byte) /\ "Established" \in TcpState
      BY AcceptMssType, EmptySeq DEF TcpState
    <3>3. QED
      BY <1>1, <3>1, <3>2 DEF Context, TcbT
  <2>3. /\ d.out = <<>> /\ d.abort = "none" /\ d.posts = <<>>
        /\ d.tcb.rcv_next = Add(s.seq_no, 1) /\ d.tcb.snd_pq = <<>>
        /\ d.tcb.seq_nr_next = t.seq_nr_next /\ d.tcb.seq_nr_unack = s.ack_no
        /\ d.tcb.next_state = "Established" /\ d.tcb.rcv_pq = t.rcv_pq
        /\ d.tcb.on_data_receive = t.on_data_receive
    BY <1>1 DEF Context, TcbT
  <2>4. e \in Context
    BY <2>2, MakeAndSendType
  <2>5. "SYN" \in s.flags /\ "ACK" \in s.flags /\ s.ack_no <= t.seq_nr_next
    BY <1>4 DEF syn_ack_acceptable
  <2> HIDE DEF d, c
  <2>6. 1 \in SeqNr /\ s.seq_no \in SeqNr
    BY TcbConstants, SegmentNumbers DEF SeqNr
  <2>7. Add(s.seq_no, 1) = s.seq_no + 1
    BY <2>6, AddExact
  <2>8. /\ SameButNext(d.tcb, e.tcb) /\ e.tcb.seq_nr_next = d.tcb.seq_nr_next
        /\ \A j \in DOMAIN e.out :
             /\ ~HasText(e.out[j]) /\ e.out[j].seq_no = d.tcb.seq_nr_unack
             /\ e.out[j].ack_no = d.tcb.rcv_next /\ "ACK" \in e.out[j].flags
             /\ "SYN" \in e.out[j].flags <=> d.tcb.next_state = "SynReceived"
    BY <2>2, <2>3, EmptyPacket
  <2>9. /\ e.tcb.state = d.tcb.next_state /\ e.tcb.on_data_receive = d.tcb.on_data_receive
        /\ e.posts = d.posts /\ e.abort = d.abort
    BY <2>2, MakeAndSendFrame
  <2> HIDE DEF e
  <2>10. /\ e.tcb.rcv_next = d.tcb.rcv_next /\ e.tcb.rcv_pq = d.tcb.rcv_pq
         /\ e.tcb.seq_nr_unack = d.tcb.seq_nr_unack /\ e.tcb.snd_pq = d.tcb.snd_pq
    BY <2>8 DEF SameButNext
  <2>11. /\ c.tcb = e.tcb /\ c.out = e.out /\ c.abort = e.abort
         /\ c.posts = Append(<<>>, Post("established", <<>>))
    BY <2>1, <2>3, <2>4, <2>9 DEF listen_finish, Context
  <2>12. ReadText(c.posts) = <<>>
    <3>1. "established" \in HandlerKind /\ "established" # "read" /\ <<>> \in Seq(Handler) /\ <<>> \in Seq(Byte)
      BY EmptySeq DEF HandlerKind
    <3>2. ReadText(Append(<<>>, Post("established", <<>>))) = <<>>
      BY <3>1, PostedText, ReadTextEmpty
    <3>3. QED
      BY <2>11, <3>2
  <2>13. "Established" # "SynReceived"
    OBVIOUS
  <2>14. QED
    BY <2>3, <2>5, <2>7, <2>8, <2>9, <2>10, <2>11, <2>12, <2>13 DEF c
<1>5. QED
  BY <1>3, <1>4

-----------------------------------------------------------------------------
(* The two ends of a stream *)

MetIn(t) == t.state \in {"SynReceived", "Established"}

\* The number of the first byte of the stream that TCB t sends, when w bytes of
\* it have been written.
Origin(t, w) ==
    IF t.state = "Established" THEN t.seq_nr_unack + Len(t.snd_pq) - w ELSE t.seq_nr_next

\* The send queue of t holds the end of what was written.
Sender(t, w) ==
    /\ t.state # "Established" => w = 0
    /\ t.state = "Established" =>
            /\ Held(t) /\ Origin(t, w) <= t.seq_nr_unack
            /\ \A i \in DOMAIN t.snd_pq : t.snd_pq[i] = t.seq_nr_unack - Origin(t, w) + i

\* TCB t has got the front of the stream that starts at b; R is what it gave away.
Receiver(t, b, R) ==
    /\ ~MetIn(t) => R = <<>> /\ t.rcv_pq = <<>>
    /\ MetIn(t) => EdgeOf(t) = b + Len(R \o t.rcv_pq)
    /\ \A i \in DOMAIN (R \o t.rcv_pq) : (R \o t.rcv_pq)[i] = i

\* The segments of line L, from TCB p, belong to the stream that starts at b.
Belongs(p, b, s) ==
    /\ "SYN" \in s.flags => ~HasText(s) /\ s.seq_no + 1 = b
    /\ HasText(s) => p.state = "Established"
    /\ \A i \in DOMAIN s.data : s.data[i] = s.seq_no - b + i
Carries(p, b, L) == \A j \in DOMAIN L : Belongs(p, b, L[j])

\* They bring TCB t what comes next.
InOrder(p, t, L, ab, strict) ==
    MetIn(t) /\ ab # "rcv_pq_not_empty" =>
        Chain(L, EdgeOf(t), p.seq_nr_next) /\ (strict => Strict(L, EdgeOf(t)))

\* They acknowledge something of the stream of t, which starts at a.
AcksOf(t, a, L) ==
    Acks(L, t.seq_nr_unack) /\ \A j \in DOMAIN L : "ACK" \in L[j].flags => a <= L[j].ack_no

\* The stream from TCB p to TCB t.
FlowOf(p, b, t, a, L, R, ab, strict) ==
    /\ Receiver(t, b, R) /\ Carries(p, b, L)
    /\ InOrder(p, t, L, ab, strict) /\ AcksOf(t, a, L)

\* The send side takes an acknowledgment.
LEMMA HeardSender ==
    ASSUME NEW t \in TcbT, NEW d, d.tcb \in TcbT, NEW s \in Segment, NEW w \in Nat,
           Heard(t, d, s), Sender(t, w), MetIn(t), t.state = "SynReceived" => t.snd_pq = <<>>,
           "ACK" \in s.flags => /\ Origin(t, w) <= s.ack_no
                                /\ t.seq_nr_unack <= s.ack_no /\ s.ack_no <= t.seq_nr_next
    PROVE  Sender(d.tcb, w) /\ Origin(d.tcb, w) = Origin(t, w)
<1> DEFINE u == d.tcb
           q == t.snd_pq
           r == u.snd_pq
           una == t.seq_nr_unack
           nxt == t.seq_nr_next
           ack == s.ack_no
           len == Len(q)
<1>1. /\ una \in Nat /\ nxt \in Nat /\ ack \in Nat /\ q \in Seq(Byte) /\ len \in Nat
      /\ DOMAIN q = 1 .. len
  <2>1. una \in Nat /\ nxt \in Nat /\ ack \in Nat /\ q \in Seq(Byte)
    BY TcbNumbers, SegmentNumbers
  <2> HIDE DEF q, una, nxt, ack
  <2>2. QED
    BY <2>1
<1>2. u.seq_nr_next = nxt
  BY DEF Heard
<1>3. CASE u.state = t.state /\ u.seq_nr_unack = una /\ r = q
  BY <1>2, <1>3 DEF Sender, Origin, Held
<1>4. CASE /\ "ACK" \in s.flags /\ u.state = "Established" /\ u.seq_nr_unack = ack
           /\ r = Drop(q, Lesser(len, ack - una))
  <2>1. Origin(t, w) <= ack /\ una <= ack /\ ack <= nxt
    BY <1>4
  <2>2. CASE t.state = "SynReceived"
    <3>1. Origin(t, w) = nxt /\ w = 0 /\ q = <<>>
      BY <2>2 DEF Origin, Sender
    <3>2. ack = nxt
      BY <1>1, <2>1, <3>1
    <3>3. len = 0 /\ ack - una \in Nat
      <4>1. Len(<<>>) = 0
        OBVIOUS
      <4>2. QED
        BY <1>1, <2>1, <3>1, <4>1
    <3>4. Lesser(len, ack - una) = 0
      BY <3>3 DEF Lesser
    <3>5. r = <<>>
      <4>1. r = Drop(q, 0)
        BY <1>4, <3>4
      <4>2. q \in Seq(Byte)
        BY <1>1
      <4> HIDE DEF q, r
      <4>3. Drop(q, 0) = q
        BY <4>2, DropNothing
      <4>4. QED
        BY <3>1, <4>1, <4>3
    <3>6. Len(r) = 0 /\ DOMAIN r = {}
      BY <3>5
    <3> HIDE DEF q, r, una, nxt, ack, len
    <3>7. ack + Len(r) - w = nxt
      BY <1>1, <3>1, <3>2, <3>6
    <3>8. Origin(u, w) = nxt
      BY <1>4, <3>7 DEF Origin, r
    <3>9. nxt - ack <= Len(r) /\ nxt <= ack
      BY <1>1, <3>2, <3>6
    <3>10. Sender(u, w)
      BY <1>2, <1>4, <3>6, <3>8, <3>9 DEF Sender, Held, r
    <3>11. QED
      BY <3>1, <3>8, <3>10
  <2>3. CASE t.state = "Established"
    <3> DEFINE b == Origin(t, w)
               k == ack - una
    <3>1. /\ b = una + len - w /\ nxt - una <= len /\ b <= una
          /\ \A i \in DOMAIN q : q[i] = una - b + i
      BY <2>3 DEF Sender, Held, Origin
    <3>2. b <= ack
      BY <2>1
    <3> HIDE DEF b
    <3>3. b \in Int /\ k \in Nat /\ k <= len
      BY <1>1, <2>1, <3>1
    <3>4. Lesser(len, k) = k
      <4>1. k \in Nat /\ len \in Nat /\ k <= len
        BY <1>1, <3>3
      <4> HIDE DEF k, len
      <4>2. QED
        BY <4>1 DEF Lesser
    <3>5. r = SubSeq(q, k + 1, len)
      BY <1>4, <3>4 DEF Drop
    <3> HIDE DEF q, r, k
    <3>6. /\ Len(r) = len - k /\ DOMAIN r = 1 .. len - k
          /\ \A i \in 1 .. len - k : k + i \in DOMAIN q /\ r[i] = q[k + i]
      <4>1. len <= Len(q)
        BY <1>1
      <4>2. q \in Seq(Byte) /\ k \in Nat /\ len \in Nat /\ k <= len
        BY <1>1, <3>3
      <4> HIDE DEF len, una, nxt, ack, u
      <4>3. LET x == SubSeq(q, k + 1, len)
            IN  /\ Len(x) = len - k /\ DOMAIN x = 1 .. len - k
                /\ \A i \in 1 .. len - k : k + i \in DOMAIN q /\ x[i] = q[k + i]
        BY <4>1, <4>2, Cut
      <4>4. QED
        BY <3>5, <4>3, Zenon
    <3> HIDE DEF una, nxt, ack, len
    <3>7. ack + Len(r) - w = b
      <4>1. k = ack - una
        BY DEF k
      <4>2. QED
        BY <1>1, <3>1, <3>3, <3>6, <4>1
    <3>8. Origin(u, w) = b
      BY <1>4, <3>7 DEF Origin, r
    <3>9. nxt - ack <= Len(r)
      <4>1. k = ack - una
        BY DEF k
      <4>2. QED
        BY <1>1, <3>1, <3>3, <3>6, <4>1
    <3>10. \A i \in DOMAIN r : r[i] = ack - b + i
      <4> SUFFICES ASSUME NEW i \in 1 .. len - k PROVE r[i] = ack - b + i
        BY <3>6
      <4>1. r[i] = una - b + (k + i)
        BY <3>1, <3>6
      <4>2. una - b + (k + i) = ack - b + i
        <5>1. k = ack - una /\ i \in Int
          BY DEF k
        <5>2. QED
          BY <1>1, <3>3, <5>1
      <4>3. QED
        BY <4>1, <4>2
    <3>11. Sender(u, w)
      BY <1>2, <1>4, <3>2, <3>8, <3>9, <3>10 DEF Sender, Held, r
    <3>12. QED
      BY <3>8, <3>11 DEF b
  <2>4. QED
    BY <2>2, <2>3 DEF MetIn
<1>5. QED
  BY <1>3, <1>4 DEF Heard

\* The application writes the bytes buf.
LEMMA CalledSender ==
    ASSUME NEW t \in TcbT, NEW d, d.tcb \in TcbT, NEW w \in Nat, NEW buf \in Seq(Byte),
           Called(t, d, buf), Sender(t, w), t.state = "Established", d.tcb.state = "Established",
           \A i \in DOMAIN buf : buf[i] = w + i
    PROVE  Sender(d.tcb, w + Len(buf)) /\ Origin(d.tcb, w + Len(buf)) = Origin(t, w)
<1> DEFINE u == d.tcb
           q == t.snd_pq
           r == u.snd_pq
           una == t.seq_nr_unack
           b == Origin(t, w)
           v == w + Len(buf)
<1>1. una \in Nat /\ q \in Seq(Byte) /\ Len(q) \in Nat /\ Len(buf) \in Nat
  BY TcbNumbers
<1>2. b = una + Len(q) - w /\ b <= una /\ \A i \in DOMAIN q : q[i] = una - b + i
  BY DEF Sender, Origin
<1>3. u.seq_nr_unack = una /\ r = q \o buf /\ Held(u)
  BY DEF Called
<1>4. IsConcat(q, buf, r)
  BY <1>1, <1>3, ConcatIs
<1> HIDE DEF q, r, una, b, u
<1>5. b \in Int
  BY <1>1, <1>2
<1>6. Len(r) = Len(q) + Len(buf)
  BY <1>4 DEF IsConcat
<1>7. una + Len(r) - v = b
  BY <1>1, <1>2, <1>6
<1>8. Origin(u, v) = b
  <2> HIDE DEF v
  <2>1. QED
    BY <1>3, <1>7 DEF Origin, r, u
<1>9. \A i \in DOMAIN r : r[i] = una - b + i
  <2> SUFFICES ASSUME NEW i \in DOMAIN r PROVE r[i] = una - b + i
    OBVIOUS
  <2>1. CASE i \in DOMAIN q
    BY <1>2, <1>4, <2>1 DEF IsConcat
  <2>2. CASE i \notin DOMAIN q
    <3>1. i - Len(q) \in DOMAIN buf /\ r[i] = buf[i - Len(q)] /\ i \in Nat
      BY <1>1, <1>4, <2>2 DEF IsConcat
    <3>2. r[i] = w + (i - Len(q))
      BY <3>1
    <3>3. w + (i - Len(q)) = una - b + i
      BY <1>1, <1>2, <1>5, <3>1
    <3>4. QED
      BY <3>2, <3>3
  <2>3. QED
    BY <2>1, <2>2
<1> HIDE DEF v
<1>10. Sender(u, v)
  BY <1>2, <1>3, <1>8, <1>9 DEF Sender, r, u
<1>11. QED
  BY <1>8, <1>10 DEF u, v, b

\* What an established TCB sends belongs to its stream.
LEMMA OnwardCarries ==
    ASSUME NEW u \in TcbT, NEW w \in Nat, NEW nxt, NEW out \in Seq(Segment), Sender(u, w),
           u.state = "Established", Onward(nxt, u, out)
    PROVE  Carries(u, Origin(u, w), out)
<1> DEFINE b == Origin(u, w)
           una == u.seq_nr_unack
           q == u.snd_pq
<1>1. una \in Nat /\ Len(q) \in Nat
  BY TcbNumbers
<1>2. b = una + Len(q) - w /\ \A i \in DOMAIN q : q[i] = una - b + i
  BY DEF Sender, Origin
<1> HIDE DEF b, una, q
<1>3. b \in Int
  BY <1>1, <1>2
<1> SUFFICES ASSUME NEW j \in DOMAIN out PROVE Belongs(u, b, out[j])
  BY DEF Carries, b
<1> DEFINE s == out[j]
<1>4. s \in Segment
  OBVIOUS
<1>5. "SYN" \notin s.flags /\ Copies(u, s)
  BY DEF Onward
<1> HIDE DEF s
<1>6. s.seq_no \in Nat /\ s.data \in Seq(Byte)
  BY <1>4, SegmentNumbers
<1>7. ASSUME NEW i \in DOMAIN s.data PROVE s.data[i] = s.seq_no - b + i
  <2> DEFINE k == s.seq_no - una + i
  <2>1. k \in DOMAIN q /\ s.data[i] = q[k]
    BY <1>5 DEF Copies, q, una
  <2>2. s.data[i] = una - b + k
    BY <1>2, <2>1
  <2>3. i \in Int
    BY <1>6
  <2>4. una - b + k = s.seq_no - b + i
    BY <1>1, <1>3, <1>6, <2>3
  <2>5. QED
    BY <2>2, <2>4
<1>8. QED
  BY <1>5, <1>7 DEF Belongs, s

\* The receive side takes text.
LEMMA ReceiverTakes ==
    ASSUME NEW t \in TcbT, NEW u \in TcbT, NEW posts \in Seq(Handler), NEW b \in Nat,
           NEW R \in Seq(Byte), NEW text \in Seq(Byte),
           Receiver(t, b, R), MetIn(t), MetIn(u), Takes(t, u, posts, text),
           \A i \in DOMAIN text : text[i] = EdgeOf(t) - b + i
    PROVE  Receiver(u, b, R \o ReadText(posts)) /\ EdgeOf(u) = EdgeOf(t) + Len(text)
<1> DEFINE m == ReadText(posts)
           q == t.rcv_pq
           r == u.rcv_pq
           X == R \o q
           Y == (R \o m) \o r
<1>1. /\ q \in Seq(Byte) /\ r \in Seq(Byte) /\ EdgeOf(t) \in Nat /\ Len(text) \in Nat
  BY TcbNumbers DEF EdgeOf
<1>2. m \in Seq(Byte)
  BY RxPosts, EmptySeq, ReadTextType
<1>3. m \o r = q \o text /\ EdgeOf(u) = EdgeOf(t) + Len(text)
  BY DEF Takes, EdgeOf
<1>4. EdgeOf(t) = b + Len(X) /\ \A i \in DOMAIN X : X[i] = i
  BY DEF Receiver
<1> HIDE DEF m, q, r
<1>5. X \in Seq(Byte) /\ Y = X \o text
  <2>1. \A x, y, z \in Seq(Byte) : (x \o y) \o z = x \o (y \o z)
    BY Groups, SMTT(30)
  <2>2. Y = R \o (m \o r)
    BY <1>1, <1>2, <2>1, ZenonT(30)
  <2>3. R \o (q \o text) = X \o text
    BY <1>1, <2>1
  <2>4. X \in Seq(Byte)
    BY <1>1, ConcatProperties
  <2>5. QED
    BY <1>3, <2>2, <2>3, <2>4
<1> HIDE DEF X, Y
<1>6. IsConcat(X, text, Y)
  BY <1>5, ConcatIs
<1>7. Len(X) \in Nat /\ Len(Y) = Len(X) + Len(text)
  BY <1>6 DEF IsConcat
<1>8. EdgeOf(u) = b + Len(Y)
  BY <1>1, <1>3, <1>4, <1>7
<1>9. \A i \in DOMAIN Y : Y[i] = i
  <2> SUFFICES ASSUME NEW i \in DOMAIN Y PROVE Y[i] = i
    OBVIOUS
  <2>1. CASE i \in DOMAIN X
    BY <1>4, <1>6, <2>1 DEF IsConcat
  <2>2. CASE i \notin DOMAIN X
    <3>1. i - Len(X) \in DOMAIN text /\ Y[i] = text[i - Len(X)] /\ i \in Nat
      BY <1>1, <1>6, <1>7, <2>2 DEF IsConcat
    <3>2. Y[i] = EdgeOf(t) - b + (i - Len(X))
      BY <3>1
    <3>3. EdgeOf(t) - b + (i - Len(X)) = i
      BY <1>4, <1>7, <3>1
    <3>4. QED
      BY <3>2, <3>3
  <2>3. QED
    BY <2>1, <2>2
<1>10. Receiver(u, b, R \o m)
  BY <1>8, <1>9 DEF Receiver, Y, r
<1>11. QED
  BY <1>3, <1>10 DEF m

\* The first segment of a line leaves it.
LEMMA CarriesTail ==
    ASSUME NEW L \in Seq(Segment), L # <<>>, NEW p, NEW b
    PROVE  /\ Carries(p, b, L) => Carries(p, b, Tail(L)) /\ Belongs(p, b, Head(L))
           /\ \A a : AcksOf(p, a, L) =>
                /\ AcksOf(p, a, Tail(L))
                /\ "ACK" \in Head(L).flags =>
                        p.seq_nr_unack <= Head(L).ack_no /\ a <= Head(L).ack_no
<1>1. IsTail(L, Tail(L)) /\ Head(L) = L[1]
  BY TailIs
<1>2. 1 \in DOMAIN L /\ \A i \in DOMAIN Tail(L) : i + 1 \in DOMAIN L /\ Tail(L)[i] = L[i + 1]
  BY <1>1 DEF IsTail
<1>3. Carries(p, b, L) => Carries(p, b, Tail(L)) /\ Belongs(p, b, Head(L))
  BY <1>1, <1>2 DEF Carries
<1>4. ASSUME NEW a, AcksOf(p, a, L)
      PROVE  /\ AcksOf(p, a, Tail(L))
             /\ "ACK" \in Head(L).flags => p.seq_nr_unack <= Head(L).ack_no /\ a <= Head(L).ack_no
  <2>1. Acks(L, p.seq_nr_unack) /\ \A j \in DOMAIN L : "ACK" \in L[j].flags => a <= L[j].ack_no
    BY <1>4 DEF AcksOf
  <2>2. Acks(Tail(L), p.seq_nr_unack)
        /\ ("ACK" \in Head(L).flags => p.seq_nr_unack <= Head(L).ack_no)
    BY <2>1, AcksTail
  <2>3. \A j \in DOMAIN Tail(L) : "ACK" \in Tail(L)[j].flags => a <= Tail(L)[j].ack_no
    BY <1>2, <2>1
  <2>4. QED
    BY <1>1, <1>2, <2>1, <2>2, <2>3 DEF AcksOf
<1>5. QED
  BY <1>3, <1>4

\* Nothing new: no text is taken.
LEMMA NoNewText ==
    ASSUME NEW t \in TcbT, NEW u \in TcbT, NEW posts \in Seq(Handler), NEW b \in Nat,
           NEW R \in Seq(Byte), Receiver(t, b, R), MetIn(t), MetIn(u), Takes(t, u, posts, <<>>)
    PROVE  Receiver(u, b, R \o ReadText(posts)) /\ EdgeOf(u) = EdgeOf(t)
<1>1. <<>> \in Seq(Byte) /\ DOMAIN <<>> = {} /\ Len(<<>>) = 0
  BY EmptySeq, NoSegment
<1> DEFINE x == <<>>
<1>5. /\ x \in Seq(Byte) /\ Len(x) = 0 /\ Takes(t, u, posts, x)
      /\ \A i \in DOMAIN x : x[i] = EdgeOf(t) - b + i
  BY <1>1
<1> HIDE DEF x
<1>2. Receiver(u, b, R \o ReadText(posts)) /\ EdgeOf(u) = EdgeOf(t) + Len(x)
  <2>1. ASSUME NEW y \in Seq(Byte), Takes(t, u, posts, y),
               \A i \in DOMAIN y : y[i] = EdgeOf(t) - b + i
        PROVE  Receiver(u, b, R \o ReadText(posts)) /\ EdgeOf(u) = EdgeOf(t) + Len(y)
    BY <2>1, ReceiverTakes
  <2>2. QED
    BY <1>5, <2>1, Zenon
<1>3. EdgeOf(t) \in Nat
  BY TcbNumbers DEF EdgeOf
<1>4. QED
  BY <1>2, <1>3, <1>5

\* The stream to a host that takes the first segment of the line.
LEMMA FlowHeard ==
    ASSUME NEW p \in TcbT, NEW t \in TcbT, NEW c \in Context, NEW b \in Nat, NEW a,
           NEW L \in Seq(Segment), L # <<>>, NEW R \in Seq(Byte), NEW strict \in BOOLEAN,
           FlowOf(p, b, t, a, L, R, "none", strict), MetIn(t), MetIn(c.tcb), Heard(t, c, Head(L))
    PROVE  FlowOf(p, b, c.tcb, a, Tail(L), R \o ReadText(c.posts), c.abort, strict)
<1> DEFINE s == Head(L)
           T == Tail(L)
           u == c.tcb
           e == p.seq_nr_next
           x == EdgeOf(t)
<1>1. s \in Segment /\ T \in Seq(Segment)
  BY TailIs
<1>2. u \in TcbT /\ c.posts \in Seq(Handler)
  BY DEF Context
<1>3. x \in Nat /\ e \in Nat /\ s.seq_no \in Nat /\ s.data \in Seq(Byte) /\ Len(s.data) \in Nat
      /\ End(s) = s.seq_no + Len(s.data) /\ End(s) \in Nat
  BY <1>1, TcbNumbers, SegmentNumbers, SMTT(30) DEF EdgeOf, End
<1>4. /\ Receiver(t, b, R) /\ Carries(p, b, L) /\ AcksOf(t, a, L)
      /\ Chain(L, x, e) /\ (strict => Strict(L, x))
  BY DEF FlowOf, InOrder
<1>5. Carries(p, b, T) /\ Belongs(p, b, s)
  BY <1>4, CarriesTail
<1>6. AcksOf(u, a, T)
  <2>1. AcksOf(t, a, T)
    BY <1>4, CarriesTail
  <2>2. \/ u.seq_nr_unack = t.seq_nr_unack
        \/ "ACK" \in s.flags /\ u.seq_nr_unack = s.ack_no
    BY DEF Heard
  <2>3. "ACK" \in s.flags => Acks(T, s.ack_no)
    BY <1>4, AcksTail DEF AcksOf
  <2>4. QED
    BY <2>1, <2>2, <2>3 DEF AcksOf
<1>7. \/ HasText(s) /\ x <= s.seq_no /\ Takes(t, u, c.posts, s.data)
      \/ (HasText(s) => s.seq_no < x) /\ Takes(t, u, c.posts, <<>>)
      \/ c.abort = "rcv_pq_not_empty" /\ Takes(t, u, c.posts, <<>>)
  BY DEF Heard, Hears
<1> HIDE DEF s, T, u, x
<1>8. CASE HasText(s) /\ x <= s.seq_no /\ Takes(t, u, c.posts, s.data)
  <2>1. s.seq_no = x /\ Chain(T, End(s), e)
    BY <1>3, <1>4, <1>8, ChainTailNew DEF s, T
  <2>2. strict => Strict(T, End(s))
    BY <1>3, <1>4, <1>8, StrictTail DEF s, T
  <2>3. \A i \in DOMAIN s.data : s.data[i] = x - b + i
    BY <1>5, <2>1 DEF Belongs
  <2>4. Receiver(u, b, R \o ReadText(c.posts)) /\ EdgeOf(u) = x + Len(s.data)
    BY <1>2, <1>3, <1>4, <1>8, <2>3, ReceiverTakes, SMTT(30) DEF x, u
  <2>5. EdgeOf(u) = End(s)
    BY <1>3, <2>1, <2>4
  <2>6. InOrder(p, u, T, c.abort, strict)
    BY <2>1, <2>2, <2>5 DEF InOrder
  <2>7. QED
    BY <1>5, <1>6, <2>4, <2>6 DEF FlowOf, u, T
<1>9. CASE (HasText(s) => s.seq_no < x) /\ Takes(t, u, c.posts, <<>>)
  <2>1. Receiver(u, b, R \o ReadText(c.posts)) /\ EdgeOf(u) = x
    BY <1>2, <1>4, <1>9, NoNewText DEF x, u
  <2>2. ~HasText(s) \/ End(s) <= x
    <3>1. 1 \in DOMAIN L /\ s = L[1]
      BY TailIs DEF IsTail, s
    <3>2. HasText(s) => x <= s.seq_no \/ End(s) <= x
      BY <1>4, <3>1 DEF Chain, Apart
    <3>3. QED
      BY <1>3, <1>9, <3>2
  <2>3. Chain(T, x, e)
    BY <1>3, <1>4, <2>2, ChainTailOld DEF s, T
  <2>4. strict => Strict(T, x)
    BY <1>3, <1>4, StrictTail DEF T
  <2>5. InOrder(p, u, T, c.abort, strict)
    BY <2>1, <2>3, <2>4 DEF InOrder
  <2>6. QED
    BY <1>5, <1>6, <2>1, <2>5 DEF FlowOf, u, T
<1>10. CASE c.abort = "rcv_pq_not_empty" /\ Takes(t, u, c.posts, <<>>)
  <2>1. Receiver(u, b, R \o ReadText(c.posts))
    BY <1>2, <1>4, <1>10, NoNewText DEF u
  <2>2. InOrder(p, u, T, c.abort, strict)
    BY <1>10 DEF InOrder
  <2>3. QED
    BY <1>5, <1>6, <2>1, <2>2 DEF FlowOf, u, T
<1>11. QED
  BY <1>7, <1>8, <1>9, <1>10

\* The stream to a host whose application makes a call.
LEMMA FlowCalled ==
    ASSUME NEW p \in TcbT, NEW t \in TcbT, NEW c \in Context, NEW b \in Nat, NEW a,
           NEW L, NEW R \in Seq(Byte), NEW strict \in BOOLEAN, NEW buf,
           FlowOf(p, b, t, a, L, R, "none", strict), MetIn(t), MetIn(c.tcb), Called(t, c, buf)
    PROVE  FlowOf(p, b, c.tcb, a, L, R \o ReadText(c.posts), c.abort, strict)
<1>1. c.tcb \in TcbT /\ c.posts \in Seq(Handler)
  BY DEF Context
<1>2. c.tcb.seq_nr_unack = t.seq_nr_unack /\ Takes(t, c.tcb, c.posts, <<>>)
  BY DEF Called
<1>3. /\ Receiver(t, b, R) /\ Carries(p, b, L) /\ AcksOf(t, a, L)
      /\ Chain(L, EdgeOf(t), p.seq_nr_next) /\ (strict => Strict(L, EdgeOf(t)))
  BY DEF FlowOf, InOrder
<1>4. Receiver(c.tcb, b, R \o ReadText(c.posts)) /\ EdgeOf(c.tcb) = EdgeOf(t)
  BY <1>1, <1>2, <1>3, NoNewText
<1>5. AcksOf(c.tcb, a, L)
  BY <1>2, <1>3 DEF AcksOf
<1>6. InOrder(p, c.tcb, L, c.abort, strict)
  BY <1>3, <1>4 DEF InOrder
<1>7. QED
  BY <1>3, <1>4, <1>5, <1>6 DEF FlowOf

\* The stream to a host that takes the other one's SYN.
LEMMA FlowMeets ==
    ASSUME NEW p \in TcbT, NEW t \in TcbT, NEW c \in Context, NEW b \in Nat, NEW a, NEW z,
           NEW L \in Seq(Segment), L # <<>>, NEW R \in Seq(Byte), NEW strict \in BOOLEAN,
           FlowOf(p, b, t, a, L, R, "none", strict), ~MetIn(t), MetIn(c.tcb),
           "SYN" \in Head(L).flags, c.tcb.rcv_next = Head(L).seq_no + 1,
           c.tcb.rcv_pq = t.rcv_pq, ReadText(c.posts) = <<>>,
           p.state # "Established", p.seq_nr_next = b, AcksOf(c.tcb, z, Tail(L))
    PROVE  FlowOf(p, b, c.tcb, z, Tail(L), R \o ReadText(c.posts), c.abort, strict)
<1> DEFINE u == c.tcb
           T == Tail(L)
<1>1. Receiver(t, b, R) /\ Carries(p, b, L)
  BY DEF FlowOf
<1>2. R = <<>> /\ u.rcv_pq = <<>>
  BY <1>1 DEF Receiver
<1>3. Carries(p, b, T) /\ Belongs(p, b, Head(L))
  BY <1>1, CarriesTail
<1>4. u.rcv_next = b
  BY <1>3 DEF Belongs
<1>5. R \o ReadText(c.posts) = <<>> /\ (R \o ReadText(c.posts)) \o u.rcv_pq = <<>>
  <2>1. <<>> \o <<>> = <<>>
    OBVIOUS
  <2>2. QED
    BY <1>2, <2>1
<1>6. EdgeOf(u) = b /\ Len(<<>>) = 0 /\ DOMAIN <<>> = {} /\ b + 0 = b
  <2>1. Len(<<>>) = 0 /\ b + 0 = b
    OBVIOUS
  <2>2. QED
    BY <1>2, <1>4, <2>1, NoSegment DEF EdgeOf
<1>7. Receiver(u, b, R \o ReadText(c.posts))
  BY <1>5, <1>6 DEF Receiver
<1>8. \A j \in DOMAIN T : ~HasText(T[j])
  BY <1>3 DEF Carries, Belongs
<1>9. Chain(T, b, b) /\ Strict(T, b)
  <2>1. b \in Int
    OBVIOUS
  <2> HIDE DEF T
  <2>2. QED
    BY <1>8, <2>1, NoText
<1>10. InOrder(p, u, T, c.abort, strict)
  BY <1>6, <1>9 DEF InOrder
<1>11. QED
  BY <1>3, <1>7, <1>10 DEF FlowOf

\* What a step that makes u of TCB t adds to the line to TCB r, which is the
\* receiver of its stream: that starts at b, the one of r at z.
Emits(t, u, b, r, z, out) ==
    /\ Carries(u, b, out)
    /\ t.state = "Established" => u.state = "Established"
    /\ MetIn(r) => /\ t.seq_nr_next <= u.seq_nr_next /\ EdgeOf(r) <= t.seq_nr_next
                   /\ Chain(out, t.seq_nr_next, u.seq_nr_next) /\ Strict(out, t.seq_nr_next)
    /\ \A j \in DOMAIN out : "ACK" \in out[j].flags =>
            out[j].ack_no = u.rcv_next /\ z <= u.rcv_next /\ r.seq_nr_unack <= u.rcv_next

\* The stream from a host that sends.
LEMMA FlowEmits ==
    ASSUME NEW t \in TcbT, NEW u \in TcbT, NEW r \in TcbT, NEW b, NEW z,
           NEW L \in Seq(Segment), NEW out \in Seq(Segment), NEW R, NEW ab, NEW strict \in BOOLEAN,
           FlowOf(t, b, r, z, L, R, ab, strict), Emits(t, u, b, r, z, out),
           \A j \in DOMAIN L : /\ End(L[j]) <= t.seq_nr_next
                               /\ "ACK" \in L[j].flags => L[j].ack_no <= u.rcv_next
    PROVE  FlowOf(u, b, r, z, L \o out, R, ab, strict)
<1> DEFINE M == L \o out
<1>1. IsConcat(L, out, M)
  BY ConcatIs
<1>2. /\ Receiver(r, b, R) /\ Carries(t, b, L)
      /\ InOrder(t, r, L, ab, strict) /\ AcksOf(r, z, L)
  BY DEF FlowOf
<1>3. \A j \in DOMAIN M : (j \in DOMAIN L /\ M[j] = L[j]) \/ \E i \in DOMAIN out : M[j] = out[i]
  BY <1>1 DEF IsConcat
<1>4. /\ t.seq_nr_next \in Nat /\ u.seq_nr_next \in Nat /\ EdgeOf(r) \in Nat
      /\ u.rcv_next \in Nat /\ r.seq_nr_unack \in Nat
  BY TcbNumbers DEF EdgeOf
<1>5. Carries(u, b, M)
  <2>1. \A s : Belongs(t, b, s) => Belongs(u, b, s)
    BY DEF Belongs, Emits
  <2>2. Carries(u, b, out)
    BY DEF Emits
  <2>3. QED
    BY <1>2, <1>3, <2>1, <2>2 DEF Carries
<1>6. InOrder(u, r, M, ab, strict)
  <2> SUFFICES ASSUME MetIn(r), ab # "rcv_pq_not_empty"
               PROVE  Chain(M, EdgeOf(r), u.seq_nr_next) /\ (strict => Strict(M, EdgeOf(r)))
    BY DEF InOrder
  <2>1. Chain(L, EdgeOf(r), t.seq_nr_next) /\ (strict => Strict(L, EdgeOf(r)))
    BY <1>2 DEF InOrder
  <2>2. /\ t.seq_nr_next <= u.seq_nr_next /\ EdgeOf(r) <= t.seq_nr_next
        /\ Chain(out, t.seq_nr_next, u.seq_nr_next) /\ Strict(out, t.seq_nr_next)
    BY DEF Emits
  <2>3. \A j \in DOMAIN L : End(L[j]) <= t.seq_nr_next
    OBVIOUS
  <2>4. Chain(M, EdgeOf(r), u.seq_nr_next)
    BY <1>4, <2>1, <2>2, <2>3, ChainSend
  <2>5. ASSUME strict PROVE Strict(M, EdgeOf(r))
    BY <1>4, <2>1, <2>2, <2>3, <2>5, StrictSend
  <2>6. QED
    BY <2>4, <2>5
<1>7. AcksOf(r, z, M)
  <2>1. Acks(L, r.seq_nr_unack) /\ \A j \in DOMAIN L : "ACK" \in L[j].flags => z <= L[j].ack_no
    BY <1>2 DEF AcksOf
  <2>2. \A j \in DOMAIN L : "ACK" \in L[j].flags => L[j].ack_no <= u.rcv_next
    OBVIOUS
  <2>3. \A j \in DOMAIN out : "ACK" \in out[j].flags =>
            out[j].ack_no = u.rcv_next /\ z <= u.rcv_next /\ r.seq_nr_unack <= u.rcv_next
    BY DEF Emits
  <2>4. Acks(M, r.seq_nr_unack)
    BY <1>4, <2>1, <2>2, <2>3, AcksSend
  <2>5. \A j \in DOMAIN M : "ACK" \in M[j].flags => z <= M[j].ack_no
    BY <1>3, <2>1, <2>3
  <2>6. QED
    BY <2>4, <2>5 DEF AcksOf
<1>8. QED
  BY <1>2, <1>5, <1>6, <1>7 DEF FlowOf

\* A line on which nothing is, to a host that has not met the other one.
LEMMA FlowEmpty ==
    ASSUME NEW t, NEW b, NEW R, Receiver(t, b, R), ~MetIn(t), NEW q, NEW d, NEW z, NEW ab,
           NEW strict
    PROVE  FlowOf(q, d, t, z, <<>>, R, ab, strict)
<1>1. DOMAIN <<>> = {}
  BY NoSegment
<1>2. QED
  BY <1>1 DEF FlowOf, Receiver, Carries, InOrder, AcksOf, Acks

\* A segment is there twice.
LEMMA FlowDoubled ==
    ASSUME NEW p, NEW b, NEW t, NEW a, NEW L \in Seq(Segment), NEW M, NEW R, NEW ab, NEW strict,
           FlowOf(p, b, t, a, L, R, ab, strict), Doubled(L, M)
    PROVE  FlowOf(p, b, t, a, M, R, ab, FALSE)
<1>1. /\ \A j \in DOMAIN M : \E i \in DOMAIN L : M[j] = L[i]
      /\ \A x, e : Chain(L, x, e) => Chain(M, x, e)
      /\ \A x : Acks(L, x) => Acks(M, x)
  BY LineNumbered, DoubledLine
<1>2. QED
  BY <1>1 DEF FlowOf, Carries, InOrder, AcksOf

\* A host that has met the other one acknowledges something of its stream.
LEMMA ReceiverBehind ==
    ASSUME NEW t \in TcbT, NEW b \in Nat, NEW R \in Seq(Byte), Receiver(t, b, R), MetIn(t)
    PROVE  b <= t.rcv_next
<1>1. t.rcv_next \in Nat /\ t.rcv_pq \in Seq(Byte) /\ Len(t.rcv_pq) \in Nat /\ Len(R) \in Nat
  BY TcbNumbers
<1>2. Len(R \o t.rcv_pq) = Len(R) + Len(t.rcv_pq)
  BY <1>1, ConcatProperties
<1>3. t.rcv_next + Len(t.rcv_pq) = b + Len(R \o t.rcv_pq)
  BY DEF Receiver, EdgeOf
<1>4. QED
  BY <1>1, <1>2, <1>3

-----------------------------------------------------------------------------
(* The streams of both hosts *)

\* The number of the first byte of the stream of host n.
Base(n) == Origin(tcb[n], written[n])

\* The stream to host n.
Flow(n) ==
    FlowOf(tcb[Peer(n)], Base(Peer(n)), tcb[n], Base(n), Line(n), Stored(n), abort[n],
           faults["duplicate"] = 0)

\* TCB t, whose application has written w bytes, as the sender of a stream and,
\* if the application never has two reads waiting, as the target of reads.
SideOf(t, w, ab) ==
    /\ Sender(t, w)
    /\ t.state \notin {"Closed", "Listen"} => \E isn \in Isns : Origin(t, w) = isn + 1
    /\ MaxReads <= 1 => OneRead(t) /\ ab # "rcv_pq_not_empty"

Streams == \A n \in Node : SideOf(tcb[n], written[n], abort[n]) /\ Flow(n)

\* What a step of host n, which leaves context c behind, has to keep of them.
StreamKept(n, c) ==
    /\ SideOf(c.tcb, written'[n], c.abort)
    /\ FlowOf(tcb[Peer(n)], Base(Peer(n)), c.tcb, Origin(c.tcb, written'[n]), Line(n)',
              Stored(n) \o ReadText(c.posts), c.abort, faults["duplicate"] = 0)
    /\ FlowOf(c.tcb, Origin(c.tcb, written'[n]), tcb[Peer(n)], Base(Peer(n)),
              Line(Peer(n)) \o c.out, Stored(Peer(n)), abort[Peer(n)], faults["duplicate"] = 0)

\* The two hosts.
LEMMA Peers ==
    ASSUME NEW n \in Node
    PROVE  /\ Peer(n) \in Node /\ Peer(n) # n /\ Peer(Peer(n)) = n
           /\ \A m \in Node : m = n \/ m = Peer(n)
<1>1. QED
  BY DEF Peer, Node

\* It is then all that there is to keep.
LEMMA KeptStreams ==
    ASSUME TypeOK, Streams, NEW n \in Node, NEW c \in Context, HostMove(n, c),
           written'[Peer(n)] = written[Peer(n)], StreamKept(n, c)
    PROVE  Streams'
<1> DEFINE p == Peer(n)
           w == written'[n]
           a == Origin(c.tcb, w)
           strict == faults["duplicate"] = 0
<1>1. p \in Node /\ p # n /\ Peer(p) = n /\ \A m \in Node : m = n \/ m = p
  BY Peers
<1>2. tcb'[n] = c.tcb /\ tcb'[p] = tcb[p] /\ abort'[n] = c.abort /\ abort'[p] = abort[p]
  BY <1>1 DEF HostMove, HostStep, TypeOK
<1>3. /\ Line(p)' = Line(p) \o c.out /\ Stored(p)' = Stored(p)
      /\ Stored(n)' = Stored(n) \o ReadText(c.posts) /\ faults' = faults
  BY DEF HostMove, Moved
<1>4. Base(n)' = a /\ Base(p)' = Base(p) /\ (faults'["duplicate"] = 0 <=> strict)
  BY <1>2, <1>3 DEF Base
<1>5. SideOf(tcb'[n], written'[n], abort'[n])
  BY <1>2 DEF StreamKept
<1>6. SideOf(tcb'[p], written'[p], abort'[p])
  BY <1>1, <1>2 DEF Streams
<1>7. Flow(n)'
  <2>1. FlowOf(tcb[p], Base(p), c.tcb, a, Line(n)', Stored(n) \o ReadText(c.posts), c.abort, strict)
    BY DEF StreamKept
  <2>2. FlowOf(tcb'[p], Base(p)', tcb'[n], Base(n)', Line(n)', Stored(n)', abort'[n],
               faults'["duplicate"] = 0)
    BY <1>2, <1>3, <1>4, <2>1, Zenon
  <2>3. QED
    BY <2>2 DEF Flow
<1>8. Flow(p)'
  <2>1. FlowOf(c.tcb, a, tcb[p], Base(p), Line(p) \o c.out, Stored(p), abort[p], strict)
    BY DEF StreamKept
  <2>2. FlowOf(tcb'[n], Base(n)', tcb'[p], Base(p)', Line(p)', Stored(p)', abort'[p],
               faults'["duplicate"] = 0)
    BY <1>2, <1>3, <1>4, <2>1, Zenon
  <2>3. QED
    BY <1>1, <2>2 DEF Flow
<1>9. QED
  BY <1>1, <1>5, <1>6, <1>7, <1>8 DEF Streams

\* The segments of a line are those that are coming.
LEMMA LineComing ==
    ASSUME TypeOK, NEW n \in Node
    PROVE  \A j \in DOMAIN Line(n) : Line(n)[j] \in Coming(n)
<1> DEFINE r == RxPart(ioq[n])
<1>1. ioq[n] \in Seq(AnyHandler) /\ net[n] \in Seq(Segment) /\ r \in Seq(Segment)
  BY LineType, RxPartType
<1>2. Line(n) = r \o net[n]
  BY LineIs
<1>3. IsConcat(r, net[n], r \o net[n])
  BY <1>1, ConcatIs
<1>4. \A j \in DOMAIN net[n] : net[n][j] \in Coming(n)
  BY DEF Coming, Range
<1>5. \A j \in DOMAIN r : r[j] \in Coming(n)
  <2> SUFFICES ASSUME NEW j \in DOMAIN r PROVE r[j] \in Coming(n)
    OBVIOUS
  <2>1. Rxs(ioq[n]) # {}
    BY NoSegment DEF RxPart
  <2> DEFINE h == CHOOSE h \in Rxs(ioq[n]) : TRUE
  <2>2. h \in Rxs(ioq[n])
    BY <2>1
  <2>3. r = <<h.seg>>
    BY <2>1 DEF RxPart
  <2> HIDE DEF h, r
  <2>4. DOMAIN <<h.seg>> = {1} /\ <<h.seg>>[1] = h.seg
    OBVIOUS
  <2>5. r[j] = h.seg
    BY <2>3, <2>4
  <2>6. QED
    BY <2>2, <2>5 DEF Coming, Rxs
<1>6. QED
  BY <1>2, <1>3, <1>4, <1>5 DEF IsConcat

\* A step of a host as the proofs about the handshake and the numbers see it.
LEMMA MoveFrom ==
    ASSUME NoWrap, Agreed, NEW n \in Node, NEW c \in Context, HostMove(n, c)
    PROVE  From(n, c) /\ Keeps(n, c) /\ Move(n, c)
<1>1. From(n, c)
  BY DEF HostMove, FromFront, From, FromSegment
<1>2. Keeps(n, c)
  BY <1>1, SegmentKeeps, CallKeeps, SendKeeps, ConnectKeeps DEF From, Agreed
<1>3. Move(n, c)
  BY <1>1, StepMove DEF Agreed
<1>4. QED
  BY <1>1, <1>2, <1>3

\* The number a stream starts with.
LEMMA OriginType ==
    ASSUME NEW t \in TcbT, NEW w \in Nat, NEW ab, SideOf(t, w, ab)
    PROVE  /\ Origin(t, w) \in Nat
           /\ t.seq_nr_next <= Origin(t, w) + w
           /\ t.state # "Established" => t.seq_nr_next = Origin(t, w) /\ w = 0
<1>1. /\ t.seq_nr_next \in Nat /\ t.seq_nr_unack \in Nat /\ Len(t.snd_pq) \in Nat
  BY TcbNumbers
<1>2. CASE t.state = "Established"
  <2>1. Origin(t, w) = t.seq_nr_unack + Len(t.snd_pq) - w
    BY <1>2 DEF Origin
  <2>2. \E isn \in Isns : Origin(t, w) = isn + 1
    BY <1>2 DEF SideOf
  <2>3. Isns \subseteq Nat
    BY ConnectionConstants, TcbConstants DEF SeqNr
  <2>4. Origin(t, w) \in Nat
    BY <2>2, <2>3
  <2>5. t.seq_nr_next - t.seq_nr_unack <= Len(t.snd_pq)
    BY <1>2 DEF SideOf, Sender, Held
  <2>6. QED
    BY <1>1, <1>2, <2>1, <2>4, <2>5
<1>3. CASE t.state # "Established"
  <2>1. Origin(t, w) = t.seq_nr_next /\ w = 0
    BY <1>3 DEF Origin, SideOf, Sender
  <2>2. QED
    BY <1>1, <1>3, <2>1
<1>4. QED
  BY <1>2, <1>3

\* The types of what a step of host n works on.
LEMMA MoveTypes ==
    ASSUME Agreed, Streams, NEW n \in Node, NEW c \in Context
    PROVE  /\ tcb[n] \in TcbT /\ tcb[Peer(n)] \in TcbT /\ c.tcb \in TcbT
           /\ c.out \in Seq(Segment) /\ c.posts \in Seq(Handler)
           /\ Line(n) \in Seq(Segment) /\ Line(Peer(n)) \in Seq(Segment)
           /\ Stored(n) \in Seq(Byte) /\ Stored(Peer(n)) \in Seq(Byte)
           /\ written[n] \in Nat /\ written[Peer(n)] \in Nat
           /\ Base(n) \in Nat /\ Base(Peer(n)) \in Nat
<1>1. Peer(n) \in Node /\ TypeOK
  BY Peers DEF Agreed
<1>2. /\ tcb[n] \in TcbT /\ tcb[Peer(n)] \in TcbT
      /\ written[n] \in Nat /\ written[Peer(n)] \in Nat
  BY <1>1 DEF TypeOK
<1>3. c.tcb \in TcbT /\ c.out \in Seq(Segment) /\ c.posts \in Seq(Handler)
  BY DEF Context
<1>4. /\ Line(n) \in Seq(Segment) /\ Line(Peer(n)) \in Seq(Segment)
      /\ Stored(n) \in Seq(Byte) /\ Stored(Peer(n)) \in Seq(Byte)
  BY <1>1, LineType
<1>5. Base(n) \in Nat /\ Base(Peer(n)) \in Nat
  BY <1>1, <1>2, OriginType DEF Streams, Base
<1>6. QED
  BY <1>2, <1>3, <1>4, <1>5

\* Everything on the line to the peer was sent by host n, before and after a step.
LEMMA LineSent ==
    ASSUME NoWrap, Agreed, NEW n \in Node, NEW c \in Context, HostMove(n, c)
    PROVE  \A j \in DOMAIN Line(Peer(n)) :
                SentBy(tcb[n], Line(Peer(n))[j]) /\ SentBy(c.tcb, Line(Peer(n))[j])
<1>1. TypeOK /\ Numeric /\ Peer(n) \in Node /\ Peer(Peer(n)) = n
  BY Peers DEF Agreed
<1>2. \A j \in DOMAIN Line(Peer(n)) : Line(Peer(n))[j] \in Coming(Peer(n))
  BY <1>1, LineComing
<1>3. \A s \in Coming(Peer(n)) : SentBy(c.tcb, s)
  BY MoveFrom DEF Keeps
<1>4. \A s \in Coming(Peer(n)) : SentBy(tcb[n], s)
  BY <1>1 DEF Numeric
<1>5. QED
  BY <1>2, <1>3, <1>4

\* What a step sends goes on where the line to the peer ended.
LEMMA OutFlow ==
    ASSUME NoWrap, Agreed, Streams, NEW n \in Node, NEW c \in Context, HostMove(n, c),
           Emits(tcb[n], c.tcb, Base(n), tcb[Peer(n)], Base(Peer(n)), c.out)
    PROVE  FlowOf(c.tcb, Base(n), tcb[Peer(n)], Base(Peer(n)),
                  Line(Peer(n)) \o c.out, Stored(Peer(n)), abort[Peer(n)], faults["duplicate"] = 0)
<1> DEFINE p == Peer(n)
           L == Line(p)
           strict == faults["duplicate"] = 0
<1>1. p \in Node /\ Peer(p) = n
  BY Peers
<1>2. /\ tcb[n] \in TcbT /\ tcb[p] \in TcbT /\ c.tcb \in TcbT
      /\ c.out \in Seq(Segment) /\ L \in Seq(Segment)
  BY MoveTypes
<1>3. FlowOf(tcb[n], Base(n), tcb[p], Base(p), L, Stored(p), abort[p], strict)
  BY <1>1 DEF Streams, Flow
<1>4. \A j \in DOMAIN L : /\ End(L[j]) <= tcb[n].seq_nr_next
                          /\ "ACK" \in L[j].flags => L[j].ack_no <= c.tcb.rcv_next
  BY LineSent DEF SentBy, End
<1>5. strict \in BOOLEAN /\ Emits(tcb[n], c.tcb, Base(n), tcb[p], Base(p), c.out)
  OBVIOUS
<1> HIDE DEF p, L, strict
<1>6. FlowOf(c.tcb, Base(n), tcb[p], Base(p), L \o c.out, Stored(p), abort[p], strict)
  BY <1>2, <1>3, <1>4, <1>5, FlowEmits
<1>7. QED
  BY <1>6 DEF p, L, strict

-----------------------------------------------------------------------------
(* A call of the application keeps the streams *)

\* A call fails for want of room in the send queue or not at all.
LEMMA CallAborts ==
    ASSUME NEW t \in TcbT, NEW bufs, bufs \subseteq Seq(Byte), NEW call \in Calls(t, bufs),
           NEW d \in {app_call(Call(t), call), read_handler(Call(t), call)}
    PROVE  d.abort \in {"none", "snd_overflow"}
<1> DEFINE a == app_call(Call(t), call)
<1>1. Call(t) \in Context
  BY CallType
<1>2. a \in Context
  BY <1>1, AppCallType
<1>3. a.abort \in {"none", "snd_overflow"}
  <2>1. \A k : async_read_some(Call(t), k).abort = "none"
    BY DEF async_read_some, Call
  <2>2. \A b : async_write(Call(t), b).abort \in {"none", "snd_overflow"}
    BY DEF async_write, Call
  <2>3. Call(t).abort = "none"
    BY DEF Call
  <2>4. QED
    BY <2>1, <2>2, <2>3 DEF app_call
<1> HIDE DEF a
<1>4. make_and_send_pkt(a).abort = a.abort
  BY <1>2 DEF make_and_send_pkt, Context
<1>5. d = a \/ d = make_and_send_pkt(a)
  BY DEF read_handler, a
<1>6. QED
  BY <1>3, <1>4, <1>5

\* What an application writes next: the bytes that come next in its stream.
LEMMA CallBytes ==
    ASSUME TypeOK, NEW n \in Node, NEW call \in Calls(tcb[n], NextBufs(n))
    PROVE  /\ call.buf \in Seq(Byte)
           /\ \A i \in DOMAIN call.buf : call.buf[i] = written[n] + i
<1>1. call.buf = <<>> \/ call.buf \in NextBufs(n)
  BY DEF Calls, Idle
<1>2. CASE call.buf = <<>>
  BY <1>2, EmptySeq, NoSegment
<1>3. CASE call.buf \in NextBufs(n)
  <2>1. call.buf \in Seq(Byte)
    BY <1>3, NextBufsType
  <2>2. PICK k \in 1 .. MaxWrite : call.buf = [i \in 1 .. k |-> written[n] + i]
    <3> DEFINE b == call.buf
    <3>1. b \in NextBufs(n)
      BY <1>3
    <3> HIDE DEF b
    <3>2. \E k \in 1 .. MaxWrite : b = [i \in 1 .. k |-> written[n] + i]
      BY <3>1 DEF NextBufs
    <3>3. QED
      BY <3>2 DEF b
  <2>3. QED
    BY <2>1, <2>2
<1>4. QED
  BY <1>1, <1>2, <1>3

\* A step of host n, which leaves context c behind, accepts the bytes buf.
Accepts(n, c, buf) ==
    /\ buf \in Seq(Byte) /\ \A i \in DOMAIN buf : buf[i] = written[n] + i
    /\ Called(tcb[n], c, buf) /\ tcb[n].seq_nr_next <= c.tcb.seq_nr_next
    /\ written'[n] = written[n] + Len(buf) /\ c.abort # "rcv_pq_not_empty"

\* A call does.
LEMMA CallAccepts ==
    ASSUME Agreed, Streams, NEW n \in Node, NEW c \in Context, FromCall(n, c)
    PROVE  \E buf : Accepts(n, c, buf)
<1> DEFINE t == tcb[n]
<1>1. PICK call \in Calls(t, NextBufs(n)) :
            /\ c \in {app_call(Call(t), call), read_handler(Call(t), call)}
            /\ Wrote(n, call, c)
  BY DEF FromCall
<1>2. TypeOK /\ Handshake /\ Numeric /\ Synchronised(n)
  BY DEF FromCall, Agreed, Handshake, Quiet
<1>3. /\ t \in TcbT /\ Room(n) \in Nat /\ SendSide(t, Room(n)) /\ t.snd_cap = RcvWindow
      /\ t.next_state = "Established" /\ t.rcv_next + Len(t.rcv_pq) < SeqSpace
  BY <1>2, BothMet, MetFits
<1>4. NextBufs(n) \subseteq Seq(Byte) /\ \A b \in NextBufs(n) : Len(b) <= Room(n)
  BY <1>2, NextBufsType, NextBufsRoom
<1>5. Held(t)
  BY <1>2 DEF Streams, SideOf, Sender, Synchronised
<1> DEFINE buf == IF c.abort = "none" THEN call.buf ELSE <<>>
<1>6. Called(t, c, buf)
  BY <1>1, <1>3, <1>4, <1>5, CallStream
<1>7. t.seq_nr_next <= c.tcb.seq_nr_next
  <2> DEFINE used == IF c.abort = "none" THEN Len(call.buf) ELSE 0
  <2>1. Operated(t, c, Room(n) - used)
    BY <1>1, <1>3, <1>4, CallSide
  <2>2. QED
    BY <2>1 DEF Operated
<1>8. c.abort # "rcv_pq_not_empty"
  BY <1>1, <1>3, <1>4, CallAborts
<1>9. /\ buf \in Seq(Byte) /\ \A i \in DOMAIN buf : buf[i] = written[n] + i
  BY <1>1, <1>2, CallBytes, EmptySeq, NoSegment
<1>10. written'[n] = written[n] + Len(buf)
  <2>1. written' = [written EXCEPT ![n] = IF c.abort = "none" THEN written[n] + Len(call.buf)
                                          ELSE written[n]]
    BY <1>1 DEF Wrote
  <2>2. written \in [Node -> Nat] /\ written[n] \in Nat
    BY <1>2 DEF TypeOK
  <2>3. written[n] + 0 = written[n] /\ Len(<<>>) = 0
    BY <2>2
  <2>4. written'[n] = IF c.abort = "none" THEN written[n] + Len(call.buf) ELSE written[n]
    BY <2>1, <2>2
  <2>5. QED
    BY <2>3, <2>4
<1> HIDE DEF buf
<1>11. Accepts(n, c, buf)
  BY <1>6, <1>7, <1>8, <1>9, <1>10 DEF Accepts
<1>12. QED
  BY <1>11

\* So does the handler that sends what was written; it accepts nothing.
LEMMA SendAccepts ==
    ASSUME Agreed, Streams, NEW n \in Node, NEW c \in Context, FromSend(n, c)
    PROVE  \E buf : Accepts(n, c, buf)
<1> DEFINE t == tcb[n]
           buf == <<>>
<1>1. TypeOK /\ Handshake /\ Numeric /\ Synchronised(n)
  BY DEF FromSend, Agreed, Handshake, Quiet
<1>2. c = send_app_data(Call(t)) /\ written' = written
  BY DEF FromSend
<1>3. /\ t \in TcbT /\ Room(n) \in Nat /\ SendSide(t, Room(n)) /\ t.next_state = "Established"
  BY <1>1, BothMet, MetFits
<1>4. Held(t)
  BY <1>1 DEF Streams, SideOf, Sender, Synchronised
<1>5. Called(t, c, buf)
  BY <1>2, <1>3, <1>4, SendStream
<1>6. Call(t) \in Context /\ Call(t).tcb = t /\ Call(t).out = <<>> /\ Call(t).abort = "none"
  BY <1>3, CallType DEF Call
<1>7. t.seq_nr_next <= c.tcb.seq_nr_next
  BY <1>2, <1>3, <1>6, SendAppDataSide
<1>8. c.abort = "none"
  <2> DEFINE k == Call(t)
  <2> HIDE DEF k
  <2>1. send_app_data(k).abort = k.abort
    BY <1>6 DEF send_app_data, Context, k
  <2>2. QED
    BY <1>2, <1>6, <2>1 DEF k
<1>9. /\ buf \in Seq(Byte) /\ \A i \in DOMAIN buf : buf[i] = written[n] + i
  BY EmptySeq, NoSegment
<1>10. written'[n] = written[n] + Len(buf)
  <2>1. written[n] \in Nat /\ Len(<<>>) = 0
    BY <1>1 DEF TypeOK
  <2>2. QED
    BY <1>2, <2>1
<1> HIDE DEF buf
<1>11. Accepts(n, c, buf)
  BY <1>5, <1>7, <1>8, <1>9, <1>10 DEF Accepts
<1>12. QED
  BY <1>11

\* A host whose connection is established, and what it has sent so far.
LEMMA Settled ==
    ASSUME Agreed, NEW n \in Node, NEW c \in Context, Synchronised(n), Keeps(n, c), Move(n, c)
    PROVE  /\ MetIn(tcb[n]) /\ MetIn(tcb[Peer(n)]) /\ c.tcb.state = "Established"
           /\ EdgeOf(tcb[Peer(n)]) <= tcb[n].seq_nr_next
           /\ tcb[Peer(n)].seq_nr_unack <= c.tcb.rcv_next
<1>1. TypeOK /\ Handshake /\ Numeric
  BY DEF Agreed
<1>2. Met(n) /\ Met(Peer(n))
  BY <1>1, BothMet
<1>3. c.tcb.state = "Established"
  BY DEF Move, Waits, Opens, Answers, GoesOn, CarriesOn, Synchronised
<1>4. Agrees(tcb[Peer(n)], tcb[n])
  BY <1>1, <1>2, MetFits
<1>5. Agrees(c.tcb, tcb[Peer(n)])
  BY <1>3 DEF Keeps, Fits
<1>6. QED
  BY <1>2, <1>3, <1>4, <1>5 DEF Met, MetIn, Agrees, EdgeOf

\* Both streams go on.
LEMMA CallKept ==
    ASSUME NoWrap, Agreed, Streams, NEW n \in Node, NEW c \in Context, HostMove(n, c),
           Line(n)' = Line(n), FromCall(n, c) \/ FromSend(n, c)
    PROVE  StreamKept(n, c)
<1> DEFINE t == tcb[n]
           u == c.tcb
           p == tcb[Peer(n)]
           b == Base(Peer(n))
           a == Base(n)
           strict == faults["duplicate"] = 0
           R == Stored(n)
<1>1. PICK buf : Accepts(n, c, buf)
  BY CallAccepts, SendAccepts
<1>2. Synchronised(n)
  BY DEF FromCall, FromSend, Agreed, Handshake, Quiet
<1>3. Keeps(n, c) /\ Move(n, c)
  BY MoveFrom
<1>4. /\ MetIn(t) /\ MetIn(p) /\ u.state = "Established" /\ MetIn(u)
      /\ EdgeOf(p) <= t.seq_nr_next /\ p.seq_nr_unack <= u.rcv_next
  BY <1>2, <1>3, Settled DEF MetIn
<1>5. /\ t \in TcbT /\ p \in TcbT /\ u \in TcbT /\ c.out \in Seq(Segment)
      /\ c.posts \in Seq(Handler) /\ written[n] \in Nat /\ a \in Nat /\ b \in Nat
      /\ R \in Seq(Byte) /\ Line(n) \in Seq(Segment)
  BY MoveTypes
<1>6. /\ buf \in Seq(Byte) /\ \A i \in DOMAIN buf : buf[i] = written[n] + i
      /\ Called(t, c, buf) /\ t.seq_nr_next <= u.seq_nr_next
      /\ written'[n] = written[n] + Len(buf) /\ c.abort # "rcv_pq_not_empty"
  BY <1>1 DEF Accepts
<1>7. SideOf(t, written[n], abort[n]) /\ FlowOf(p, b, t, a, Line(n), R, "none", strict)
  BY DEF Streams, Flow, HostMove, Moved
<1>8. a = Origin(t, written[n])
  BY DEF Base
<1>9. Sender(u, written'[n]) /\ Origin(u, written'[n]) = a
  BY <1>2, <1>4, <1>5, <1>6, <1>7, <1>8, CalledSender DEF SideOf, Synchronised
<1>10. SideOf(u, written'[n], c.abort)
  <2>1. \E isn \in Isns : a = isn + 1
    BY <1>2, <1>7, <1>8 DEF SideOf, Synchronised
  <2>2. MaxReads <= 1 => OneRead(u)
    BY <1>6, <1>7 DEF SideOf, Called
  <2>3. QED
    BY <1>6, <1>9, <2>1, <2>2 DEF SideOf
<1>11. strict \in BOOLEAN
  OBVIOUS
<1> HIDE DEF strict, R
<1>12. FlowOf(p, b, u, a, Line(n), R \o ReadText(c.posts), c.abort, strict)
  BY <1>4, <1>5, <1>6, <1>7, <1>11, FlowCalled
<1>13. b <= u.rcv_next
  <2>1. R \o ReadText(c.posts) \in Seq(Byte)
    <3>1. ReadText(c.posts) \in Seq(Byte)
      BY <1>5, ReadTextType, SeqMonotone DEF AnyHandler
    <3>2. QED
      BY <1>5, <3>1
  <2>2. Receiver(u, b, R \o ReadText(c.posts))
    BY <1>12 DEF FlowOf
  <2>3. QED
    BY <1>4, <1>5, <2>1, <2>2, ReceiverBehind
<1>14. Emits(t, u, a, p, b, c.out)
  <2>1. Onward(t.seq_nr_next, u, c.out)
    BY <1>6 DEF Called
  <2>2. Carries(u, a, c.out)
    <3>1. written'[n] \in Nat
      BY <1>5, <1>6
    <3>2. QED
      BY <1>4, <1>5, <1>9, <2>1, <3>1, OnwardCarries
  <2>3. QED
    BY <1>4, <1>6, <1>13, <2>1, <2>2 DEF Emits, Onward
<1>15. FlowOf(u, a, p, b, Line(Peer(n)) \o c.out, Stored(Peer(n)), abort[Peer(n)], strict)
  BY <1>14, OutFlow DEF strict
<1>16. QED
  BY <1>9, <1>10, <1>12, <1>15 DEF StreamKept, strict, R

-----------------------------------------------------------------------------
(* A segment that reaches a host which has met the other one *)

\* The right edge of the receive window never is sequence number 0.  Where it is,
\* tcp_check_segment, which lacks "SEG.SEQ <", refuses all text.
EdgeNotZero ==
    \A n \in Node, isn \in Isns : \A k \in 0 .. Budget(n) : Add(isn + 1 + k, RcvWindow) # 0

\* The state of the other host when host n has met it.
LEMMA OtherBegun ==
    ASSUME Agreed, NEW n \in Node, Met(n)
    PROVE  tcb[Peer(n)].state \notin {"Closed", "Listen"}
<1>1. Handshake
  BY DEF Agreed
<1>2. QED
  BY <1>1 DEF Handshake, PairsOK, HostPairs, OrderOK, Met, Synchronised, Node, Peer

\* RCV.NXT is within what the peer may send.
LEMMA EdgeMoves ==
    ASSUME NoWrap, EdgeNotZero, Agreed, Streams, NEW n \in Node, Met(n)
    PROVE  Add(tcb[n].rcv_next, RcvWindow) # 0
<1> DEFINE t == tcb[n]
           p == tcb[Peer(n)]
           b == Base(Peer(n))
           w == written[Peer(n)]
           g == Budget(Peer(n))
<1>1. TypeOK /\ Numeric /\ Peer(n) \in Node /\ Peer(Peer(n)) = n
  BY Peers DEF Agreed
<1>2. t \in TcbT /\ p \in TcbT /\ w \in Nat /\ Stored(n) \in Seq(Byte)
  BY <1>1, LineType DEF TypeOK
<1>3. SideOf(p, w, abort[Peer(n)]) /\ Receiver(t, b, Stored(n))
  BY <1>1 DEF Streams, Flow, FlowOf
<1>4. b \in Nat /\ p.seq_nr_next <= b + w
  BY <1>2, <1>3, OriginType DEF Base
<1>5. PICK isn \in Isns : b = isn + 1
  BY <1>3, OtherBegun DEF SideOf, Base
<1>6. g \in Nat /\ g - w \in Nat
  <2>1. g \in Nat
    BY ConnectionConstants DEF Budget
  <2>2. Room(Peer(n)) \in Nat
    BY <1>1 DEF Numeric, Fits
  <2>3. QED
    BY <2>1, <2>2 DEF Room
<1>7. /\ t.rcv_next \in Nat /\ Len(t.rcv_pq) \in Nat /\ p.seq_nr_next \in Nat
  BY <1>2, TcbNumbers
<1>8. t.rcv_next + Len(t.rcv_pq) <= p.seq_nr_next
  BY <1>1 DEF Numeric, Fits, Agrees, Met
<1>9. b <= t.rcv_next
  BY <1>2, <1>3, <1>4, ReceiverBehind DEF Met, MetIn
<1> DEFINE k == t.rcv_next - b
<1> HIDE DEF t, p, b, w, g
<1>10. k \in 0 .. g /\ t.rcv_next = b + k
  BY <1>2, <1>4, <1>6, <1>7, <1>8, <1>9
<1> HIDE DEF k
<1>11. Add(b + k, RcvWindow) # 0
  BY <1>1, <1>5, <1>10 DEF EdgeNotZero, g
<1>12. QED
  BY <1>10, <1>11 DEF t

\* What such a segment is like.
LEMMA FrontSegment ==
    ASSUME Agreed, Streams, NEW n \in Node, NEW s \in Coming(n), Met(n), Line(n) # <<>>,
           s = Head(Line(n))
    PROVE  /\ s \in Segment /\ s.flags \in {{"SYN"}, {"SYN", "ACK"}, {"ACK"}}
           /\ "SYN" \in s.flags => ~HasText(s)
           /\ End(s) < SeqSpace
           /\ "ACK" \in s.flags => /\ tcb[n].seq_nr_unack <= s.ack_no
                                   /\ s.ack_no <= tcb[n].seq_nr_next /\ Base(n) <= s.ack_no
<1> DEFINE t == tcb[n]
           p == tcb[Peer(n)]
<1>1. TypeOK /\ Handshake /\ Numeric /\ Peer(n) \in Node /\ Peer(Peer(n)) = n
  BY Peers DEF Agreed
<1>2. t \in TcbT /\ p \in TcbT /\ Line(n) \in Seq(Segment) /\ s \in Segment
  BY <1>1, LineType, ComingType DEF TypeOK
<1>3. s.flags \in {{"SYN"}, {"SYN", "ACK"}, {"ACK"}}
  BY <1>1 DEF Handshake, FlagsOK, Node
<1>4. Carries(p, Base(Peer(n)), Line(n)) /\ AcksOf(t, Base(n), Line(n))
  BY DEF Streams, Flow, FlowOf
<1>5. "SYN" \in s.flags => ~HasText(s)
  BY <1>2, <1>4, CarriesTail DEF Belongs
<1>6. SentBy(p, s)
  BY <1>1 DEF Numeric
<1>7. End(s) < SeqSpace
  <2>1. End(s) <= p.seq_nr_next
    BY <1>6 DEF SentBy, End
  <2>2. End(s) \in Nat /\ p.seq_nr_next \in Nat /\ p.seq_nr_next < SeqSpace /\ SeqSpace \in Nat
    BY <1>2, SegmentEnds, TcbNumbers, TcbConstants
  <2>3. QED
    BY <2>1, <2>2
<1>8. ASSUME "ACK" \in s.flags
      PROVE  t.seq_nr_unack <= s.ack_no /\ Base(n) <= s.ack_no /\ s.ack_no <= t.seq_nr_next
  <2>1. t.seq_nr_unack <= s.ack_no /\ Base(n) <= s.ack_no
    BY <1>2, <1>4, <1>8, CarriesTail
  <2>2. Met(Peer(n))
    BY <1>1, <1>8, AcksOnlyWhenMet
  <2>3. p.rcv_next + Len(p.rcv_pq) <= t.seq_nr_next
    BY <1>1, <2>2, MetFits DEF Agrees
  <2>4. s.ack_no <= p.rcv_next
    BY <1>6, <1>8 DEF SentBy
  <2>5. /\ s.ack_no \in Nat /\ p.rcv_next \in Nat /\ Len(p.rcv_pq) \in Nat /\ t.seq_nr_next \in Nat
    BY <1>2, TcbNumbers, SegmentNumbers
  <2>6. QED
    BY <2>1, <2>3, <2>4, <2>5
<1>9. QED
  BY <1>2, <1>3, <1>5, <1>7, <1>8

\* Nothing is sent and SND.NXT stays.
LEMMA SilentEmits ==
    ASSUME NEW t \in TcbT, NEW u, NEW b, NEW r, NEW z, u.seq_nr_next = t.seq_nr_next,
           t.state = "Established" => u.state = "Established",
           MetIn(r) => EdgeOf(r) <= t.seq_nr_next
    PROVE  Emits(t, u, b, r, z, <<>>)
<1>1. DOMAIN <<>> = {} /\ t.seq_nr_next \in Int /\ t.seq_nr_next <= t.seq_nr_next
  BY NoSegment, TcbNumbers
<1>2. Chain(<<>>, t.seq_nr_next, t.seq_nr_next) /\ Strict(<<>>, t.seq_nr_next)
  BY <1>1, NoText
<1>3. Carries(u, b, <<>>)
  BY <1>1 DEF Carries
<1>4. QED
  BY <1>1, <1>2, <1>3 DEF Emits

\* Both streams go on.
LEMMA HeardKept ==
    ASSUME NoWrap, EdgeNotZero, Agreed, Streams, NEW n \in Node, NEW c \in Context,
           HostMove(n, c), FromFront(n, c), Met(n)
    PROVE  StreamKept(n, c)
<1> DEFINE t == tcb[n]
           u == c.tcb
           p == tcb[Peer(n)]
           b == Base(Peer(n))
           a == Base(n)
           w == written[n]
           s == Head(Line(n))
           strict == faults["duplicate"] = 0
           R == Stored(n)
<1>1. TypeOK /\ Handshake /\ Numeric /\ Keeps(n, c)
  BY MoveFrom DEF Agreed
<1>2. /\ t \in TcbT /\ p \in TcbT /\ u \in TcbT /\ w \in Nat /\ b \in Nat
      /\ R \in Seq(Byte) /\ Line(n) \in Seq(Segment)
  BY MoveTypes
<1>3. Line(n) # <<>> /\ Line(n)' = Tail(Line(n)) /\ s \in Coming(n) /\ written' = written
  BY DEF FromFront
<1>4. MetIn(t) /\ lookup(n) = {t}
  BY DEF Met, MetIn, lookup
<1>5. PICK isn \in Isns, una \in clamp(s.ack_no, t.seq_nr_unack, t.seq_nr_next) :
            c = process(Call(t), s, isn, una)
  BY <1>4 DEF FromFront
<1>6. /\ s \in Segment /\ s.flags \in {{"SYN"}, {"SYN", "ACK"}, {"ACK"}}
      /\ "SYN" \in s.flags => ~HasText(s)
      /\ End(s) < SeqSpace
      /\ "ACK" \in s.flags => t.seq_nr_unack <= s.ack_no /\ s.ack_no <= t.seq_nr_next /\ a <= s.ack_no
  BY <1>3, FrontSegment
<1>7. SideOf(t, w, abort[n]) /\ FlowOf(p, b, t, a, Line(n), R, "none", strict)
  BY DEF Streams, Flow, HostMove, Moved
<1>8. a = Origin(t, w) /\ abort[n] = "none"
  BY DEF Base, HostMove, Moved
<1>9. /\ t.state = "Established" => t.next_state = "Established"
      /\ t.state = "SynReceived" => t.snd_pq = <<>>
  BY <1>1 DEF Handshake, PairsOK, HostPairs, Numeric, Fits
<1>10. Add(t.rcv_next, RcvWindow) # 0
  BY EdgeMoves
<1>11. isn \in SeqNr /\ c.abort # "rcv_overflow"
  BY <1>1, ConnectionConstants DEF Keeps
<1>12. strict \in BOOLEAN
  OBVIOUS
<1> HIDE DEF t, u, p, a, b, w, s, strict, R
<1>13. Heard(t, c, s)
  BY <1>2, <1>4, <1>5, <1>6, <1>9, <1>10, <1>11, HearStream DEF MetIn
<1>14. Sender(u, w) /\ Origin(u, w) = a
  BY <1>2, <1>4, <1>6, <1>7, <1>8, <1>9, <1>13, HeardSender DEF SideOf, u
<1>15. MetIn(u) /\ (t.state = "Established" => u.state = "Established")
  BY <1>4, <1>13 DEF Heard, MetIn, u
<1>16. SideOf(u, w, c.abort)
  <2>1. \E isn2 \in Isns : a = isn2 + 1
    BY <1>4, <1>7, <1>8 DEF SideOf, MetIn
  <2>2. MaxReads <= 1 => OneRead(u) /\ c.abort # "rcv_pq_not_empty"
    BY <1>7, <1>13 DEF SideOf, Heard, Hears, u
  <2>3. QED
    BY <1>14, <2>1, <2>2 DEF SideOf
<1>17. FlowOf(p, b, u, a, Tail(Line(n)), R \o ReadText(c.posts), c.abort, strict)
  BY <1>2, <1>3, <1>4, <1>7, <1>12, <1>13, <1>15, FlowHeard DEF s, u
<1>18. Emits(t, u, a, p, b, c.out)
  <2>1. c.out = <<>> /\ u.seq_nr_next = t.seq_nr_next
    BY <1>13 DEF Heard, u
  <2>2. MetIn(p) => EdgeOf(p) <= t.seq_nr_next
    <3>1. Peer(n) \in Node /\ Peer(Peer(n)) = n
      BY Peers
    <3>2. Fits(tcb[Peer(n)], tcb[Peer(Peer(n))], Room(Peer(n)))
      BY <1>1, <3>1 DEF Numeric
    <3>3. QED
      BY <3>1, <3>2 DEF Fits, Agrees, EdgeOf, MetIn, p, t
  <2>3. Emits(t, u, a, p, b, <<>>)
    BY <1>2, <1>15, <2>1, <2>2, SilentEmits
  <2>4. QED
    BY <2>1, <2>3
<1>19. FlowOf(u, a, p, b, Line(Peer(n)) \o c.out, Stored(Peer(n)), abort[Peer(n)], strict)
  BY <1>18, OutFlow DEF strict, t, u, p, a, b
<1>20. written'[n] = w
  BY <1>3 DEF w
<1>21. QED
  BY <1>3, <1>14, <1>16, <1>17, <1>19, <1>20 DEF StreamKept, strict, R, u, p, b

-----------------------------------------------------------------------------
(* The handshake keeps the streams *)

\* The stream to a host that has not met the other one.
LEMMA FlowUnmet ==
    ASSUME NEW p, NEW b, NEW t, NEW a, NEW L, NEW ab, NEW strict, ~MetIn(t), t.rcv_pq = <<>>,
           Carries(p, b, L), AcksOf(t, a, L)
    PROVE  FlowOf(p, b, t, a, L, <<>>, ab, strict)
<1>1. <<>> \o <<>> = <<>>
  OBVIOUS
<1>2. Receiver(t, b, <<>>)
  BY <1>1, NoSegment DEF Receiver
<1>3. QED
  BY <1>2 DEF FlowOf, InOrder

\* The first segments of host n, on a line to one that it has not met.
LEMMA OutFresh ==
    ASSUME Agreed, Streams, NEW n \in Node, NEW c \in Context, NEW o,
           Line(Peer(n)) = <<>>, ~Met(Peer(n)), Carries(c.tcb, o, c.out),
           \A j \in DOMAIN c.out : "ACK" \in c.out[j].flags =>
                /\ c.out[j].ack_no = c.tcb.rcv_next /\ Base(Peer(n)) <= c.tcb.rcv_next
                /\ tcb[Peer(n)].seq_nr_unack <= c.tcb.rcv_next
    PROVE  FlowOf(c.tcb, o, tcb[Peer(n)], Base(Peer(n)),
                  Line(Peer(n)) \o c.out, Stored(Peer(n)), abort[Peer(n)], faults["duplicate"] = 0)
<1> DEFINE u == c.tcb
           p == tcb[Peer(n)]
           L == Line(Peer(n))
           strict == faults["duplicate"] = 0
<1>1. u \in TcbT /\ p \in TcbT /\ L \in Seq(Segment) /\ c.out \in Seq(Segment)
  BY MoveTypes
<1>2. PICK b : Receiver(p, b, Stored(Peer(n)))
  BY Peers DEF Streams, Flow, FlowOf
<1>3. ~MetIn(p)
  BY DEF Met, MetIn
<1>4. FlowOf(u, o, p, Base(Peer(n)), L, Stored(Peer(n)), abort[Peer(n)], strict)
  BY <1>2, <1>3, FlowEmpty
<1>5. Emits(u, u, o, p, Base(Peer(n)), c.out)
  BY <1>3 DEF Emits
<1>6. strict \in BOOLEAN /\ DOMAIN L = {}
  BY NoSegment
<1> HIDE DEF u, p, L, strict
<1>7. FlowOf(u, o, p, Base(Peer(n)), L \o c.out, Stored(Peer(n)), abort[Peer(n)], strict)
  BY <1>1, <1>4, <1>5, <1>6, FlowEmits
<1>8. QED
  BY <1>7 DEF u, p, L, strict

\* A host that has not met the other one ignores a segment.
LEMMA StayKept ==
    ASSUME NoWrap, Agreed, Streams, NEW n \in Node, NEW c \in Context, HostMove(n, c),
           FromFront(n, c), ~Met(n), c.tcb = tcb[n], c.out = <<>>, c.posts = <<>>,
           c.abort = "none"
    PROVE  StreamKept(n, c)
<1> DEFINE t == tcb[n]
           p == tcb[Peer(n)]
           b == Base(Peer(n))
           a == Base(n)
           strict == faults["duplicate"] = 0
           R == Stored(n)
<1>1. /\ t \in TcbT /\ p \in TcbT /\ Line(n) \in Seq(Segment) /\ R \in Seq(Byte)
  BY MoveTypes
<1>2. Line(n) # <<>> /\ Line(n)' = Tail(Line(n)) /\ written' = written /\ abort[n] = "none"
  BY DEF FromFront, HostMove, Moved
<1>3. SideOf(c.tcb, written'[n], c.abort) /\ FlowOf(p, b, t, a, Line(n), R, "none", strict)
  BY <1>2 DEF Streams, Flow
<1>4. ~MetIn(t) /\ R = <<>> /\ t.rcv_pq = <<>> /\ Carries(p, b, Line(n)) /\ AcksOf(t, a, Line(n))
  BY <1>3 DEF Met, MetIn, FlowOf, Receiver
<1>5. Carries(p, b, Tail(Line(n))) /\ AcksOf(t, a, Tail(Line(n)))
  BY <1>1, <1>2, <1>4, CarriesTail
<1>6. FlowOf(p, b, t, a, Tail(Line(n)), <<>>, "none", strict)
  BY <1>4, <1>5, FlowUnmet
<1>7. R \o ReadText(c.posts) = <<>>
  <2>1. <<>> \o <<>> = <<>>
    OBVIOUS
  <2>2. QED
    BY <1>4, <2>1, ReadTextEmpty
<1>8. Emits(t, c.tcb, a, p, b, c.out)
  <2>1. MetIn(p) => EdgeOf(p) <= t.seq_nr_next
    <3>1. Peer(n) \in Node /\ Peer(Peer(n)) = n
      BY Peers
    <3>2. Fits(tcb[Peer(n)], tcb[Peer(Peer(n))], Room(Peer(n)))
      BY <3>1 DEF Agreed, Numeric
    <3>3. QED
      BY <3>1, <3>2 DEF Fits, Agrees, EdgeOf, MetIn
  <2>2. Emits(t, t, a, p, b, <<>>)
    BY <1>1, <2>1, SilentEmits
  <2>3. QED
    BY <2>2
<1>9. FlowOf(c.tcb, a, p, b, Line(Peer(n)) \o c.out, Stored(Peer(n)), abort[Peer(n)], strict)
  BY <1>8, OutFlow
<1>10. Origin(c.tcb, written'[n]) = a
  BY <1>2 DEF Base
<1>11. QED
  BY <1>2, <1>3, <1>6, <1>7, <1>9, <1>10 DEF StreamKept

\* What is on its way before the server has met the client.
LEMMA Unstarted ==
    ASSUME Agreed, ~Met("server")
    PROVE  /\ Line("client") = <<>> /\ ~Met("client")
           /\ \A j \in DOMAIN Line("server") : "ACK" \notin Line("server")[j].flags
           /\ \A s \in Coming("server") : s.flags = {"SYN"} /\ tcb["client"].state = "SynSent"
<1>1. TypeOK /\ Handshake /\ "client" \in Node /\ "server" \in Node
  BY DEF Agreed, Node
<1>2. Line("client") = <<>>
  <2>1. Line("client") \in Seq(Segment)
    BY <1>1, LineType
  <2>2. Line("client") # <<>> => 1 \in DOMAIN Line("client")
    BY <2>1, TailIs DEF IsTail
  <2>3. \A j \in DOMAIN Line("client") : Line("client")[j] \in Coming("client")
    BY <1>1, LineComing
  <2>4. Coming("client") = {}
    BY <1>1 DEF Handshake, FlagsOK
  <2>5. QED
    BY <2>2, <2>3, <2>4
<1>3. ~Synchronised("client")
  BY <1>1 DEF Handshake, OrderOK
<1>4. ~Met("client")
  BY <1>1, <1>3 DEF Handshake, PairsOK, HostPairs, Met, Synchronised
<1>5. \A s \in Coming("server") : s.flags = {"SYN"} /\ tcb["client"].state = "SynSent"
  <2>1. \A s \in Coming("server") : s.flags = {"SYN"} /\ tcb["client"].state # "Closed"
    BY <1>1, <1>3 DEF Handshake, FlagsOK
  <2>2. tcb["client"].state # "Closed" => tcb["client"].state = "SynSent"
    BY <1>1, <1>3 DEF Handshake, PairsOK, HostPairs, Synchronised
  <2>3. QED
    BY <2>1, <2>2
<1>6. \A j \in DOMAIN Line("server") : "ACK" \notin Line("server")[j].flags
  <2>1. \A j \in DOMAIN Line("server") : Line("server")[j] \in Coming("server")
    BY <1>1, LineComing
  <2>2. QED
    BY <1>5, <2>1
<1>7. QED
  BY <1>2, <1>4, <1>5, <1>6

\* A line without acknowledgments.
LEMMA NoAcks ==
    ASSUME NEW L, \A j \in DOMAIN L : "ACK" \notin L[j].flags
    PROVE  \A t, a : AcksOf(t, a, L)
<1>1. QED
  BY DEF AcksOf, Acks

\* What a host that greets sends belongs to its stream.
LEMMA GreetsCarries ==
    ASSUME NEW c \in Context, NEW isn \in SeqNr, Greets(c, isn)
    PROVE  Carries(c.tcb, isn + 1, c.out)
<1> SUFFICES ASSUME NEW j \in DOMAIN c.out PROVE Belongs(c.tcb, isn + 1, c.out[j])
  BY DEF Carries
<1>1. "SYN" \in c.out[j].flags /\ c.out[j].data = <<>> /\ c.out[j].seq_no = isn
  BY DEF Greets, HasText
<1>2. QED
  BY <1>1, NoSegment DEF Belongs, HasText

\* The TCB that a segment finds on a server which has not met the client.
LEMMA ListenLookup ==
    ASSUME Agreed, Streams, ~Met("server"), NEW t \in lookup("server")
    PROVE  /\ t \in TcbT /\ t.state = "Listen" /\ t.rcv_pq = <<>>
           /\ MaxReads <= 1 => OneRead(t)
<1>1. TypeOK /\ Handshake /\ Numeric /\ "server" \in Node
  BY DEF Agreed, Node
<1>2. t \in TcbT
  BY <1>1, LookupType
<1>3. CASE tcb["server"].state = "Closed"
  <2>1. PICK m \in UninitMss : t = new_tcb("Listen", m)
    BY <1>3 DEF lookup
  <2>2. t.state = "Listen" /\ t.rcv_pq = <<>> /\ t.on_data_receive = <<>>
    BY <2>1 DEF new_tcb
  <2>3. OneRead(t)
    <3>1. Len(<<>>) = 0
      OBVIOUS
    <3>2. QED
      BY <2>2, <3>1 DEF OneRead
  <2>4. QED
    BY <1>2, <2>2, <2>3
<1>4. CASE tcb["server"].state # "Closed"
  <2>1. t = tcb["server"]
    BY <1>4 DEF lookup
  <2>2. t.state = "Listen"
    BY <1>1, <1>4, <2>1 DEF Handshake, PairsOK, HostPairs, Met
  <2>3. t.rcv_pq = <<>>
    BY <1>1, <2>1, <2>2 DEF Numeric, Fits
  <2>4. MaxReads <= 1 => OneRead(t)
    BY <1>1, <2>1 DEF Streams, SideOf
  <2>5. QED
    BY <1>2, <2>2, <2>3, <2>4
<1>5. QED
  BY <1>3, <1>4

\* A segment that reaches it.
LEMMA ListenKept ==
    ASSUME NoWrap, Agreed, Streams, NEW n \in Node, NEW c \in Context, HostMove(n, c),
           FromFront(n, c), n = "server", ~Met(n)
    PROVE  StreamKept(n, c)
<1> DEFINE p == tcb[Peer(n)]
           u == c.tcb
           b == Base(Peer(n))
           a == Base(n)
           L == Line(n)
           s == Head(L)
           strict == faults["duplicate"] = 0
           R == Stored(n)
<1>1. TypeOK /\ Numeric /\ Keeps(n, c) /\ Peer(n) = "client"
  BY MoveFrom DEF Agreed, Peer
<1>2. /\ tcb[n] \in TcbT /\ p \in TcbT /\ u \in TcbT /\ L \in Seq(Segment) /\ R \in Seq(Byte)
      /\ b \in Nat
  BY MoveTypes
<1>3. L # <<>> /\ Line(n)' = Tail(L) /\ s \in Coming(n) /\ written' = written /\ abort[n] = "none"
  BY DEF FromFront, HostMove, Moved
<1>4. /\ Line(Peer(n)) = <<>> /\ ~Met(Peer(n)) /\ s.flags = {"SYN"} /\ p.state = "SynSent"
      /\ \A j \in DOMAIN L : "ACK" \notin L[j].flags
  BY <1>1, <1>3, Unstarted
<1>5. PICK t \in lookup(n), isn \in Isns :
            \E una \in clamp(s.ack_no, t.seq_nr_unack, t.seq_nr_next) :
                c = process(Call(t), s, isn, una)
  BY DEF FromFront
<1>6. PICK una : c = process(Call(t), s, isn, una)
  BY <1>5
<1>7. /\ t \in TcbT /\ t.state = "Listen" /\ t.rcv_pq = <<>> /\ (MaxReads <= 1 => OneRead(t))
  BY ListenLookup
<1>8. /\ SideOf(tcb[n], written[n], abort[n]) /\ SideOf(p, written[Peer(n)], abort[Peer(n)])
      /\ FlowOf(p, b, tcb[n], a, L, R, "none", strict)
  BY <1>3, Peers, ZenonT(30) DEF Streams, Flow
<1>9. ~MetIn(tcb[n]) /\ R = <<>> /\ tcb[n].rcv_pq = <<>> /\ Carries(p, b, L)
  BY <1>8 DEF Met, MetIn, FlowOf, Receiver
<1>10. Carries(p, b, Tail(L)) /\ \A q, z : AcksOf(q, z, Tail(L))
  <2>1. Carries(p, b, Tail(L))
    BY <1>2, <1>3, <1>9, CarriesTail
  <2>2. \A j \in DOMAIN Tail(L) : j + 1 \in DOMAIN L /\ Tail(L)[j] = L[j + 1]
    BY <1>2, <1>3, TailIs DEF IsTail
  <2>3. \A j \in DOMAIN Tail(L) : "ACK" \notin Tail(L)[j].flags
    BY <1>4, <2>2
  <2>4. QED
    BY <2>1, <2>3, NoAcks
<1>11. written'[n] = 0
  BY <1>3, <1>8, <1>9 DEF SideOf, Sender, MetIn
<1>12. s \in Segment /\ s.seq_no + 1 < SeqSpace /\ isn \in SeqNr /\ isn + 1 < SeqSpace
  <2>1. s \in Segment /\ SentBy(p, s)
    BY <1>1, <1>3, ComingType DEF Numeric
  <2>2. s.seq_no + 1 <= p.seq_nr_next
    BY <1>4, <2>1 DEF SentBy
  <2>3. /\ s.seq_no \in Nat /\ p.seq_nr_next \in Nat /\ p.seq_nr_next < SeqSpace /\ SeqSpace \in Nat
    BY <1>2, <2>1, SegmentNumbers, TcbNumbers, TcbConstants
  <2>4. isn \in SeqNr /\ isn \in Nat /\ ClientBytes \in Nat
    BY ConnectionConstants, TcbConstants DEF SeqNr
  <2>5. isn + 1 + ClientBytes < SeqSpace
    BY DEF NoWrap
  <2>6. QED
    BY <2>1, <2>2, <2>3, <2>4, <2>5
<1>13. R \o <<>> = <<>>
  <2>1. <<>> \o <<>> = <<>>
    OBVIOUS
  <2>2. QED
    BY <1>9, <2>1
<1>14. CASE c = Call(t)
  <2>1. u = t /\ c.posts = <<>> /\ c.out = <<>> /\ c.abort = "none"
    BY <1>14 DEF Call
  <2>2. SideOf(u, written'[n], c.abort)
    BY <1>7, <1>11, <2>1 DEF SideOf, Sender
  <2>3. ~MetIn(u)
    BY <1>7, <2>1 DEF MetIn
  <2>4. FlowOf(p, b, u, Origin(u, written'[n]), Tail(L), <<>>, c.abort, strict)
    BY <1>7, <1>10, <2>1, <2>3, FlowUnmet
  <2>5. R \o ReadText(c.posts) = <<>>
    BY <1>13, <2>1, ReadTextEmpty
  <2>6. Carries(u, Origin(u, written'[n]), c.out)
    BY <2>1, NoSegment DEF Carries
  <2>7. FlowOf(u, Origin(u, written'[n]), p, b, Line(Peer(n)) \o c.out, Stored(Peer(n)),
               abort[Peer(n)], strict)
    BY <1>4, <2>1, <2>6, NoSegment, OutFresh
  <2>8. QED
    BY <1>3, <2>2, <2>4, <2>5, <2>7 DEF StreamKept
<1>15. CASE /\ Greets(c, isn) /\ "SYN" \in s.flags
            /\ c.tcb.state = "SynReceived" /\ c.abort = "none"
            /\ c.tcb.rcv_next = s.seq_no + 1 /\ c.tcb.rcv_pq = t.rcv_pq
            /\ c.tcb.on_data_receive = t.on_data_receive /\ c.tcb.seq_nr_unack = isn
  <2>1. Origin(u, written'[n]) = isn + 1
    BY <1>15 DEF Origin, Greets
  <2>2. SideOf(u, written'[n], c.abort)
    <3>1. Sender(u, written'[n])
      BY <1>11, <1>15 DEF Sender
    <3>2. MaxReads <= 1 => OneRead(u)
      BY <1>7, <1>15 DEF OneRead
    <3>3. QED
      BY <1>15, <2>1, <3>1, <3>2 DEF SideOf
  <2>3. MetIn(u)
    BY <1>15 DEF MetIn
  <2>4. p.seq_nr_next = b
    BY <1>4 DEF Base, Origin
  <2>5. ReadText(c.posts) = <<>>
    BY <1>15, ReadTextEmpty DEF Greets
  <2>6. strict \in BOOLEAN
    OBVIOUS
  <2>7. u.rcv_pq = tcb[n].rcv_pq
    BY <1>7, <1>9, <1>15
  <2>8. FlowOf(p, b, u, isn + 1, Tail(L), R \o ReadText(c.posts), c.abort, strict)
    <3> DEFINE v == tcb[n]
               z == isn + 1
    <3>1. /\ p \in TcbT /\ v \in TcbT /\ b \in Nat /\ L \in Seq(Segment) /\ L # <<>>
          /\ R \in Seq(Byte) /\ strict \in BOOLEAN /\ FlowOf(p, b, v, a, L, R, "none", strict)
          /\ ~MetIn(v) /\ MetIn(c.tcb) /\ "SYN" \in Head(L).flags
          /\ c.tcb.rcv_next = Head(L).seq_no + 1 /\ c.tcb.rcv_pq = v.rcv_pq
          /\ ReadText(c.posts) = <<>> /\ p.state # "Established" /\ p.seq_nr_next = b
          /\ AcksOf(c.tcb, z, Tail(L))
      BY <1>2, <1>3, <1>4, <1>8, <1>9, <1>10, <1>15, <2>3, <2>4, <2>5, <2>6, <2>7
    <3> HIDE DEF strict, R, L, p, b, a, v, z
    <3>2. FlowOf(p, b, c.tcb, z, Tail(L), R \o ReadText(c.posts), c.abort, strict)
      BY <3>1, FlowMeets
    <3>3. QED
      BY <3>2 DEF z
  <2>9. u.rcv_next = b /\ b <= u.rcv_next
    <3>1. Belongs(p, b, s)
      BY <1>2, <1>3, <1>9, CarriesTail
    <3>2. QED
      BY <1>2, <1>15, <3>1 DEF Belongs
  <2>10. p.seq_nr_unack <= u.rcv_next
    BY <1>1, <1>15 DEF Keeps, Fits, Agrees
  <2>11. Carries(u, isn + 1, c.out)
    BY <1>12, <1>15, GreetsCarries
  <2>12. \A j \in DOMAIN c.out : "ACK" \in c.out[j].flags => c.out[j].ack_no = u.rcv_next
    BY <1>15 DEF Greets
  <2>13. FlowOf(u, isn + 1, p, b, Line(Peer(n)) \o c.out, Stored(Peer(n)), abort[Peer(n)], strict)
    BY <1>4, <2>9, <2>10, <2>11, <2>12, OutFresh
  <2>14. QED
    BY <1>3, <2>1, <2>2, <2>8, <2>13 DEF StreamKept
<1>16. QED
  BY <1>6, <1>7, <1>12, <1>14, <1>15, ListenStream

\* A segment that reaches the client while it waits for the answer to its SYN.
LEMMA SynSentKept ==
    ASSUME NoWrap, Agreed, Streams, NEW n \in Node, NEW c \in Context, HostMove(n, c),
           FromFront(n, c), n = "client", ~Met(n)
    PROVE  StreamKept(n, c)
<1> DEFINE t == tcb[n]
           p == tcb[Peer(n)]
           u == c.tcb
           b == Base(Peer(n))
           a == Base(n)
           L == Line(n)
           s == Head(L)
           strict == faults["duplicate"] = 0
           R == Stored(n)
<1>1. TypeOK /\ Handshake /\ Numeric /\ Keeps(n, c) /\ Peer(n) = "server" /\ Peer(n) \in Node
  BY MoveFrom DEF Agreed, Peer, Node
<1>2. /\ t \in TcbT /\ p \in TcbT /\ u \in TcbT /\ L \in Seq(Segment) /\ R \in Seq(Byte)
      /\ b \in Nat /\ a \in Nat /\ c.out \in Seq(Segment)
  BY MoveTypes
<1>3. L # <<>> /\ Line(n)' = Tail(L) /\ s \in Coming(n) /\ written' = written /\ abort[n] = "none"
  BY DEF FromFront, HostMove, Moved
<1>4. Met(Peer(n)) /\ t.state = "SynSent" /\ t.next_state = "Established"
  <2>1. Met("server")
    BY <1>1, <1>3 DEF Handshake, FlagsOK
  <2>2. t.state # "Closed"
    BY <1>1, <2>1 DEF Handshake, OrderOK
  <2>3. QED
    BY <1>1, <2>1, <2>2 DEF Handshake, PairsOK, HostPairs, Met
<1>5. p.state # "Established" /\ p.state = "SynReceived"
  BY <1>1, <1>4 DEF Handshake, OrderOK, Synchronised, Met
<1>6. PICK isn \in Isns, una \in clamp(s.ack_no, t.seq_nr_unack, t.seq_nr_next) :
            c = process(Call(t), s, isn, una)
  BY <1>4 DEF FromFront, lookup
<1>7. s \in Segment /\ isn \in SeqNr
  BY <1>1, <1>3, ComingType, ConnectionConstants
<1>8. /\ SideOf(t, written[n], abort[n]) /\ FlowOf(p, b, t, a, L, R, "none", strict)
  BY <1>3 DEF Streams, Flow
<1>9. /\ ~MetIn(t) /\ Carries(p, b, L) /\ Belongs(p, b, s) /\ AcksOf(t, a, L)
  <2>1. ~MetIn(t) /\ Carries(p, b, L) /\ AcksOf(t, a, L)
    BY <1>8 DEF Met, MetIn, FlowOf
  <2>2. QED
    BY <1>2, <1>3, <2>1, CarriesTail
<1>10. CASE c.tcb = t /\ c.out = <<>> /\ c.posts = <<>> /\ c.abort = "none"
  BY <1>10, StayKept
<1>11. CASE "SYN" \in s.flags
  <2>1. s.seq_no + 1 < SeqSpace
    <3>1. SentBy(p, s)
      BY <1>1, <1>3 DEF Numeric
    <3>2. s.seq_no + 1 <= p.seq_nr_next
      BY <1>11, <3>1 DEF SentBy
    <3>3. /\ s.seq_no \in Nat /\ p.seq_nr_next \in Nat /\ p.seq_nr_next < SeqSpace /\ SeqSpace \in Nat
      BY <1>2, <1>7, SegmentNumbers, TcbNumbers, TcbConstants
    <3>4. QED
      BY <3>2, <3>3
  <2>2. \/ c = Call(t)
        \/ /\ "SYN" \in s.flags /\ "ACK" \in s.flags
           /\ u.state = "Established" /\ c.abort = "none" /\ ReadText(c.posts) = <<>>
           /\ u.seq_nr_next = t.seq_nr_next /\ u.seq_nr_unack = s.ack_no
           /\ u.snd_pq = <<>> /\ s.ack_no <= t.seq_nr_next
           /\ u.rcv_next = s.seq_no + 1 /\ u.rcv_pq = t.rcv_pq
           /\ u.on_data_receive = t.on_data_receive
           /\ \A j \in DOMAIN c.out :
                /\ ~HasText(c.out[j]) /\ c.out[j].ack_no = u.rcv_next
                /\ "SYN" \notin c.out[j].flags
    BY <1>2, <1>4, <1>6, <1>7, <2>1, SynSentStream
  <2>3. CASE c = Call(t)
    BY <1>10, <2>3 DEF Call
  <2>4. CASE c # Call(t)
    <3>1. a = t.seq_nr_next /\ written[n] = 0
      BY <1>4, <1>8 DEF Base, Origin, SideOf, Sender
    <3>2. AcksOf(u, a, Tail(L)) /\ a <= s.ack_no
      <4>1. Acks(Tail(L), s.ack_no)
        BY <1>2, <1>3, <1>9, <2>2, <2>4, AcksTail DEF AcksOf
      <4>2. AcksOf(t, a, Tail(L)) /\ a <= s.ack_no
        BY <1>2, <1>3, <1>9, <2>2, <2>4, CarriesTail
      <4>3. QED
        BY <2>2, <2>4, <4>1, <4>2 DEF AcksOf
    <3>3. s.ack_no = t.seq_nr_next
      <4>1. s.ack_no \in Nat /\ t.seq_nr_next \in Nat
        BY <1>2, <1>7, SegmentNumbers, TcbNumbers
      <4>2. QED
        BY <2>2, <2>4, <3>1, <3>2, <4>1
    <3>4. Origin(u, written'[n]) = a /\ Sender(u, written'[n])
      <4>1. Len(u.snd_pq) = 0 /\ DOMAIN u.snd_pq = {} /\ u.seq_nr_unack = a /\ u.seq_nr_next = a
        BY <2>2, <2>4, <3>1, <3>3, NoSegment
      <4>2. written'[n] = 0
        BY <1>3, <3>1
      <4>3. Origin(u, written'[n]) = a
        BY <1>2, <2>2, <2>4, <4>1, <4>2 DEF Origin
      <4>4. Held(u)
        BY <1>2, <4>1 DEF Held
      <4>5. a <= a
        BY <1>2
      <4>6. QED
        BY <2>2, <2>4, <4>1, <4>3, <4>4, <4>5 DEF Sender
    <3>5. SideOf(u, written'[n], c.abort)
      <4>1. \E k \in Isns : a = k + 1
        BY <1>4, <1>8 DEF SideOf, Base
      <4>2. MaxReads <= 1 => OneRead(u)
        BY <1>8, <2>2, <2>4 DEF SideOf, OneRead
      <4>3. QED
        BY <2>2, <2>4, <3>4, <4>1, <4>2 DEF SideOf
    <3>6. MetIn(u) /\ p.seq_nr_next = b /\ strict \in BOOLEAN
      BY <1>5, <2>2, <2>4 DEF MetIn, Base, Origin
    <3>7. FlowOf(p, b, u, a, Tail(L), R \o ReadText(c.posts), c.abort, strict)
      <4>1. /\ p \in TcbT /\ t \in TcbT /\ b \in Nat /\ L \in Seq(Segment) /\ L # <<>>
            /\ R \in Seq(Byte) /\ strict \in BOOLEAN /\ FlowOf(p, b, t, a, L, R, "none", strict)
            /\ ~MetIn(t) /\ MetIn(c.tcb) /\ "SYN" \in Head(L).flags
            /\ c.tcb.rcv_next = Head(L).seq_no + 1 /\ c.tcb.rcv_pq = t.rcv_pq
            /\ ReadText(c.posts) = <<>> /\ p.state # "Established" /\ p.seq_nr_next = b
            /\ AcksOf(c.tcb, a, Tail(L))
        BY <1>2, <1>3, <1>5, <1>8, <1>9, <1>11, <2>2, <2>4, <3>2, <3>6
      <4> HIDE DEF strict, R, L, p, b, a, t
      <4>2. QED
        BY <4>1, FlowMeets
    <3>8. u.rcv_next = b /\ b <= u.rcv_next
      BY <1>2, <1>9, <1>11, <2>2, <2>4 DEF Belongs
    <3>9. Emits(t, u, a, p, b, c.out)
      <4>1. p.seq_nr_unack <= u.rcv_next
        BY <1>1, <2>2, <2>4 DEF Keeps, Fits, Agrees
      <4>2. Carries(u, a, c.out)
        BY <2>2, <2>4, NoSegment DEF Carries, Belongs, HasText
      <4>3. EdgeOf(p) <= t.seq_nr_next
        <5>1. Fits(tcb[Peer(n)], tcb[Peer(Peer(n))], Room(Peer(n))) /\ Peer(Peer(n)) = n
          BY <1>1, Peers DEF Numeric
        <5>2. QED
          BY <1>5, <5>1 DEF Fits, Agrees, EdgeOf
      <4>4. t.seq_nr_next \in Int /\ t.seq_nr_next <= t.seq_nr_next
        BY <1>2, TcbNumbers
      <4>5. Chain(c.out, t.seq_nr_next, t.seq_nr_next) /\ Strict(c.out, t.seq_nr_next)
        BY <2>2, <2>4, <4>4, NoText
      <4>6. t.state # "Established"
        BY <1>4
      <4>7. QED
        BY <2>2, <2>4, <3>8, <4>1, <4>2, <4>3, <4>4, <4>5, <4>6 DEF Emits
    <3>10. FlowOf(u, a, p, b, Line(Peer(n)) \o c.out, Stored(Peer(n)), abort[Peer(n)], strict)
      BY <3>9, OutFlow
    <3>11. QED
      BY <1>3, <3>4, <3>5, <3>7, <3>10 DEF StreamKept
  <2>5. QED
    BY <2>3, <2>4
<1>12. CASE "SYN" \notin s.flags
  <2>1. c.tcb = t /\ c.out = <<>> /\ c.posts = <<>> /\ c.abort = "none"
    BY <1>2, <1>4, <1>6, <1>7, <1>12, ProcessSynSent
  <2>2. QED
    BY <1>10, <2>1
<1>13. QED
  BY <1>11, <1>12

\* async_connect.
LEMMA ConnectKept ==
    ASSUME NoWrap, Agreed, Streams, NEW n \in Node, NEW c \in Context, HostMove(n, c),
           FromConnect(n, c), Line(n)' = Line(n)
    PROVE  StreamKept(n, c)
<1> DEFINE p == tcb[Peer(n)]
           u == c.tcb
           b == Base(Peer(n))
           L == Line(n)
           strict == faults["duplicate"] = 0
           R == Stored(n)
<1>1. /\ TypeOK /\ Handshake /\ Keeps(n, c) /\ n = "client" /\ Peer(n) = "server"
      /\ tcb[n].state = "Closed" /\ written' = written
  BY MoveFrom DEF Agreed, Peer, FromConnect
<1>2. ~Met("server")
  BY <1>1 DEF Handshake, OrderOK
<1>3. L = <<>>
  BY <1>1, <1>2, Unstarted
<1>4. Line(Peer(n)) = <<>>
  <2>1. Line("server") \in Seq(Segment) /\ "server" \in Node
    BY <1>1, LineType DEF Node
  <2>2. Line("server") # <<>> => 1 \in DOMAIN Line("server")
    BY <2>1, TailIs DEF IsTail
  <2>3. \A j \in DOMAIN Line("server") : Line("server")[j] \in Coming("server")
    BY <1>1, <2>1, LineComing
  <2>4. Coming("server") = {}
    BY <1>1, <1>2, Unstarted
  <2>5. QED
    BY <1>1, <2>2, <2>3, <2>4
<1>5. PICK isn \in Isns, m \in UninitMss :
            c = start_connecting(Call(new_tcb("Connecting", m)), isn, MyMss)
  BY DEF FromConnect
<1>6. isn \in SeqNr /\ isn + 1 < SeqSpace /\ m \in Nat
  <2>1. isn \in SeqNr /\ isn \in Nat /\ ClientBytes \in Nat /\ SeqSpace \in Nat /\ m \in Nat
    BY ConnectionConstants, TcbConstants DEF SeqNr
  <2>2. isn + 1 + ClientBytes < SeqSpace
    BY DEF NoWrap
  <2>3. QED
    BY <2>1, <2>2
<1>7. Greets(c, isn) /\ u.on_data_receive = <<>> /\ c.abort = "none"
  BY <1>5, <1>6, ConnectStream
<1>8. u.state = "SynSent"
  <2>1. Move(n, c)
    BY MoveFrom
  <2>2. QED
    BY <1>5 DEF start_connecting, Call, new_tcb
<1>9. u.rcv_pq = <<>>
  BY <1>1, <1>8 DEF Keeps, Fits
<1>10. /\ SideOf(tcb[n], written[n], abort[n])
       /\ FlowOf(p, b, tcb[n], Base(n), L, R, abort[n], strict)
  BY DEF Streams, Flow
<1>11. written'[n] = 0 /\ Origin(u, written'[n]) = isn + 1
  BY <1>1, <1>7, <1>8, <1>10 DEF SideOf, Sender, Origin, Greets
<1>12. SideOf(u, written'[n], c.abort)
  <2>1. Len(<<>>) = 0
    OBVIOUS
  <2>2. OneRead(u)
    BY <1>7, <2>1 DEF OneRead
  <2>3. QED
    BY <1>7, <1>8, <1>11, <2>2 DEF SideOf, Sender
<1>13. FlowOf(p, b, u, isn + 1, L, R \o ReadText(c.posts), c.abort, strict)
  <2>1. R = <<>>
    BY <1>1, <1>10 DEF FlowOf, Receiver, MetIn
  <2>2. ReadText(c.posts) = <<>>
    BY <1>7, ReadTextEmpty DEF Greets
  <2>3. <<>> \o <<>> = <<>>
    OBVIOUS
  <2>4. R \o ReadText(c.posts) = <<>>
    BY <2>1, <2>2, <2>3
  <2>5. Carries(p, b, L) /\ AcksOf(u, isn + 1, L)
    BY <1>3, NoSegment, NoAcks DEF Carries
  <2>6. ~MetIn(u)
    BY <1>8 DEF MetIn
  <2>7. QED
    BY <1>9, <2>4, <2>5, <2>6, FlowUnmet
<1>14. FlowOf(u, isn + 1, p, b, Line(Peer(n)) \o c.out, Stored(Peer(n)), abort[Peer(n)], strict)
  <2>1. Carries(u, isn + 1, c.out)
    BY <1>6, <1>7, GreetsCarries
  <2>2. \A j \in DOMAIN c.out : "ACK" \notin c.out[j].flags
    <3>1. c.out = Append(<<>>, [flags |-> {"SYN"}, seq_no |-> isn, ack_no |-> 0,
                                window |-> RcvWindow, mss |-> MyMss, data |-> <<>>])
      BY <1>5 DEF start_connecting, Call
    <3>2. QED
      BY <3>1
  <2>3. QED
    BY <1>1, <1>2, <1>4, <2>1, <2>2, OutFresh
<1>15. QED
  BY <1>11, <1>12, <1>13, <1>14 DEF StreamKept

-----------------------------------------------------------------------------
(* Every step keeps the streams *)

\* A step of a host.
LEMMA HostStreams ==
    ASSUME NoWrap, EdgeNotZero, Agreed, Streams, NEW n \in Node, NEW c \in Context, HostMove(n, c)
    PROVE  Streams'
<1>1. TypeOK /\ Keeps(n, c)
  BY MoveFrom DEF Agreed
<1>2. CASE FromFront(n, c)
  <2>1. n = "client" \/ n = "server"
    BY DEF Node
  <2>2. QED
    BY <1>2, <2>1, HeardKept, ListenKept, SynSentKept, <1>1, KeptStreams DEF Keeps
<1>3. CASE Line(n)' = Line(n) /\ (FromConnect(n, c) \/ FromCall(n, c) \/ FromSend(n, c))
  BY <1>1, <1>3, CallKept, ConnectKept, KeptStreams DEF Keeps
<1>4. QED
  BY <1>2, <1>3 DEF HostMove

\* The network, as long as it loses and reorders nothing.
LEMMA NetStreams ==
    ASSUME TypeOK, Streams, NetMove, faults'["lose"] + faults'["swap"] = 0
    PROVE  Streams'
<1>1. tcb' = tcb /\ abort' = abort /\ written' = written
  BY DEF NetMove, NetStep
<1> SUFFICES ASSUME NEW n \in Node
             PROVE  SideOf(tcb'[n], written'[n], abort'[n]) /\ Flow(n)'
  BY DEF Streams
<1> DEFINE p == tcb[Peer(n)]
           t == tcb[n]
           b == Base(Peer(n))
           a == Base(n)
           strict == faults["duplicate"] = 0
           after == faults'["duplicate"] = 0
<1>2. Stored(n)' = Stored(n)
  BY DEF NetMove
<1>3. SideOf(tcb'[n], written'[n], abort'[n])
  BY <1>1 DEF Streams
<1>4. FlowOf(p, b, t, a, Line(n), Stored(n), abort[n], strict)
  BY DEF Streams, Flow
<1>5. Line(n) \in Seq(Segment)
  BY LineType
<1>6. FlowOf(p, b, t, a, Line(n)', Stored(n), abort[n], after)
  <2>1. CASE faults' = faults /\ Line(n)' = Line(n)
    BY <1>4, <2>1
  <2>2. CASE /\ faults' = [faults EXCEPT !["duplicate"] = @ + 1]
             /\ Line(n)' = Line(n) \/ Doubled(Line(n), Line(n)')
    <3>1. ~after
      <4>1. faults["duplicate"] \in Nat /\ faults'["duplicate"] = faults["duplicate"] + 1
        BY <2>2 DEF TypeOK, FaultKinds
      <4>2. QED
        BY <4>1
    <3>2. FlowOf(p, b, t, a, Line(n), Stored(n), abort[n], FALSE)
      BY <1>4 DEF FlowOf, InOrder
    <3>3. FlowOf(p, b, t, a, Line(n)', Stored(n), abort[n], FALSE)
      BY <1>4, <1>5, <2>2, <3>2, FlowDoubled
    <3>4. QED
      BY <3>1, <3>3 DEF FlowOf, InOrder
  <2>3. QED
    BY <2>1, <2>2 DEF NetMove
<1>7. Base(n)' = a /\ Base(Peer(n))' = b
  BY <1>1 DEF Base
<1>8. FlowOf(tcb'[Peer(n)], Base(Peer(n))', tcb'[n], Base(n)', Line(n)', Stored(n)', abort'[n], after)
  BY <1>1, <1>2, <1>6, <1>7, Zenon
<1>9. Flow(n)'
  BY <1>8 DEF Flow
<1>10. QED
  BY <1>3, <1>9

\* The inductive invariant: the streams, as long as nothing was lost or reordered.
StreamInv ==
    /\ \A n \in Node : OneRx(ioq[n])
    /\ faults["lose"] + faults["swap"] = 0 => Streams

\* Every step keeps it.
LEMMA StreamStep ==
    ASSUME NoWrap, EdgeNotZero, Agreed, StreamInv, Next
    PROVE  StreamInv'
<1>1. TypeOK /\ \A n \in Node : OneRx(ioq[n])
  BY DEF Agreed, StreamInv
<1>2. CASE NetMove
  <2>1. \A n \in Node : OneRx(ioq'[n])
    BY <1>2 DEF NetMove
  <2>2. ASSUME faults'["lose"] + faults'["swap"] = 0 PROVE Streams'
    <3>1. faults["lose"] + faults["swap"] = 0
      <4>1. "lose" # "duplicate" /\ "swap" # "duplicate"
        OBVIOUS
      <4>2. faults' = faults \/ faults' = [faults EXCEPT !["duplicate"] = @ + 1]
        BY <1>2, <2>2 DEF NetMove
      <4>3. faults \in [FaultKinds -> Nat]
        BY <1>1 DEF TypeOK
      <4>4. faults'["lose"] = faults["lose"] /\ faults'["swap"] = faults["swap"]
        BY <4>2, <4>3 DEF FaultKinds
      <4>5. QED
        BY <2>2, <4>4
    <3>2. QED
      BY <1>1, <1>2, <2>2, <3>1, NetStreams DEF StreamInv
  <2>3. QED
    BY <2>1, <2>2 DEF StreamInv
<1>3. ASSUME NEW n \in Node, NEW c \in Context, HostMove(n, c)
      PROVE  StreamInv'
  <2>1. faults' = faults /\ \A m \in Node : OneRx(ioq'[m])
    BY <1>3 DEF HostMove, Moved
  <2>2. faults["lose"] + faults["swap"] = 0 => Streams'
    BY <1>3, HostStreams DEF StreamInv
  <2>3. QED
    BY <2>1, <2>2 DEF StreamInv
<1>4. QED
  BY <1>1, <1>2, <1>3, StreamShape

\* Nothing has been written, sent or received when the hosts start.
LEMMA InitStreams == Init => StreamInv
<1> SUFFICES ASSUME Init PROVE StreamInv
  OBVIOUS
<1>1. \A n \in Node : /\ tcb[n] = new_tcb("Closed", 0) /\ ioq[n] = <<>> /\ net[n] = <<>>
                      /\ abort[n] = "none" /\ written[n] = 0 /\ got[n] = <<>>
  BY DEF Init
<1>2. \A n \in Node : OneRx(ioq[n])
  BY <1>1, NoSegment DEF OneRx
<1> DEFINE t == new_tcb("Closed", 0)
<1>3. t.state = "Closed" /\ t.rcv_pq = <<>> /\ t.on_data_receive = <<>>
  BY DEF new_tcb
<1>4. SideOf(t, 0, "none")
  <2>1. Len(<<>>) = 0
    OBVIOUS
  <2>2. OneRead(t)
    BY <1>3, <2>1 DEF OneRead
  <2>3. QED
    BY <1>3, <2>2 DEF SideOf, Sender
<1> HIDE DEF t
<1>5. ASSUME NEW n \in Node PROVE Flow(n)
  <2>1. Line(n) = <<>>
    <3>1. Range(<<>>) = {}
      BY NoSegment DEF Range
    <3>2. RxPart(<<>>) = <<>>
      BY <3>1 DEF RxPart, Rxs
    <3>3. <<>> \o <<>> = <<>>
      OBVIOUS
    <3>4. Line(n) = RxPart(ioq[n]) \o net[n]
      BY LineIs
    <3>5. QED
      BY <1>1, <3>2, <3>3, <3>4
  <2>2. Stored(n) = <<>>
    <3>1. <<>> \o <<>> = <<>>
      OBVIOUS
    <3>2. QED
      BY <1>1, <3>1, ReadTextEmpty DEF Stored
  <2>3. ~MetIn(t)
    BY <1>3 DEF MetIn
  <2>4. Carries(tcb[Peer(n)], Base(Peer(n)), <<>>) /\ AcksOf(t, Base(n), <<>>)
    BY NoSegment, NoAcks DEF Carries
  <2>5. FlowOf(tcb[Peer(n)], Base(Peer(n)), t, Base(n), <<>>, <<>>, abort[n], faults["duplicate"] = 0)
    BY <1>3, <2>3, <2>4, FlowUnmet
  <2>6. tcb[n] = t
    BY <1>1 DEF t
  <2>7. QED
    BY <2>1, <2>2, <2>5, <2>6 DEF Flow
<1>6. \A n \in Node : SideOf(tcb[n], written[n], abort[n])
  BY <1>1, <1>4 DEF t
<1>7. QED
  BY <1>2, <1>5, <1>6 DEF StreamInv, Streams

\* It holds in every reachable state.
LEMMA StreamAlways ==
    ASSUME NoWrap, EdgeNotZero
    PROVE  Spec => [](Agreed /\ StreamInv)
<1>1. Init => StreamInv
  BY InitStreams
<1>2. Agreed /\ StreamInv /\ [Next]_vars => StreamInv'
  <2> SUFFICES ASSUME Agreed, StreamInv, [Next]_vars PROVE StreamInv'
    OBVIOUS
  <2>1. CASE Next
    BY <2>1, StreamStep
  <2>2. CASE UNCHANGED vars
    BY <2>2 DEF vars, StreamInv, Streams, Flow, Base, Line, Stored
  <2>3. QED
    BY <2>1, <2>2
<1>3. Spec => []Agreed
  BY AgreedAlways
<1>4. QED
  BY <1>1, <1>2, <1>3, PTL DEF Spec

-----------------------------------------------------------------------------
(* What this means for the applications *)

\* What a host has received, by position: it is all that lies between the start of
\* the stream and the edge.
LEMMA ReceivedIs ==
    ASSUME Agreed, Streams, NEW n \in Node
    PROVE  /\ Received(n) = Stored(n) \o tcb[n].rcv_pq
           /\ Received(n) \in Seq(Byte) /\ Len(Received(n)) \in Nat
           /\ \A i \in DOMAIN Received(n) : Received(n)[i] = i
           /\ ~Met(n) => Received(n) = <<>>
           /\ Met(n) => EdgeOf(tcb[n]) = Base(Peer(n)) + Len(Received(n))
<1> DEFINE t == tcb[n]
           r == Received(n)
<1>1. t.rcv_pq \in Seq(Byte) /\ Stored(n) \in Seq(Byte) /\ TypeOK
  BY LineType, TcbNumbers DEF Agreed, TypeOK
<1>2. r = Stored(n) \o t.rcv_pq
  <2>1. got[n] \in Seq(Byte) /\ ReadText(ioq[n]) \in Seq(Byte)
    BY <1>1, LineType
  <2>2. QED
    BY <1>1, <2>1, Group DEF Received, Stored
<1>3. r \in Seq(Byte) /\ Len(r) \in Nat
  BY <1>1, <1>2, ConcatIs, LenProperties
<1>4. Receiver(t, Base(Peer(n)), Stored(n))
  BY DEF Streams, Flow, FlowOf
<1>5. <<>> \o <<>> = <<>>
  OBVIOUS
<1>6. QED
  BY <1>2, <1>3, <1>4, <1>5 DEF Receiver, Met, MetIn

\* A host that has met the other one has no more than that one wrote.
LEMMA StreamsInOrder ==
    ASSUME Agreed, Streams
    PROVE  ReceivedInOrder
<1> SUFFICES ASSUME NEW n \in Node
             PROVE  Len(Received(n)) <= written[Peer(n)]
  BY ReceivedIs DEF ReceivedInOrder
<1> DEFINE p == tcb[Peer(n)]
           w == written[Peer(n)]
           b == Base(Peer(n))
<1>1. TypeOK /\ Numeric /\ Peer(n) \in Node /\ Peer(Peer(n)) = n
  BY Peers DEF Agreed
<1>2. p \in TcbT /\ w \in Nat
  BY <1>1 DEF TypeOK
<1>3. SideOf(p, w, abort[Peer(n)])
  BY <1>1 DEF Streams
<1>4. b \in Nat /\ p.seq_nr_next <= b + w
  BY <1>2, <1>3, OriginType DEF Base
<1>5. CASE ~Met(n)
  <2>1. Len(<<>>) = 0
    OBVIOUS
  <2>2. QED
    BY <1>2, <1>5, <2>1, ReceivedIs
<1>6. CASE Met(n)
  <2>1. EdgeOf(tcb[n]) <= p.seq_nr_next
    BY <1>1, <1>6 DEF Numeric, Fits, Agrees, EdgeOf, Met
  <2>2. EdgeOf(tcb[n]) = b + Len(Received(n)) /\ Len(Received(n)) \in Nat
    BY <1>6, ReceivedIs
  <2>3. p.seq_nr_next \in Nat
    BY <1>2, TcbNumbers
  <2> HIDE DEF b, w, p
  <2>4. Len(Received(n)) <= w
    BY <1>2, <1>4, <2>1, <2>2, <2>3
  <2>5. QED
    BY <2>4 DEF w
<1>7. QED
  BY <1>5, <1>6

\* A byte that left the send queue was acknowledged, so the peer has it.
LEMMA StreamsRemembered ==
    ASSUME Agreed, Streams
    PROVE  NothingForgotten
<1> SUFFICES ASSUME NEW n \in Node, NEW i \in 1 .. written[n]
             PROVE  i \in Range(tcb[n].snd_pq) \cup Range(Received(Peer(n)))
  BY DEF NothingForgotten
<1> DEFINE t == tcb[n]
           p == tcb[Peer(n)]
           w == written[n]
           b == Base(n)
           una == t.seq_nr_unack
           r == Received(Peer(n))
<1>1. TypeOK /\ Numeric /\ Handshake /\ Peer(n) \in Node /\ Peer(Peer(n)) = n
  BY Peers DEF Agreed
<1>2. t \in TcbT /\ p \in TcbT /\ w \in Nat /\ i \in Nat /\ 1 <= i /\ i <= w
  BY <1>1 DEF TypeOK
<1>3. SideOf(t, w, abort[n])
  BY DEF Streams
<1>4. t.state = "Established" /\ Synchronised(n)
  BY <1>2, <1>3 DEF SideOf, Sender, Synchronised
<1>5. Met(n) /\ Met(Peer(n))
  BY <1>1, <1>4, BothMet
<1>6. /\ b \in Nat /\ b = una + Len(t.snd_pq) - w /\ una \in Nat /\ Len(t.snd_pq) \in Nat
      /\ t.snd_pq \in Seq(Byte)
  BY <1>2, <1>3, <1>4, OriginType, TcbNumbers DEF Base, Origin
<1>7. b <= una /\ \A k \in DOMAIN t.snd_pq : t.snd_pq[k] = una - b + k
  BY <1>3, <1>4 DEF SideOf, Sender, Base
<1>8. una <= p.rcv_next
  BY <1>1, <1>5, MetFits DEF Agrees
<1>9. /\ EdgeOf(p) = b + Len(r) /\ r \in Seq(Byte) /\ Len(r) \in Nat
      /\ \A k \in DOMAIN r : r[k] = k
  BY <1>1, <1>5, ReceivedIs
<1>10. p.rcv_next \in Nat /\ Len(p.rcv_pq) \in Nat /\ EdgeOf(p) = p.rcv_next + Len(p.rcv_pq)
  BY <1>2, TcbNumbers DEF EdgeOf
<1>11. DOMAIN r = 1 .. Len(r) /\ DOMAIN t.snd_pq = 1 .. Len(t.snd_pq)
  BY <1>6, <1>9, LenProperties
<1> DEFINE q == t.snd_pq
<1> HIDE DEF t, p, w, b, una, r, q
<1>12. CASE i <= una - b
  <2>1. i \in 1 .. Len(r)
    BY <1>2, <1>6, <1>8, <1>9, <1>10, <1>12, SMTT(30)
  <2>2. i \in DOMAIN r /\ r[i] = i
    BY <1>9, <1>11, <2>1
  <2>3. i \in Range(r)
    BY <2>2 DEF Range
  <2>4. QED
    BY <2>3 DEF r
<1>13. CASE una - b < i
  <2> DEFINE k == i - (una - b)
  <2>1. k \in 1 .. Len(q) /\ una - b + k = i
    BY <1>2, <1>6, <1>7, <1>13 DEF q
  <2> HIDE DEF k
  <2>2. k \in DOMAIN q /\ q[k] = i
    BY <1>7, <1>11, <2>1 DEF q
  <2>3. i \in Range(q)
    BY <2>2 DEF Range
  <2>4. QED
    BY <2>3 DEF q, t
<1>14. QED
  BY <1>2, <1>6, <1>12, <1>13

\* Whatever the network duplicates, text, acknowledgments or the segments of the
\* handshake, a host receives the bytes of the other one once and in order, and
\* no byte leaves the send queue before the other host has it: the sequence number
\* test of process() and the comparison of SEG.ACK with SND.UNA discard every old
\* duplicate, as long as no sequence number wraps and the edge of the window is
\* not 0.
THEOREM ConnectionDuplicatesHarmless ==
    ASSUME NoWrap, EdgeNotZero
    PROVE  Spec => []DuplicatesHarmless
<1>1. Agreed /\ StreamInv => DuplicatesHarmless
  BY StreamsInOrder, StreamsRemembered DEF StreamInv, DuplicatesHarmless
<1>2. QED
  BY <1>1, StreamAlways, PTL

-----------------------------------------------------------------------------
(* Every byte in its place *)

\* Queue q holds the bytes of a stream that follow the first a of them.
Run(q, a) == \A i \in DOMAIN q : q[i] = a + i

\* One such queue behind the other.
LEMMA RunConcat ==
    ASSUME NEW x \in Seq(Byte), NEW y \in Seq(Byte), NEW a \in Int, Run(x, a), Run(y, a + Len(x))
    PROVE  x \o y \in Seq(Byte) /\ Len(x \o y) = Len(x) + Len(y) /\ Run(x \o y, a)
<1> DEFINE z == x \o y
<1>1. IsConcat(x, y, z) /\ z \in Seq(Byte)
  BY ConcatIs
<1> HIDE DEF z
<1>2. Len(x) \in Nat /\ Len(z) = Len(x) + Len(y)
  BY <1>1 DEF IsConcat
<1>3. ASSUME NEW i \in DOMAIN z PROVE z[i] = a + i
  <2>1. CASE i \in DOMAIN x
    BY <1>1, <2>1 DEF IsConcat, Run
  <2>2. CASE i \notin DOMAIN x
    <3>1. i \in Nat
      BY <1>1 DEF IsConcat
    <3>2. i - Len(x) \in DOMAIN y /\ z[i] = y[i - Len(x)]
      BY <1>1, <2>2 DEF IsConcat
    <3>3. y[i - Len(x)] = a + Len(x) + (i - Len(x))
      BY <3>2 DEF Run
    <3>4. QED
      BY <1>2, <3>1, <3>2, <3>3
  <2>3. QED
    BY <2>1, <2>2
<1>4. QED
  BY <1>1, <1>2, <1>3 DEF Run, z

\* The texts of a line, and what they are put together.
Texts(L) == [i \in DOMAIN L |-> L[i].data]
Text(L) == FlattenSeq(Texts(L))

\* Position by position.
LEMMA TextsType ==
    ASSUME NEW L \in Seq(Segment)
    PROVE  Texts(L) \in Seq(Seq(Byte)) /\ Len(Texts(L)) = Len(L) /\ Text(L) \in Seq(Byte)
<1> DEFINE W == Seq(Byte)
<1>1. \A s \in Segment : s.data \in W
  BY SegmentNumbers
<1>2. Len(L) \in Nat /\ DOMAIN L = 1 .. Len(L) /\ \A i \in 1 .. Len(L) : L[i] \in Segment
  BY LenProperties, ElementOfSeq
<1> HIDE DEF W
<1>3. Texts(L) \in [1 .. Len(L) -> W]
  BY <1>1, <1>2 DEF Texts
<1>4. Texts(L) \in Seq(W)
  BY <1>2, <1>3, FunctionIsSeq
<1>5. Len(Texts(L)) = Len(L)
  BY <1>2, <1>3, <1>4, LenProperties
<1>6. Text(L) \in Seq(Byte)
  BY <1>4, FlattenType DEF Text, W
<1>7. QED
  BY <1>4, <1>5, <1>6 DEF W

\* The text of the first segment comes first.
LEMMA TextFront ==
    ASSUME NEW L \in Seq(Segment), L # <<>>
    PROVE  Text(L) = Head(L).data \o Text(Tail(L))
<1> DEFINE W == Seq(Byte)
           X == Texts(L)
           T == Tail(L)
           Y == Texts(T)
<1>1. X \in Seq(W) /\ Len(X) = Len(L) /\ T \in Seq(Segment) /\ Head(L) = L[1]
  BY TextsType, TailIs
<1>2. Y \in Seq(W) /\ Len(Y) = Len(T)
  BY <1>1, TextsType
<1>3. IsTail(L, T)
  BY TailIs
<1>4. X # <<>>
  <2>1. Len(L) # 0
    BY <1>3 DEF IsTail
  <2>2. Len(<<>>) = 0
    OBVIOUS
  <2>3. QED
    BY <1>1, <2>1, <2>2
<1>5. IsTail(X, Tail(X)) /\ Head(X) = X[1] /\ Tail(X) \in Seq(W)
  <2> HIDE DEF X, W
  <2>1. QED
    BY <1>1, <1>4, TailIs
<1>6. Head(X) = Head(L).data
  BY <1>1, <1>3, <1>5 DEF IsTail, Texts
<1>7. Tail(X) = Y
  <2>1. Len(Tail(X)) = Len(Y)
    BY <1>1, <1>2, <1>3, <1>5 DEF IsTail
  <2>2. ASSUME NEW i \in 1 .. Len(Y) PROVE Tail(X)[i] = Y[i]
    <3>1. i \in DOMAIN Tail(X) /\ i \in DOMAIN T /\ DOMAIN Y = DOMAIN T
      <4> HIDE DEF X, T, W, Y
      <4>1. DOMAIN Tail(X) = 1 .. Len(Tail(X)) /\ DOMAIN T = 1 .. Len(T)
        BY <1>1, <1>5, LenProperties
      <4>2. DOMAIN Y = DOMAIN T
        BY DEF Y, Texts
      <4>3. QED
        BY <1>2, <2>1, <2>2, <4>1, <4>2
    <3>2. Tail(X)[i] = X[i + 1]
      BY <1>5, <3>1 DEF IsTail
    <3>3. i + 1 \in DOMAIN L /\ T[i] = L[i + 1]
      BY <1>3, <3>1 DEF IsTail
    <3>4. X[i + 1] = L[i + 1].data /\ Y[i] = T[i].data
      BY <3>1, <3>3 DEF Texts
    <3>5. QED
      BY <3>2, <3>3, <3>4
  <2> HIDE DEF X, Y, T, W
  <2>3. QED
    BY <1>2, <1>5, <2>1, <2>2, SeqEqual
<1>8. FlattenSeq(X) = Head(X) \o FlattenSeq(Tail(X))
  <2> HIDE DEF X
  <2>1. QED
    BY <1>1, <1>4, FlattenFront
<1>9. QED
  BY <1>6, <1>7, <1>8 DEF Text

\* The text on line L is that of a stream which starts at o, from b up to e.
Fills(L, b, e, o) ==
    /\ b <= e /\ Chain(L, b, e) /\ Strict(L, b)
    /\ \A j \in DOMAIN L : /\ HasText(L[j]) => End(L[j]) <= e
                           /\ Run(L[j].data, L[j].seq_no - o)

\* The first segment leaves the line.
LEMMA FillsTail ==
    ASSUME NEW L \in Seq(Segment), L # <<>>, NEW b \in Nat, NEW e \in Nat, NEW o, Fills(L, b, e, o)
    PROVE  LET s == Head(L)
           IN  /\ ~HasText(s) => Fills(Tail(L), b, e, o)
               /\ HasText(s) => Fills(Tail(L), End(s), e, o) /\ s.seq_no = b /\ Run(s.data, b - o)
<1> DEFINE s == Head(L)
           T == Tail(L)
<1>1. IsTail(L, T) /\ s = L[1] /\ s \in Segment /\ T \in Seq(Segment)
  BY TailIs
<1>2. b <= e /\ Chain(L, b, e) /\ Strict(L, b)
  BY DEF Fills
<1>3. /\ \A j \in DOMAIN T : /\ HasText(T[j]) => End(T[j]) <= e
                             /\ Run(T[j].data, T[j].seq_no - o)
      /\ HasText(s) => End(s) <= e
      /\ Run(s.data, s.seq_no - o)
  BY <1>1 DEF Fills, IsTail
<1>4. ASSUME ~HasText(s) PROVE Fills(T, b, e, o)
  <2>1. Chain(T, b, e) /\ Strict(T, b)
    BY <1>2, <1>4, ChainTailOld, StrictTail
  <2>2. QED
    BY <1>2, <1>3, <2>1 DEF Fills
<1>5. ASSUME HasText(s) PROVE Fills(T, End(s), e, o) /\ s.seq_no = b /\ Run(s.data, b - o)
  <2>1. Strict(T, End(s)) /\ b <= s.seq_no
    BY <1>2, <1>5, StrictTail
  <2>2. s.seq_no = b /\ Chain(T, End(s), e)
    BY <1>2, <1>5, <2>1, ChainTailNew
  <2>3. Fills(T, End(s), e, o)
    BY <1>3, <1>5, <2>1, <2>2 DEF Fills
  <2>4. QED
    BY <1>3, <2>2, <2>3
<1>6. QED
  BY <1>4, <1>5

\* The text of such a line, by induction on the number of its segments.
LEMMA FillsText ==
    ASSUME NEW e \in Nat, NEW o \in Nat
    PROVE  \A L \in Seq(Segment) : \A b \in Nat :
                Fills(L, b, e, o) => Run(Text(L), b - o) /\ Len(Text(L)) = e - b
<1> DEFINE Q(L, b) == Fills(L, b, e, o) => Run(Text(L), b - o) /\ Len(Text(L)) = e - b
           P(m) == \A L \in Seq(Segment) : Len(L) = m => \A b \in Nat : Q(L, b)
           T == {m \in Nat : P(m)}
<1>1. P(0)
  <2> SUFFICES ASSUME NEW L \in Seq(Segment), Len(L) = 0, NEW b \in Nat, Fills(L, b, e, o)
               PROVE  Run(Text(L), b - o) /\ Len(Text(L)) = e - b
    OBVIOUS
  <2>1. L = <<>>
    BY EmptySeq
  <2>2. DOMAIN <<>> = {} /\ Len(<<>>) = 0
    BY NoSegment
  <2>3. Texts(L) = <<>>
    <3>1. Texts(L) \in Seq(Seq(Byte)) /\ Len(Texts(L)) = 0
      BY TextsType
    <3> DEFINE X == Texts(L)
               W == Seq(Byte)
    <3> HIDE DEF X, W
    <3>2. X \in Seq(W) /\ Len(X) = 0
      BY <3>1 DEF X, W
    <3>3. X = <<>>
      BY <3>2, EmptySeq
    <3>4. QED
      BY <3>3 DEF X
  <2>4. Text(L) = <<>>
    BY <2>3, FlattenEmpty DEF Text
  <2>5. b <= e /\ e <= b
    BY <2>1, <2>2 DEF Fills, Chain, Reaches
  <2>6. QED
    BY <2>2, <2>4, <2>5 DEF Run
<1>2. ASSUME NEW m \in Nat, P(m) PROVE P(m + 1)
  <2> SUFFICES ASSUME NEW L \in Seq(Segment), Len(L) = m + 1, NEW b \in Nat, Fills(L, b, e, o)
               PROVE  Run(Text(L), b - o) /\ Len(Text(L)) = e - b
    OBVIOUS
  <2> DEFINE s == Head(L)
             R == Tail(L)
             x == Text(R)
  <2>1. L # <<>>
    <3>1. Len(<<>>) = 0
      OBVIOUS
    <3>2. QED
      BY <3>1
  <2>2. R \in Seq(Segment) /\ s \in Segment /\ Len(R) = m
    BY <2>1, TailIs DEF IsTail
  <2>3. \A d \in Nat : Q(R, d)
    BY <1>2, <2>2
  <2>4. Text(L) = s.data \o x
    BY <2>1, TextFront
  <2>5. /\ ~HasText(s) => Fills(R, b, e, o)
        /\ HasText(s) => Fills(R, End(s), e, o) /\ s.seq_no = b /\ Run(s.data, b - o)
    BY <2>1, FillsTail
  <2>6. /\ s.data \in Seq(Byte) /\ Len(s.data) \in Nat /\ s.seq_no \in Nat /\ End(s) \in Nat
        /\ End(s) = s.seq_no + Len(s.data) /\ x \in Seq(Byte)
    <3>1. x \in Seq(Byte)
      BY <2>2, TextsType
    <3> HIDE DEF s, x
    <3>2. s.data \in Seq(Byte) /\ Len(s.data) \in Nat /\ s.seq_no \in Nat
      BY <2>2, SegmentNumbers
    <3>3. End(s) = s.seq_no + Len(s.data)
      BY DEF End
    <3>4. QED
      BY <3>1, <3>2, <3>3
  <2> HIDE DEF P, s, R
  <2>7. CASE ~HasText(s)
    <3>1. Run(x, b - o) /\ Len(x) = e - b
      BY <2>3, <2>5, <2>7
    <3>2. s.data = <<>>
      BY <2>7 DEF HasText
    <3>3. <<>> \o x = x
      BY <2>6, ConcatEmptySeq
    <3>4. QED
      BY <2>4, <3>1, <3>2, <3>3
  <2>8. CASE HasText(s)
    <3>1. Run(x, End(s) - o) /\ Len(x) = e - End(s)
      BY <2>3, <2>5, <2>6, <2>8
    <3>2. End(s) - o = (b - o) + Len(s.data)
      BY <2>5, <2>6, <2>8
    <3>3. Run(s.data, b - o)
      BY <2>5, <2>8
    <3> DEFINE d == s.data
               a == b - o
    <3>4. d \in Seq(Byte) /\ a \in Int /\ Run(d, a) /\ Run(x, a + Len(d))
      BY <2>6, <3>1, <3>2, <3>3
    <3> HIDE DEF d, a, x
    <3>5. Run(d \o x, a) /\ Len(d \o x) = Len(d) + Len(x)
      BY <2>6, <3>4, RunConcat
    <3>6. Len(d) + Len(x) = e - b
      <4>1. \A l, f \in Nat : f = b + l => l + (e - f) = e - b
        OBVIOUS
      <4>2. Len(d) \in Nat /\ End(s) \in Nat /\ End(s) = b + Len(d) /\ Len(x) = e - End(s)
        BY <2>5, <2>6, <2>8, <3>1 DEF d
      <4>3. Len(d) + (e - End(s)) = e - b
        BY <4>1, <4>2, Zenon
      <4>4. QED
        BY <4>2, <4>3, Zenon
    <3>7. Text(L) = d \o x
      BY <2>4 DEF d
    <3>8. QED
      BY <3>5, <3>6, <3>7 DEF a
  <2>9. QED
    BY <2>7, <2>8
<1> HIDE DEF P
<1>3. 0 \in T /\ \A m \in Nat : m \in T => m + 1 \in T
  BY <1>1, <1>2
<1> HIDE DEF T
<1>4. Nat \subseteq T
  BY <1>3, SetInduction, Zenon
<1>5. \A m \in Nat : P(m)
  BY <1>4 DEF T
<1>6. ASSUME NEW L \in Seq(Segment), NEW b \in Nat PROVE Q(L, b)
  BY <1>5, LenProperties DEF P
<1>7. QED
  BY <1>6

\* The bytes of the send queue that have not left yet.
LEMMA UnsentRun ==
    ASSUME NEW t \in TcbT, NEW w \in Nat, NEW ab, SideOf(t, w, ab), t.seq_nr_unack <= t.seq_nr_next,
           t.state # "Established" => t.snd_pq = <<>>
    PROVE  LET x == Drop(t.snd_pq, app_data_unacknowleged(t))
               o == Origin(t, w)
           IN  x \in Seq(Byte) /\ Run(x, t.seq_nr_next - o) /\ Len(x) = o + w - t.seq_nr_next
<1> DEFINE q == t.snd_pq
           n == Len(q)
           f == t.seq_nr_next - t.seq_nr_unack
           x == Drop(q, app_data_unacknowleged(t))
           o == Origin(t, w)
<1>1. /\ t.seq_nr_next \in Nat /\ t.seq_nr_unack \in Nat /\ q \in Seq(Byte) /\ n \in Nat
  BY TcbNumbers
<1>2. o \in Nat
  BY OriginType
<1>3. f \in Nat /\ app_data_unacknowleged(t) = IF n < f THEN n ELSE f
  BY LeftExact
<1>4. CASE t.state = "Established"
  <2>1. f <= n /\ o = t.seq_nr_unack + n - w
    BY <1>4 DEF SideOf, Sender, Held, Origin
  <2>2. \A i \in DOMAIN q : q[i] = t.seq_nr_unack - o + i
    BY <1>4 DEF SideOf, Sender
  <2>3. app_data_unacknowleged(t) = f
    BY <1>1, <1>3, <2>1
  <2> DEFINE y == SubSeq(q, f + 1, n)
  <2>4. x = y
    BY <2>3 DEF Drop
  <2>5. f \in Nat /\ n <= n
    BY <1>1, <1>3
  <2> HIDE DEF q, f, n
  <2>6. q \in Seq(Byte) /\ n \in Nat /\ n = Len(q)
    BY <1>1 DEF n
  <2>7. LET r == SubSeq(q, f + 1, n)
        IN  /\ r \in Seq(Byte) /\ Len(r) = n - f /\ DOMAIN r = 1 .. n - f
            /\ \A i \in 1 .. n - f : f + i \in DOMAIN q /\ r[i] = q[f + i]
    BY <2>1, <2>5, <2>6, Cut
  <2>8. y \in Seq(Byte) /\ Len(y) = n - f /\ DOMAIN y = 1 .. n - f
    BY <2>7
  <2>9. \A i \in 1 .. n - f : y[i] = t.seq_nr_unack - o + (f + i)
    BY <2>2, <2>7
  <2>10. Len(y) = o + w - t.seq_nr_next
    BY <1>1, <1>2, <2>1, <2>8 DEF f
  <2>11. Run(y, t.seq_nr_next - o)
    <3>1. \A i \in Nat : t.seq_nr_unack - o + (f + i) = t.seq_nr_next - o + i
      BY <1>1, <1>2 DEF f
    <3>2. \A i \in DOMAIN y : i \in Nat
      BY <1>3, <2>6, <2>8
    <3> HIDE DEF y
    <3>3. QED
      BY <2>8, <2>9, <3>1, <3>2 DEF Run
  <2>12. QED
    BY <2>4, <2>8, <2>10, <2>11 DEF q
<1>5. CASE t.state # "Established"
  <2>1. o = t.seq_nr_next /\ w = 0 /\ q = <<>> /\ n = 0
    BY <1>5, OriginType
  <2>2. app_data_unacknowleged(t) = 0
    BY <1>3, <2>1
  <2>3. Drop(<<>>, 0) = <<>>
    BY EmptySeq, DropNothing
  <2>4. x = <<>>
    BY <2>1, <2>2, <2>3
  <2>5. Len(x) = 0 /\ DOMAIN x = {} /\ x \in Seq(Byte)
    BY <2>4, NoSegment, EmptySeq
  <2>6. o + w - t.seq_nr_next = 0
    BY <1>1, <2>1
  <2> HIDE DEF x, o
  <2>7. Run(x, t.seq_nr_next - o) /\ Len(x) = o + w - t.seq_nr_next
    BY <2>5, <2>6 DEF Run
  <2>8. QED
    BY <2>5, <2>7 DEF x, o
<1>6. QED
  BY <1>4, <1>5

\* The bytes from 1 on, one after the other.
LEMMA RunIs ==
    ASSUME NEW x \in Seq(Byte), NEW w \in Nat, Len(x) = w, Run(x, 0)
    PROVE  x = [i \in 1 .. w |-> i]
<1>1. x \in [1 .. w -> Byte] /\ DOMAIN x = 1 .. w
  BY LenProperties
<1>2. \A i \in 1 .. w : x[i] = i
  BY <1>1 DEF Run
<1>3. QED
  BY <1>1, <1>2

\* What is on its way to a host that has not met the other one.
LEMMA NothingYet ==
    ASSUME Agreed, Streams, NEW n \in Node, ~Met(n)
    PROVE  Received(n) = <<>> /\ InFlight(n) = <<>> /\ Unsent(Peer(n)) = <<>> /\ written[Peer(n)] = 0
<1> DEFINE p == tcb[Peer(n)]
           L == Line(n)
<1>1. TypeOK /\ Numeric /\ Handshake /\ Peer(n) \in Node /\ Peer(Peer(n)) = n
  BY Peers DEF Agreed
<1>2. p.state # "Established"
  BY <1>1, BothMet DEF Synchronised
<1>3. p \in TcbT /\ L \in Seq(Segment)
  BY <1>1, LineType DEF TypeOK
<1>4. Received(n) = <<>>
  BY ReceivedIs
<1>5. written[Peer(n)] = 0
  BY <1>1, <1>2 DEF Streams, SideOf, Sender
<1>6. InFlight(n) = <<>>
  <2>1. Carries(p, Base(Peer(n)), L)
    BY DEF Streams, Flow, FlowOf
  <2>2. \A j \in DOMAIN L : ~HasText(L[j]) /\ L[j].data = <<>>
    BY <1>2, <2>1 DEF Carries, Belongs, HasText
  <2> HIDE DEF L
  <2>3. Fills(L, 0, 0, 0)
    <3>1. Chain(L, 0, 0) /\ Strict(L, 0)
      BY <2>2, NoText
    <3>2. QED
      BY <2>2, <3>1, NoSegment DEF Fills, Run
  <2>4. Text(L) = <<>>
    <3>1. Text(L) \in Seq(Byte) /\ Len(Text(L)) = 0 - 0
      BY <1>3, <2>3, FillsText, TextsType
    <3>2. QED
      BY <3>1, EmptySeq
  <2>5. QED
    BY <2>4 DEF InFlight, Text, Texts, L
<1>7. Unsent(Peer(n)) = <<>>
  <2>1. p.snd_pq = <<>>
    BY <1>1, <1>2 DEF Numeric, Fits
  <2>2. \A k : Drop(<<>>, k) = <<>>
    BY DEF Drop
  <2>3. QED
    BY <2>1, <2>2 DEF Unsent
<1>8. QED
  BY <1>4, <1>5, <1>6, <1>7

\* The three parts of a stream to a host that has met the other one.
LEMMA InPlace ==
    ASSUME Agreed, Streams, faults["duplicate"] = 0, MaxReads <= 1, NEW n \in Node, Met(n)
    PROVE  Received(n) \o InFlight(n) \o Unsent(Peer(n)) = [i \in 1 .. written[Peer(n)] |-> i]
<1> DEFINE t == tcb[n]
           p == tcb[Peer(n)]
           b == Base(Peer(n))
           w == written[Peer(n)]
           L == Line(n)
           g == EdgeOf(t)
           e == p.seq_nr_next
           x == Received(n)
           y == InFlight(n)
           z == Unsent(Peer(n))
<1>1. TypeOK /\ Numeric /\ Peer(n) \in Node /\ Peer(Peer(n)) = n
  BY Peers DEF Agreed
<1>2. t \in TcbT /\ p \in TcbT /\ w \in Nat /\ L \in Seq(Segment)
  BY <1>1, LineType DEF TypeOK
<1>3. SideOf(p, w, abort[Peer(n)]) /\ SideOf(t, written[n], abort[n])
  BY <1>1 DEF Streams
<1>4. b = Origin(p, w) /\ b \in Nat /\ e \in Nat /\ g \in Nat
  <2>1. b = Origin(p, w)
    BY DEF Base
  <2>2. Origin(p, w) \in Nat
    BY <1>2, <1>3, OriginType
  <2>3. /\ p.seq_nr_next \in Nat
        /\ t.rcv_next \in Nat /\ Len(t.rcv_pq) \in Nat
    BY <1>2, TcbNumbers
  <2>4. g \in Nat
    BY <2>3 DEF EdgeOf
  <2>5. QED
    BY <2>1, <2>2, <2>3, <2>4
<1>5. x \in Seq(Byte) /\ Len(x) \in Nat /\ Run(x, 0) /\ g = b + Len(x)
  <2>1. \A i \in DOMAIN x : i \in Nat
    <3>1. x \in Seq(Byte)
      BY ReceivedIs
    <3> HIDE DEF x
    <3>2. DOMAIN x = 1 .. Len(x) /\ Len(x) \in Nat
      BY <3>1, LenProperties
    <3>3. QED
      BY <3>2
  <2>2. QED
    BY <2>1, ReceivedIs DEF Run
<1>6. g <= e
  BY <1>1 DEF Numeric, Fits, Agrees, EdgeOf, Met
<1>7. y \in Seq(Byte) /\ Run(y, g - b) /\ Len(y) = e - g
  <2>1. /\ Carries(p, b, L) /\ InOrder(p, t, L, abort[n], TRUE)
    BY DEF Streams, Flow, FlowOf
  <2>2. Chain(L, g, e) /\ Strict(L, g)
    BY <1>3, <2>1 DEF InOrder, SideOf, Met, MetIn
  <2>3. \A j \in DOMAIN L : End(L[j]) <= e
    <3>1. \A j \in DOMAIN L : L[j] \in Coming(n)
      BY <1>1, LineComing
    <3>2. \A s \in Coming(n) : SentBy(p, s)
      BY <1>1 DEF Numeric
    <3>3. QED
      BY <3>1, <3>2 DEF SentBy, End
  <2>4. \A j \in DOMAIN L : Run(L[j].data, L[j].seq_no - b)
    BY <2>1 DEF Carries, Belongs, Run
  <2> HIDE DEF L, g, e, b
  <2>5. Fills(L, g, e, b)
    BY <1>6, <2>2, <2>3, <2>4 DEF Fills
  <2>6. Run(Text(L), g - b) /\ Len(Text(L)) = e - g /\ Text(L) \in Seq(Byte)
    BY <1>2, <1>4, <2>5, FillsText, TextsType
  <2>7. y = Text(L)
    BY DEF InFlight, Text, Texts, L
  <2>8. QED
    BY <2>6, <2>7
<1>8. z \in Seq(Byte) /\ Run(z, e - b) /\ Len(z) = b + w - e
  <2>1. p.state \notin {"Closed", "Listen"}
    BY OtherBegun
  <2>2. /\ p.seq_nr_unack <= p.seq_nr_next
        /\ p.state # "Established" => p.snd_pq = <<>>
    BY <1>1, <2>1 DEF Numeric, Fits, SendSide
  <2>3. QED
    BY <1>2, <1>3, <1>4, <2>2, UnsentRun DEF Unsent
<1> HIDE DEF t, p, b, w, L, g, e, x, y, z
<1>9. g - b = 0 + Len(x) /\ e - b = 0 + (Len(x) + Len(y)) /\ Len(x) + Len(y) + Len(z) = w
      /\ Len(y) \in Int /\ Len(z) \in Int
  <2> DEFINE k == Len(x)
             l == Len(y)
             m == Len(z)
  <2>1. k \in Nat /\ l \in Nat /\ m \in Nat
    BY <1>5, <1>7, <1>8, LenProperties
  <2>2. b \in Nat /\ e \in Nat /\ g \in Nat /\ w \in Nat
    BY <1>2, <1>4
  <2>3. g = b + k /\ l = e - g /\ m = b + w - e
    BY <1>5, <1>7, <1>8
  <2> HIDE DEF k, l, m
  <2>4. g - b = 0 + k /\ e - b = 0 + (k + l) /\ k + l + m = w /\ l \in Int /\ m \in Int
    BY <2>1, <2>2, <2>3
  <2>5. QED
    BY <2>4 DEF k, l, m
<1>10. x \o y \in Seq(Byte) /\ Len(x \o y) = Len(x) + Len(y) /\ Run(x \o y, 0)
  BY <1>5, <1>7, <1>9, RunConcat
<1> DEFINE v == x \o y
<1>11. v \in Seq(Byte) /\ Run(v, 0) /\ Run(z, 0 + Len(v)) /\ Len(v) + Len(z) = w
  BY <1>8, <1>9, <1>10
<1> HIDE DEF v
<1>12. v \o z \in Seq(Byte) /\ Len(v \o z) = Len(v) + Len(z) /\ Run(v \o z, 0)
  BY <1>8, <1>11, RunConcat, SMTT(30)
<1> DEFINE q == v \o z
<1>13. q \in Seq(Byte) /\ Len(q) = w /\ Run(q, 0)
  BY <1>11, <1>12
<1> HIDE DEF q
<1>14. q = [i \in 1 .. w |-> i]
  BY <1>2, <1>13, RunIs
<1>15. QED
  BY <1>14 DEF q, v, x, y, z, w

\* A network without faults never has one.
LEMMA NoFaultStep ==
    ASSUME Faults = {}, Next
    PROVE  faults' = faults
<1>1. \A kind : ~Fault(kind)
  BY DEF Fault
<1>2. CASE async_connect
  BY <1>2 DEF async_connect
<1>3. ASSUME NEW n \in Node,
             RxReady(n) \/ RunHandler(n) \/ AppCall(n, "read") \/ AppCall(n, "write")
      PROVE  faults' = faults
  BY <1>3 DEF RxReady, RunHandler, RunRx, RunEstablished, RunRead, RunWrite, RunSendAppData, AppCall
<1>4. \A n \in Node : ~Lose(n) /\ ~Duplicate(n) /\ ~Swap(n)
  BY <1>1 DEF Lose, Duplicate, Swap
<1>5. QED
  BY <1>2, <1>3, <1>4 DEF Next

\* Over a network without faults, and with an application that never leaves two
\* reads waiting, every byte that was written is at each moment in exactly one
\* place, in the order in which it was written: read, received, on its way or
\* in the send queue behind what is in flight.  With two reads waiting the assert
\* of process() that the receive queue is empty ends a host that has already
\* taken text from its line.
THEOREM ConnectionStreamIntact ==
    ASSUME NoWrap, EdgeNotZero, Faults = {}, MaxReads <= 1
    PROVE  Spec => []StreamIntact
<1> DEFINE Clean == \A k \in FaultKinds : faults[k] = 0
<1>1. Init => Clean
  BY DEF Init
<1>2. Clean /\ [Next]_vars => Clean'
  BY NoFaultStep DEF vars
<1>3. Agreed /\ StreamInv /\ Clean => StreamIntact
  <2> SUFFICES ASSUME Agreed, StreamInv, Clean, NEW n \in Node
               PROVE  Received(n) \o InFlight(n) \o Unsent(Peer(n))
                            = [i \in 1 .. written[Peer(n)] |-> i]
    BY DEF StreamIntact
  <2>1. faults["lose"] = 0 /\ faults["swap"] = 0 /\ faults["duplicate"] = 0
    BY DEF FaultKinds
  <2>2. Streams
    BY <2>1 DEF StreamInv
  <2>3. CASE Met(n)
    BY <2>1, <2>2, <2>3, InPlace
  <2>4. CASE ~Met(n)
    <3>1. /\ Received(n) = <<>> /\ InFlight(n) = <<>> /\ Unsent(Peer(n)) = <<>>
          /\ written[Peer(n)] = 0
      BY <2>2, <2>4, NothingYet
    <3>2. <<>> \o <<>> \o <<>> = <<>> /\ <<>> = [i \in 1 .. 0 |-> i]
      OBVIOUS
    <3>3. QED
      BY <3>1, <3>2
  <2>5. QED
    BY <2>3, <2>4
<1>4. Spec => [](Agreed /\ StreamInv)
  BY StreamAlways
<1>5. QED
  BY <1>1, <1>2, <1>3, <1>4, PTL DEF Spec

=============================================================================
