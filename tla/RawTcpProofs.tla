---------------------------- MODULE RawTcpProofs ----------------------------
(***************************************************************************)
(* What holds of tcp, its raw sockets and its interceptors for every set   *)
(* of two ends and interceptors, every matcher and every number of calls.  *)
(*                                                                         *)
(* A handler of tcp makes several calls that change the same state one     *)
(* after the other, so the invariant is stated of a state that is given by *)
(* its parts: rw the raw_states, io the posted handlers, ss the sessions,  *)
(* d the completed reads, n the number of arrivals.                        *)
(***************************************************************************)
EXTENDS RawTcp, QueueLemmas

-----------------------------------------------------------------------------
(* The inductive invariant of captured packets and reads *)

PacketOf(n) == [id: 1 .. n, intact: BOOLEAN]
ReadOf(ss) == [sid: DOMAIN ss, nr: Nat \ {0}]
SessionOf(n) == [ends: Ends, captured: Seq(PacketOf(n)), reads: Nat]
RawOf(ss, n) == [sid: DOMAIN ss, pq: Seq(PacketOf(n)), on_data_receive: Seq(ReadOf(ss))]
CompletionOf(ss, n) == [read: ReadOf(ss), pkt: PacketOf(n)]
HandlerOf(ss, n) ==
    [run: {"read"}, read: ReadOf(ss), pkt: PacketOf(n)] \cup [run: {"enqueue"}]
        \cup [run: {"written"}, pkt: Nat]

PartsTyped(rw, io, ss, d, n) ==
    /\ ss \in Seq(SessionOf(n))
    /\ DOMAIN rw \subseteq Ends
    /\ \A e \in DOMAIN rw : rw[e] \in RawOf(ss, n)
    /\ io \in Seq(HandlerOf(ss, n))
    /\ d \in Seq(CompletionOf(ss, n))

\* How many reads of a session have their packet.
Pairs(x) == IF x.reads < Len(x.captured) THEN x.reads ELSE Len(x.captured)

\* A raw_state st of the two ends e and its session x: its queue holds the
\* packets beyond the pairs, its on_data_receive the reads beyond the pairs.
RawIs(e, st, x) ==
    /\ x.ends = e
    /\ Len(st.pq) = Len(x.captured) - Pairs(x)
    /\ \A i \in DOMAIN st.pq : st.pq[i] = x.captured[Pairs(x) + i]
    /\ Len(st.on_data_receive) = x.reads - Pairs(x)
    /\ \A i \in DOMAIN st.on_data_receive :
            st.on_data_receive[i] = [sid |-> st.sid, nr |-> Pairs(x) + i]

RawKnown(rw, ss) == \A e \in DOMAIN rw : RawIs(e, rw[e], ss[rw[e].sid])

\* The read is one of the pairs, and pkt is its packet.
Fits(read, pkt, x) == read.nr <= Pairs(x) /\ pkt = x.captured[read.nr]

ReadsAt(io) == {i \in DOMAIN io : io[i].run = "read"}

\* The completion of the read is posted or has run.
Given(read, io, d) ==
    \/ \E i \in ReadsAt(io) : io[i].read = read
    \/ \E i \in DOMAIN d : d[i].read = read

\* What is posted or completed fits, and every pair is posted or completed.
GivenFits(io, ss, d) ==
    /\ \A i \in ReadsAt(io) : Fits(io[i].read, io[i].pkt, ss[io[i].read.sid])
    /\ \A i \in DOMAIN d : Fits(d[i].read, d[i].pkt, ss[d[i].read.sid])
    /\ \A s \in DOMAIN ss : \A m \in 1 .. Pairs(ss[s]) : Given([sid |-> s, nr |-> m], io, d)

\* No read is completed twice, posted twice or both, and the posted reads of a
\* session are posted in their order.
GivenOnce(io, d) ==
    /\ \A i, j \in DOMAIN d : d[i].read = d[j].read => i = j
    /\ \A i, j \in ReadsAt(io) : i < j /\ io[i].read.sid = io[j].read.sid => io[i].read.nr < io[j].read.nr
    /\ \A i \in DOMAIN d, j \in ReadsAt(io) : d[i].read # io[j].read

Core(rw, io, ss, d, n) ==
    /\ PartsTyped(rw, io, ss, d, n)
    /\ RawKnown(rw, ss)
    /\ GivenFits(io, ss, d)
    /\ GivenOnce(io, d)

-----------------------------------------------------------------------------
(* The inductive invariant of the places of packets *)

\* The packet with a number, and what remains of it when it has been moved away.
Whole(id) == [id |-> id, intact |-> TRUE]
Remains(id) == [id |-> id, intact |-> FALSE]

\* p has been captured as the i-th packet of session s, or dispatched as the k-th.
IsCaptured(ss, p, s, i) == s \in DOMAIN ss /\ i \in DOMAIN ss[s].captured /\ ss[s].captured[i] = p
IsSent(u, p, k) == k \in DOMAIN u /\ u[k].pkt = p

\* The i-th packet of session s has no read, and the session is detached.
IsDropped(rw, ss, s, i) == ss[s].reads < i /\ \A e \in DOMAIN rw : rw[e].sid # s

\* A packet that arrived was dispatched once as a whole, captured once, or lost:
\* lost with a callback that threw, so that it is nowhere, or dropped.
OncePlaced(rw, ss, u, l, id) ==
    /\ \A k, j : IsSent(u, Whole(id), k) /\ IsSent(u, Whole(id), j) => k = j
    /\ \A s, t, i, j : IsCaptured(ss, Whole(id), s, i) /\ IsCaptured(ss, Whole(id), t, j) => s = t /\ i = j
    /\ \A k, s, i : ~(IsSent(u, Whole(id), k) /\ IsCaptured(ss, Whole(id), s, i))
    /\ id \in l <=> \/ (\A k : ~IsSent(u, Whole(id), k)) /\ (\A s, i : ~IsCaptured(ss, Whole(id), s, i))
                    \/ \E s, i : IsCaptured(ss, Whole(id), s, i) /\ IsDropped(rw, ss, s, i)

\* It has not been dispatched, and if it has been captured it has its read.
MovedAway(ss, u, id) ==
    /\ \A k : ~IsSent(u, Whole(id), k)
    /\ \A s, i : IsCaptured(ss, Whole(id), s, i) => i <= ss[s].reads

HasRemains(ss, u, id) ==
    (\E k : IsSent(u, Remains(id), k)) \/ (\E s, i : IsCaptured(ss, Remains(id), s, i))

Known(rw, ss, u, l, id) ==
    OncePlaced(rw, ss, u, l, id) /\ (HasRemains(ss, u, id) => MovedAway(ss, u, id))

\* No packet has this number.
Unknown(ss, u, l, id) ==
    /\ id \notin l /\ ~HasRemains(ss, u, id)
    /\ \A k : ~IsSent(u, Whole(id), k)
    /\ \A s, i : ~IsCaptured(ss, Whole(id), s, i)

Placed(rw, ss, u, l, n) ==
    \A id : IF id \in 1 .. n THEN Known(rw, ss, u, l, id) ELSE Unknown(ss, u, l, id)

-----------------------------------------------------------------------------
(* The inductive invariant of the packets that leave *)

EnqueueAt(io) == {i \in DOMAIN io : io[i].run = "enqueue"}
EnqueueBefore(io, k) == {i \in EnqueueAt(io) : i < k}

\* The handlers of enqueue are as many as the packets that wait, and a write is
\* completed behind the handler of its packet.
LeaveKnown(io, qq, dn, wr) ==
    /\ \A i \in DOMAIN dn : dn[i] = i
    /\ \A i \in DOMAIN qq : qq[i] = Len(dn) + i
    /\ Cardinality(EnqueueAt(io)) = Len(qq)
    /\ \A k \in DOMAIN io : io[k].run = "written" =>
            io[k].pkt \in 1 .. Len(dn) + Cardinality(EnqueueBefore(io, k))
    /\ \A i \in DOMAIN wr : wr[i] \in 1 .. Len(dn)

\* What remains of the type invariant.
Others ==
    /\ rules \in Seq(Interceptor)
    /\ cbs \in [Interceptor -> Nat]
    /\ arrived \in Nat
    /\ up \in Seq([ends: Ends, pkt: PacketOf(arrived)])
    /\ q \in Seq(Nat) /\ down \in Seq(Nat) /\ written \in Seq(Nat)
    /\ events <= MaxEvents

\* The parts of the invariant on which the raw_states bear.
Captures(rw, io, ss, d, n, u, l) ==
    Core(rw, io, ss, d, n) /\ Placed(rw, ss, u, l, n)

Inv ==
    /\ Others
    /\ Captures(raw, ioq, session, done, arrived, up, lost)
    /\ LeaveKnown(ioq, q, down, written)

-----------------------------------------------------------------------------
(* What the calls do to the parts *)

\* The raw_states of different two ends have different sessions.
LEMMA OwnSession ==
    ASSUME NEW rw, NEW ss, RawKnown(rw, ss),
           NEW e \in DOMAIN rw, NEW f \in DOMAIN rw, rw[e].sid = rw[f].sid
    PROVE  e = f
BY DEF RawKnown, RawIs

\* What a session is made of.
LEMMA SessionParts ==
    ASSUME NEW n \in Nat, NEW x \in SessionOf(n)
    PROVE  /\ x.captured \in Seq(PacketOf(n)) /\ Len(x.captured) \in Nat /\ x.reads \in Nat
           /\ DOMAIN x.captured = 1 .. Len(x.captured)
           /\ Pairs(x) \in Nat /\ Pairs(x) <= x.reads /\ Pairs(x) <= Len(x.captured)
           /\ Pairs(x) = x.reads \/ Pairs(x) = Len(x.captured)
BY LenProperties DEF SessionOf, Pairs

\* The raw_state of e and its session s are replaced by st and x, with at least
\* the pairs that there were.
Changed(rw, ss, n, e, st, x, rw2, ss2) ==
    /\ e \in DOMAIN rw
    /\ st \in RawOf(ss, n) /\ st.sid = rw[e].sid
    /\ x \in SessionOf(n)
    /\ RawIs(e, st, x)
    /\ Pairs(ss[st.sid]) <= Pairs(x)
    /\ \A i \in 1 .. Pairs(ss[st.sid]) : x.captured[i] = ss[st.sid].captured[i]
    /\ rw2 = [rw EXCEPT ![e] = st]
    /\ ss2 = [ss EXCEPT ![st.sid] = x]

\* What such a change keeps.
LEMMA ChangeKeeps ==
    ASSUME NEW rw, NEW io, NEW ss, NEW d, NEW n \in Nat, Core(rw, io, ss, d, n),
           NEW e, NEW st, NEW x, NEW rw2, NEW ss2, Changed(rw, ss, n, e, st, x, rw2, ss2)
    PROVE  /\ PartsTyped(rw2, io, ss2, d, n) /\ RawKnown(rw2, ss2)
           /\ DOMAIN ss2 = DOMAIN ss /\ st.sid \in DOMAIN ss /\ ss2[st.sid] = x
           /\ \A t \in DOMAIN ss : t # st.sid => ss2[t] = ss[t]
           /\ \A read \in ReadOf(ss) : \A pkt : Fits(read, pkt, ss[read.sid]) => Fits(read, pkt, ss2[read.sid])
<1>1. /\ ss \in Seq(SessionOf(n)) /\ DOMAIN rw \subseteq Ends /\ io \in Seq(HandlerOf(ss, n))
      /\ d \in Seq(CompletionOf(ss, n))
      /\ \A f \in DOMAIN rw : rw[f] \in RawOf(ss, n)
      /\ RawKnown(rw, ss)
  BY DEF Core, PartsTyped
<1> DEFINE s == st.sid
<1>2. /\ e \in DOMAIN rw /\ s = rw[e].sid /\ s \in DOMAIN ss /\ st \in RawOf(ss, n)
      /\ x \in SessionOf(n) /\ RawIs(e, st, x)
  BY DEF Changed, RawOf
<1>3. /\ DOMAIN ss2 = DOMAIN ss /\ ss2[s] = x /\ \A t \in DOMAIN ss : t # s => ss2[t] = ss[t]
      /\ DOMAIN rw2 = DOMAIN rw /\ rw2[e] = st /\ \A f \in DOMAIN rw : f # e => rw2[f] = rw[f]
  BY <1>2 DEF Changed
<1>4. ss2 \in Seq(SessionOf(n))
  <2>1. s \in 1 .. Len(ss)
    BY <1>1, <1>2, LenProperties
  <2>2. ss2 = [ss EXCEPT ![s] = x]
    BY DEF Changed
  <2>3. QED
    BY <1>1, <1>2, <2>1, <2>2, ExceptSeq
<1>5. /\ HandlerOf(ss2, n) = HandlerOf(ss, n) /\ RawOf(ss2, n) = RawOf(ss, n)
      /\ CompletionOf(ss2, n) = CompletionOf(ss, n)
  BY <1>3 DEF ReadOf, HandlerOf, RawOf, CompletionOf
<1>6. PartsTyped(rw2, io, ss2, d, n)
  BY <1>1, <1>2, <1>3, <1>4, <1>5 DEF PartsTyped
<1>7. RawKnown(rw2, ss2)
  <2>1. \A f \in DOMAIN rw : f # e => rw[f].sid # s /\ rw[f].sid \in DOMAIN ss
    BY <1>1, <1>2, OwnSession DEF RawOf
  <2>2. \A f \in DOMAIN rw : RawIs(f, rw[f], ss[rw[f].sid])
    BY <1>1 DEF RawKnown
  <2>3. \A f \in DOMAIN rw2 : RawIs(f, rw2[f], ss2[rw2[f].sid])
    BY <1>2, <1>3, <2>1, <2>2
  <2>4. QED
    BY <2>3 DEF RawKnown
<1>8. ASSUME NEW read \in ReadOf(ss), NEW pkt, Fits(read, pkt, ss[read.sid])
      PROVE  Fits(read, pkt, ss2[read.sid])
  <2>1. read.sid \in DOMAIN ss /\ read.nr \in Nat \ {0}
    BY DEF ReadOf
  <2>2. CASE read.sid # s
    BY <1>3, <1>8, <2>1, <2>2
  <2>3. CASE read.sid = s
    <3>1. ss[s] \in SessionOf(n)
      BY <1>1, <1>2
    <3>2. Pairs(ss[s]) \in Nat /\ Pairs(x) \in Nat
      BY <1>2, <3>1, SessionParts
    <3>3. Pairs(ss[s]) <= Pairs(x) /\ \A i \in 1 .. Pairs(ss[s]) : x.captured[i] = ss[s].captured[i]
      BY DEF Changed
    <3>4. read.nr <= Pairs(ss[s]) /\ pkt = ss[s].captured[read.nr]
      BY <1>8, <2>3 DEF Fits
    <3>5. read.nr <= Pairs(x) /\ pkt = x.captured[read.nr]
      BY <2>1, <3>2, <3>3, <3>4
    <3>6. QED
      BY <1>3, <2>3, <3>5 DEF Fits
  <2>4. QED
    BY <2>2, <2>3
<1>9. QED
  BY <1>2, <1>3, <1>6, <1>7, <1>8

\* What is known of the posted and the completed reads.
LEMMA GivenTyped ==
    ASSUME NEW rw, NEW io, NEW ss, NEW d, NEW n \in Nat, PartsTyped(rw, io, ss, d, n)
    PROVE  /\ \A i \in ReadsAt(io) : io[i].read \in ReadOf(ss)
           /\ \A i \in DOMAIN d : d[i].read \in ReadOf(ss)
<1>1. \A i \in DOMAIN io : io[i] \in HandlerOf(ss, n)
  BY DEF PartsTyped
<1>2. \A i \in DOMAIN d : d[i] \in CompletionOf(ss, n)
  BY DEF PartsTyped
<1>3. QED
  BY <1>1, <1>2 DEF ReadsAt, HandlerOf, CompletionOf

\* No new pair.
LEMMA KeepCore ==
    ASSUME NEW rw, NEW io, NEW ss, NEW d, NEW n \in Nat, Core(rw, io, ss, d, n),
           NEW e, NEW st, NEW x, NEW rw2, NEW ss2, Changed(rw, ss, n, e, st, x, rw2, ss2),
           Pairs(x) = Pairs(ss[st.sid])
    PROVE  Core(rw2, io, ss2, d, n)
<1>1. /\ PartsTyped(rw2, io, ss2, d, n) /\ RawKnown(rw2, ss2)
      /\ DOMAIN ss2 = DOMAIN ss /\ st.sid \in DOMAIN ss /\ ss2[st.sid] = x
      /\ \A t \in DOMAIN ss : t # st.sid => ss2[t] = ss[t]
      /\ \A read \in ReadOf(ss) : \A pkt : Fits(read, pkt, ss[read.sid]) => Fits(read, pkt, ss2[read.sid])
  BY ChangeKeeps
<1>2. /\ \A i \in ReadsAt(io) : io[i].read \in ReadOf(ss)
      /\ \A i \in DOMAIN d : d[i].read \in ReadOf(ss)
  BY GivenTyped DEF Core
<1>3. GivenFits(io, ss, d) /\ GivenOnce(io, d)
  BY DEF Core
<1>4. \A t \in DOMAIN ss : Pairs(ss2[t]) = Pairs(ss[t])
  BY <1>1
<1>5. GivenFits(io, ss2, d)
  BY <1>1, <1>2, <1>3, <1>4 DEF GivenFits
<1>6. QED
  BY <1>1, <1>3, <1>5 DEF Core

\* One new pair, the completion of which is posted.
LEMMA PostCore ==
    ASSUME NEW rw, NEW io, NEW ss, NEW d, NEW n \in Nat, Core(rw, io, ss, d, n),
           NEW e, NEW st, NEW x, NEW rw2, NEW ss2, Changed(rw, ss, n, e, st, x, rw2, ss2),
           Pairs(x) = Pairs(ss[st.sid]) + 1,
           NEW read, read = [sid |-> st.sid, nr |-> Pairs(x)],
           NEW h \in HandlerOf(ss, n), h.run = "read", h.read = read, h.pkt = x.captured[Pairs(x)]
    PROVE  Core(rw2, Append(io, h), ss2, d, n)
<1> DEFINE io2 == Append(io, h)
<1>1. /\ PartsTyped(rw2, io, ss2, d, n) /\ RawKnown(rw2, ss2)
      /\ DOMAIN ss2 = DOMAIN ss /\ st.sid \in DOMAIN ss /\ ss2[st.sid] = x
      /\ \A t \in DOMAIN ss : t # st.sid => ss2[t] = ss[t]
      /\ \A rd \in ReadOf(ss) : \A pkt : Fits(rd, pkt, ss[rd.sid]) => Fits(rd, pkt, ss2[rd.sid])
  BY ChangeKeeps
<1>2. /\ \A i \in ReadsAt(io) : io[i].read \in ReadOf(ss)
      /\ \A i \in DOMAIN d : d[i].read \in ReadOf(ss)
  BY GivenTyped DEF Core
<1>3. GivenFits(io, ss, d) /\ GivenOnce(io, d)
  BY DEF Core
<1>4. Pairs(ss[st.sid]) \in Nat /\ \A t \in DOMAIN ss : Pairs(ss[t]) \in Nat
  <2>1. \A t \in DOMAIN ss : ss[t] \in SessionOf(n)
    BY DEF Core, PartsTyped
  <2>2. QED
    BY <1>1, <2>1, SessionParts
<1>5. HandlerOf(ss2, n) = HandlerOf(ss, n)
  BY <1>1 DEF HandlerOf, ReadOf
<1>6. /\ io2 \in Seq(HandlerOf(ss, n)) /\ Len(io) \in Nat
      /\ io2[Len(io) + 1] = h /\ ReadsAt(io2) = ReadsAt(io) \cup {Len(io) + 1}
      /\ \A i \in ReadsAt(io) : i \in Nat /\ i <= Len(io) /\ io2[i] = io[i]
  <2>1. io \in Seq(HandlerOf(ss, n))
    BY DEF Core, PartsTyped
  <2>2. /\ io2 \in Seq(HandlerOf(ss, n)) /\ Len(io) \in Nat /\ DOMAIN io = 1 .. Len(io)
        /\ DOMAIN io2 = 1 .. Len(io) + 1 /\ io2[Len(io) + 1] = h
        /\ \A i \in DOMAIN io : io2[i] = io[i]
    BY <2>1, AppendProperties, LenProperties
  <2> HIDE DEF io2
  <2>3. DOMAIN io2 = DOMAIN io \cup {Len(io) + 1} /\ Len(io) + 1 \notin DOMAIN io
    BY <2>2
  <2>4. ReadsAt(io2) = ReadsAt(io) \cup {Len(io) + 1}
    BY <2>2, <2>3 DEF ReadsAt
  <2>5. \A i \in ReadsAt(io) : i \in Nat /\ i <= Len(io) /\ io2[i] = io[i]
    BY <2>2 DEF ReadsAt
  <2>6. QED
    BY <2>2, <2>4, <2>5
<1> HIDE DEF io2
<1>7. PartsTyped(rw2, io2, ss2, d, n)
  BY <1>1, <1>5, <1>6 DEF PartsTyped
<1>8. read.sid = st.sid /\ read.nr = Pairs(x)
  OBVIOUS
<1>9. GivenFits(io2, ss2, d)
  <2>1. Fits(h.read, h.pkt, ss2[h.read.sid])
    BY <1>1, <1>4, <1>8 DEF Fits
  <2>2. \A i \in ReadsAt(io2) : Fits(io2[i].read, io2[i].pkt, ss2[io2[i].read.sid])
    BY <1>1, <1>2, <1>3, <1>6, <2>1 DEF GivenFits
  <2>3. \A i \in DOMAIN d : Fits(d[i].read, d[i].pkt, ss2[d[i].read.sid])
    BY <1>1, <1>2, <1>3 DEF GivenFits
  <2>4. ASSUME NEW t \in DOMAIN ss, NEW m \in 1 .. Pairs(ss2[t])
        PROVE  Given([sid |-> t, nr |-> m], io2, d)
    <3>1. CASE m \in 1 .. Pairs(ss[t])
      <4>1. Given([sid |-> t, nr |-> m], io, d)
        BY <1>3, <3>1 DEF GivenFits
      <4>2. QED
        BY <1>6, <4>1 DEF Given
    <3>2. CASE m \notin 1 .. Pairs(ss[t])
      <4>1. t = st.sid /\ m = Pairs(x)
        BY <1>1, <1>4, <3>2
      <4>2. QED
        BY <1>6, <4>1 DEF Given
    <3>3. QED
      BY <3>1, <3>2
  <2>5. QED
    BY <1>1, <2>2, <2>3, <2>4 DEF GivenFits
<1>10. GivenOnce(io2, d)
  <2>1. \A i \in ReadsAt(io) : io[i].read.sid = st.sid => io[i].read.nr <= Pairs(ss[st.sid])
    BY <1>3 DEF GivenFits, Fits
  <2>2. \A i \in DOMAIN d : d[i].read.sid = st.sid => d[i].read.nr <= Pairs(ss[st.sid])
    BY <1>3 DEF GivenFits, Fits
  <2>3. \A i \in DOMAIN d : d[i].read # read
    BY <1>4, <1>8, <2>2
  <2>4. \A i \in ReadsAt(io) : io[i].read.sid = st.sid => io[i].read.nr < read.nr
    BY <1>2, <1>4, <1>8, <2>1 DEF ReadOf
  <2>5. ASSUME NEW i \in ReadsAt(io2), NEW j \in ReadsAt(io2), i < j, io2[i].read.sid = io2[j].read.sid
        PROVE  io2[i].read.nr < io2[j].read.nr
    <3>1. i \in ReadsAt(io) /\ io2[i] = io[i]
      BY <1>6, <2>5
    <3>2. CASE j \in ReadsAt(io)
      BY <1>3, <1>6, <2>5, <3>1, <3>2 DEF GivenOnce
    <3>3. CASE j = Len(io) + 1
      BY <1>6, <1>8, <2>4, <2>5, <3>1, <3>3
    <3>4. QED
      BY <1>6, <3>2, <3>3
  <2>6. \A i \in DOMAIN d, j \in ReadsAt(io2) : d[i].read # io2[j].read
    BY <1>3, <1>6, <2>3 DEF GivenOnce
  <2>7. QED
    BY <1>3, <2>5, <2>6 DEF GivenOnce
<1>11. QED
  BY <1>1, <1>7, <1>9, <1>10 DEF Core, io2

\* One new pair, the callback of which is called at once.
LEMMA DoneCore ==
    ASSUME NEW rw, NEW io, NEW ss, NEW d, NEW n \in Nat, Core(rw, io, ss, d, n),
           NEW e, NEW st, NEW x, NEW rw2, NEW ss2, Changed(rw, ss, n, e, st, x, rw2, ss2),
           Pairs(x) = Pairs(ss[st.sid]) + 1,
           NEW read, read = [sid |-> st.sid, nr |-> Pairs(x)],
           NEW c \in CompletionOf(ss, n), c.read = read, c.pkt = x.captured[Pairs(x)]
    PROVE  Core(rw2, io, ss2, Append(d, c), n)
<1> DEFINE d2 == Append(d, c)
<1>1. /\ PartsTyped(rw2, io, ss2, d, n) /\ RawKnown(rw2, ss2)
      /\ DOMAIN ss2 = DOMAIN ss /\ st.sid \in DOMAIN ss /\ ss2[st.sid] = x
      /\ \A t \in DOMAIN ss : t # st.sid => ss2[t] = ss[t]
      /\ \A rd \in ReadOf(ss) : \A pkt : Fits(rd, pkt, ss[rd.sid]) => Fits(rd, pkt, ss2[rd.sid])
  BY ChangeKeeps
<1>2. /\ \A i \in ReadsAt(io) : io[i].read \in ReadOf(ss)
      /\ \A i \in DOMAIN d : d[i].read \in ReadOf(ss)
  BY GivenTyped DEF Core
<1>3. GivenFits(io, ss, d) /\ GivenOnce(io, d)
  BY DEF Core
<1>4. Pairs(ss[st.sid]) \in Nat /\ \A t \in DOMAIN ss : Pairs(ss[t]) \in Nat
  <2>1. \A t \in DOMAIN ss : ss[t] \in SessionOf(n)
    BY DEF Core, PartsTyped
  <2>2. QED
    BY <1>1, <2>1, SessionParts
<1>5. CompletionOf(ss2, n) = CompletionOf(ss, n)
  BY <1>1 DEF ReadOf, CompletionOf
<1>6. /\ d2 \in Seq(CompletionOf(ss, n)) /\ d2[Len(d) + 1] = c
      /\ Len(d) \in Nat /\ DOMAIN d = 1 .. Len(d) /\ DOMAIN d2 = 1 .. Len(d) + 1
      /\ \A i \in DOMAIN d : d2[i] = d[i]
  <2>1. d \in Seq(CompletionOf(ss, n)) /\ d2 = Append(d, c)
    BY DEF Core, PartsTyped
  <2>2. QED
    BY <2>1, AppendProperties, LenProperties
<1> HIDE DEF d2
<1>7. DOMAIN d2 = DOMAIN d \cup {Len(d) + 1} /\ Len(d) + 1 \notin DOMAIN d
  BY <1>6
<1>8. PartsTyped(rw2, io, ss2, d2, n)
  BY <1>1, <1>5, <1>6 DEF PartsTyped
<1>9. read.sid = st.sid /\ read.nr = Pairs(x)
  OBVIOUS
<1>10. GivenFits(io, ss2, d2)
  <2>1. Fits(c.read, c.pkt, ss2[c.read.sid])
    BY <1>1, <1>4, <1>9 DEF Fits
  <2>2. \A i \in DOMAIN d2 : Fits(d2[i].read, d2[i].pkt, ss2[d2[i].read.sid])
    BY <1>1, <1>2, <1>3, <1>6, <1>7, <2>1 DEF GivenFits
  <2>3. \A i \in ReadsAt(io) : Fits(io[i].read, io[i].pkt, ss2[io[i].read.sid])
    BY <1>1, <1>2, <1>3 DEF GivenFits
  <2>4. ASSUME NEW t \in DOMAIN ss, NEW m \in 1 .. Pairs(ss2[t])
        PROVE  Given([sid |-> t, nr |-> m], io, d2)
    <3>1. CASE m \in 1 .. Pairs(ss[t])
      <4>1. Given([sid |-> t, nr |-> m], io, d)
        BY <1>3, <3>1 DEF GivenFits
      <4>2. QED
        BY <1>6, <1>7, <4>1 DEF Given
    <3>2. CASE m \notin 1 .. Pairs(ss[t])
      <4>1. t = st.sid /\ m = Pairs(x)
        BY <1>1, <1>4, <3>2
      <4>2. QED
        BY <1>6, <1>7, <4>1 DEF Given
    <3>3. QED
      BY <3>1, <3>2
  <2>5. QED
    BY <1>1, <2>2, <2>3, <2>4 DEF GivenFits
<1>11. GivenOnce(io, d2)
  <2>1. \A i \in ReadsAt(io) : io[i].read.sid = st.sid => io[i].read.nr <= Pairs(ss[st.sid])
    BY <1>3 DEF GivenFits, Fits
  <2>2. \A i \in DOMAIN d : d[i].read.sid = st.sid => d[i].read.nr <= Pairs(ss[st.sid])
    BY <1>3 DEF GivenFits, Fits
  <2>3. /\ \A i \in DOMAIN d : d[i].read # read
        /\ \A i \in ReadsAt(io) : io[i].read # read
    BY <1>4, <1>9, <2>1, <2>2
  <2>4. \A i, j \in DOMAIN d2 : d2[i].read = d2[j].read => i = j
    BY <1>3, <1>6, <1>7, <2>3 DEF GivenOnce
  <2>5. \A i \in DOMAIN d2, j \in ReadsAt(io) : d2[i].read # io[j].read
    BY <1>3, <1>6, <1>7, <2>3 DEF GivenOnce
  <2>6. QED
    BY <1>3, <2>4, <2>5 DEF GivenOnce
<1>12. QED
  BY <1>1, <1>8, <1>10, <1>11 DEF Core, d2

\* The front of the posted handlers is taken.
LEMMA TailReads ==
    ASSUME NEW S, NEW io \in Seq(S), io # <<>>
    PROVE  /\ Head(io) = io[1] /\ Head(io) \in S /\ Tail(io) \in Seq(S) /\ 1 \in DOMAIN io
           /\ \A i \in ReadsAt(Tail(io)) : i \in Nat \ {0} /\ i + 1 \in ReadsAt(io) /\ Tail(io)[i] = io[i + 1]
           /\ \A i \in ReadsAt(io) : i # 1 => i - 1 \in ReadsAt(Tail(io)) /\ Tail(io)[i - 1] = io[i]
           /\ 1 \in ReadsAt(io) <=> Head(io).run = "read"
           /\ \A i \in ReadsAt(io) : i \in Nat \ {0}
<1> DEFINE t == Tail(io)
<1>1. /\ Head(io) \in S /\ Head(io) = io[1] /\ t \in Seq(S) /\ Len(io) \in Nat \ {0}
      /\ DOMAIN io = 1 .. Len(io) /\ DOMAIN t = 1 .. Len(io) - 1
      /\ \A i \in DOMAIN t : t[i] = io[i + 1]
  BY HeadTailProperties, LenProperties, EmptySeq
<1> HIDE DEF t
<1>2. \A i \in DOMAIN t : i \in Nat \ {0} /\ i + 1 \in DOMAIN io
  BY <1>1
<1>3. \A i \in DOMAIN io : i \in Nat \ {0} /\ (i # 1 => i - 1 \in DOMAIN t /\ t[i - 1] = io[i])
  BY <1>1
<1>4. 1 \in DOMAIN io
  BY <1>1
<1>5. QED
  BY <1>1, <1>2, <1>3, <1>4 DEF ReadsAt, t

\* The front of the posted handlers is not that of a read.
LEMMA TailCore ==
    ASSUME NEW rw, NEW io, NEW ss, NEW d, NEW n \in Nat, Core(rw, io, ss, d, n),
           io # <<>>, Head(io).run # "read"
    PROVE  Core(rw, Tail(io), ss, d, n)
<1> DEFINE t == Tail(io)
<1>1. io \in Seq(HandlerOf(ss, n))
  BY DEF Core, PartsTyped
<1>2. /\ t \in Seq(HandlerOf(ss, n))
      /\ \A i \in ReadsAt(t) : i \in Nat \ {0} /\ i + 1 \in ReadsAt(io) /\ t[i] = io[i + 1]
      /\ \A i \in ReadsAt(io) : i # 1 => i - 1 \in ReadsAt(t) /\ t[i - 1] = io[i]
      /\ 1 \notin ReadsAt(io)
  BY <1>1, TailReads
<1> HIDE DEF t
<1>3. GivenFits(io, ss, d) /\ GivenOnce(io, d)
  BY DEF Core
<1>4. PartsTyped(rw, t, ss, d, n)
  BY <1>2 DEF Core, PartsTyped
<1>5. GivenFits(t, ss, d)
  <2>1. \A i \in ReadsAt(t) : Fits(t[i].read, t[i].pkt, ss[t[i].read.sid])
    BY <1>2, <1>3 DEF GivenFits
  <2>2. \A s \in DOMAIN ss : \A m \in 1 .. Pairs(ss[s]) : Given([sid |-> s, nr |-> m], t, d)
    <3> SUFFICES ASSUME NEW s \in DOMAIN ss, NEW m \in 1 .. Pairs(ss[s])
                 PROVE  Given([sid |-> s, nr |-> m], t, d)
      OBVIOUS
    <3>1. Given([sid |-> s, nr |-> m], io, d)
      BY <1>3 DEF GivenFits
    <3>2. CASE \E i \in DOMAIN d : d[i].read = [sid |-> s, nr |-> m]
      BY <3>2 DEF Given
    <3>3. CASE \E i \in ReadsAt(io) : io[i].read = [sid |-> s, nr |-> m]
      <4>1. PICK i \in ReadsAt(io) : io[i].read = [sid |-> s, nr |-> m]
        BY <3>3
      <4>2. i - 1 \in ReadsAt(t) /\ t[i - 1].read = [sid |-> s, nr |-> m]
        BY <1>2, <4>1
      <4>3. QED
        BY <4>2 DEF Given
    <3>4. QED
      BY <3>1, <3>2, <3>3 DEF Given
  <2>3. QED
    BY <1>3, <2>1, <2>2 DEF GivenFits
<1>6. GivenOnce(t, d)
  <2>1. ASSUME NEW i \in ReadsAt(t), NEW j \in ReadsAt(t), i < j, t[i].read.sid = t[j].read.sid
        PROVE  t[i].read.nr < t[j].read.nr
    <3>1. i + 1 < j + 1
      BY <1>2, <2>1
    <3>2. QED
      BY <1>2, <1>3, <2>1, <3>1 DEF GivenOnce
  <2>2. \A i \in DOMAIN d, j \in ReadsAt(t) : d[i].read # t[j].read
    BY <1>2, <1>3 DEF GivenOnce
  <2>3. QED
    BY <1>3, <2>1, <2>2 DEF GivenOnce
<1>7. QED
  BY <1>4, <1>5, <1>6 DEF Core, t

\* The posted completion of a read runs.
LEMMA FinishCore ==
    ASSUME NEW rw, NEW io, NEW ss, NEW d, NEW n \in Nat, Core(rw, io, ss, d, n),
           io # <<>>, Head(io).run = "read"
    PROVE  Core(rw, Tail(io), ss, Append(d, [read |-> Head(io).read, pkt |-> Head(io).pkt]), n)
<1> DEFINE t == Tail(io)
           h == Head(io)
           c == [read |-> h.read, pkt |-> h.pkt]
           d2 == Append(d, c)
<1>1. io \in Seq(HandlerOf(ss, n)) /\ d \in Seq(CompletionOf(ss, n))
  BY DEF Core, PartsTyped
<1>2. /\ t \in Seq(HandlerOf(ss, n)) /\ h = io[1] /\ h \in HandlerOf(ss, n)
      /\ \A i \in ReadsAt(t) : i \in Nat \ {0} /\ i + 1 \in ReadsAt(io) /\ t[i] = io[i + 1]
      /\ \A i \in ReadsAt(io) : i # 1 => i - 1 \in ReadsAt(t) /\ t[i - 1] = io[i]
      /\ 1 \in ReadsAt(io)
  BY <1>1, TailReads
<1>3. c \in CompletionOf(ss, n) /\ c.read = h.read /\ c.pkt = h.pkt
  <2>1. h.read \in ReadOf(ss) /\ h.pkt \in PacketOf(n)
    BY <1>2 DEF HandlerOf
  <2>2. QED
    BY <2>1 DEF CompletionOf
<1> HIDE DEF t, h, c
<1>4. /\ d2 \in Seq(CompletionOf(ss, n)) /\ d2[Len(d) + 1] = c
      /\ Len(d) \in Nat /\ DOMAIN d = 1 .. Len(d) /\ DOMAIN d2 = 1 .. Len(d) + 1
      /\ \A i \in DOMAIN d : d2[i] = d[i]
  BY <1>1, <1>3, AppendProperties, LenProperties
<1> HIDE DEF d2
<1>5. DOMAIN d2 = DOMAIN d \cup {Len(d) + 1} /\ Len(d) + 1 \notin DOMAIN d
  BY <1>4
<1>6. GivenFits(io, ss, d) /\ GivenOnce(io, d)
  BY DEF Core
<1>7. PartsTyped(rw, t, ss, d2, n)
  BY <1>2, <1>4 DEF Core, PartsTyped
<1>8. GivenFits(t, ss, d2)
  <2>1. \A i \in ReadsAt(t) : Fits(t[i].read, t[i].pkt, ss[t[i].read.sid])
    BY <1>2, <1>6 DEF GivenFits
  <2>2. Fits(c.read, c.pkt, ss[c.read.sid])
    BY <1>2, <1>3, <1>6 DEF GivenFits
  <2>3. \A i \in DOMAIN d2 : Fits(d2[i].read, d2[i].pkt, ss[d2[i].read.sid])
    BY <1>4, <1>5, <1>6, <2>2 DEF GivenFits
  <2>4. ASSUME NEW s \in DOMAIN ss, NEW m \in 1 .. Pairs(ss[s])
        PROVE  Given([sid |-> s, nr |-> m], t, d2)
    <3>1. Given([sid |-> s, nr |-> m], io, d)
      BY <1>6 DEF GivenFits
    <3>2. CASE \E i \in DOMAIN d : d[i].read = [sid |-> s, nr |-> m]
      BY <1>4, <1>5, <3>2 DEF Given
    <3>3. CASE \E i \in ReadsAt(io) : io[i].read = [sid |-> s, nr |-> m]
      <4>1. PICK i \in ReadsAt(io) : io[i].read = [sid |-> s, nr |-> m]
        BY <3>3
      <4>2. CASE i = 1
        BY <1>2, <1>3, <1>4, <1>5, <4>1, <4>2 DEF Given
      <4>3. CASE i # 1
        <5>1. i - 1 \in ReadsAt(t) /\ t[i - 1].read = [sid |-> s, nr |-> m]
          BY <1>2, <4>1, <4>3
        <5>2. QED
          BY <5>1 DEF Given
      <4>4. QED
        BY <4>2, <4>3
    <3>4. QED
      BY <3>1, <3>2, <3>3 DEF Given
  <2>5. QED
    BY <2>1, <2>3, <2>4 DEF GivenFits
<1>9. GivenOnce(t, d2)
  <2>1. ASSUME NEW i \in ReadsAt(t), NEW j \in ReadsAt(t), i < j, t[i].read.sid = t[j].read.sid
        PROVE  t[i].read.nr < t[j].read.nr
    <3>1. i + 1 < j + 1
      BY <1>2, <2>1
    <3>2. QED
      BY <1>2, <1>6, <2>1, <3>1 DEF GivenOnce
  <2>2. \A i \in DOMAIN d : d[i].read # c.read
    BY <1>2, <1>3, <1>6 DEF GivenOnce
  <2>3. \A j \in ReadsAt(t) : t[j].read # c.read
    <3> SUFFICES ASSUME NEW j \in ReadsAt(t), t[j].read = c.read PROVE FALSE
      OBVIOUS
    <3>1. j + 1 \in ReadsAt(io) /\ 1 < j + 1 /\ io[j + 1].read = io[1].read
      BY <1>2, <1>3
    <3>2. io[1].read.nr < io[j + 1].read.nr
      BY <1>2, <1>6, <3>1 DEF GivenOnce
    <3>3. io[1].read \in ReadOf(ss)
      BY <1>2, GivenTyped DEF Core
    <3>4. QED
      BY <3>1, <3>2, <3>3 DEF ReadOf
  <2>4. \A i, j \in DOMAIN d2 : d2[i].read = d2[j].read => i = j
    BY <1>4, <1>5, <1>6, <2>2 DEF GivenOnce
  <2>5. \A i \in DOMAIN d2, j \in ReadsAt(t) : d2[i].read # t[j].read
    <3>1. \A i \in DOMAIN d, j \in ReadsAt(t) : d[i].read # t[j].read
      BY <1>2, <1>6 DEF GivenOnce
    <3>2. QED
      BY <1>4, <1>5, <2>3, <3>1
  <2>6. QED
    BY <2>1, <2>4, <2>5 DEF GivenOnce
<1>10. QED
  BY <1>7, <1>8, <1>9 DEF Core, t, h, c, d2

\* A handler of another kind is posted.
LEMMA AppendCore ==
    ASSUME NEW rw, NEW io, NEW ss, NEW d, NEW n \in Nat, Core(rw, io, ss, d, n),
           NEW h \in HandlerOf(ss, n), h.run # "read"
    PROVE  Core(rw, Append(io, h), ss, d, n)
<1> DEFINE io2 == Append(io, h)
<1>1. io \in Seq(HandlerOf(ss, n))
  BY DEF Core, PartsTyped
<1>2. /\ io2 \in Seq(HandlerOf(ss, n)) /\ Len(io) \in Nat /\ DOMAIN io = 1 .. Len(io)
      /\ DOMAIN io2 = 1 .. Len(io) + 1 /\ io2[Len(io) + 1] = h
      /\ \A i \in DOMAIN io : io2[i] = io[i]
  BY <1>1, AppendProperties, LenProperties
<1> HIDE DEF io2
<1>3. DOMAIN io2 = DOMAIN io \cup {Len(io) + 1}
  BY <1>2
<1>4. ReadsAt(io2) = ReadsAt(io) /\ \A i \in ReadsAt(io) : io2[i] = io[i]
  BY <1>2, <1>3 DEF ReadsAt
<1>5. PartsTyped(rw, io2, ss, d, n)
  BY <1>2 DEF Core, PartsTyped
<1>6. GivenFits(io2, ss, d) /\ GivenOnce(io2, d)
  <2>1. \A rd : Given(rd, io, d) => Given(rd, io2, d)
    BY <1>4 DEF Given
  <2>2. GivenFits(io2, ss, d)
    BY <1>4, <2>1 DEF Core, GivenFits
  <2>3. GivenOnce(io2, d)
    BY <1>4 DEF Core, GivenOnce
  <2>4. QED
    BY <2>2, <2>3
<1>7. QED
  BY <1>5, <1>6 DEF Core, io2

\* The types grow with the sessions and the arrivals.
LEMMA TypesGrow ==
    ASSUME NEW ss, NEW ss2, DOMAIN ss \subseteq DOMAIN ss2, NEW n \in Nat, NEW m \in Nat, n <= m
    PROVE  /\ PacketOf(n) \subseteq PacketOf(m) /\ Seq(PacketOf(n)) \subseteq Seq(PacketOf(m))
           /\ SessionOf(n) \subseteq SessionOf(m)
           /\ ReadOf(ss) \subseteq ReadOf(ss2) /\ RawOf(ss, n) \subseteq RawOf(ss2, m)
           /\ HandlerOf(ss, n) \subseteq HandlerOf(ss2, m)
           /\ CompletionOf(ss, n) \subseteq CompletionOf(ss2, m)
<1>1. PacketOf(n) \subseteq PacketOf(m)
  BY DEF PacketOf
<1>2. ReadOf(ss) \subseteq ReadOf(ss2)
  BY DEF ReadOf
<1>3. Seq(PacketOf(n)) \subseteq Seq(PacketOf(m)) /\ Seq(ReadOf(ss)) \subseteq Seq(ReadOf(ss2))
  BY <1>1, <1>2, SeqMonotonic
<1>4. SessionOf(n) \subseteq SessionOf(m)
  BY <1>3 DEF SessionOf
<1>5. RawOf(ss, n) \subseteq RawOf(ss2, m)
  BY <1>3 DEF RawOf
<1>6. HandlerOf(ss, n) \subseteq HandlerOf(ss2, m)
  BY <1>1, <1>2 DEF HandlerOf
<1>7. CompletionOf(ss, n) \subseteq CompletionOf(ss2, m)
  BY <1>1, <1>2 DEF CompletionOf
<1>8. QED
  BY <1>1, <1>2, <1>3, <1>4, <1>5, <1>6, <1>7

\* A packet arrives.
LEMMA ArriveCore ==
    ASSUME NEW rw, NEW io, NEW ss, NEW d, NEW n \in Nat, Core(rw, io, ss, d, n)
    PROVE  Core(rw, io, ss, d, n + 1)
<1>1. /\ ss \in Seq(SessionOf(n)) /\ DOMAIN rw \subseteq Ends /\ io \in Seq(HandlerOf(ss, n))
      /\ d \in Seq(CompletionOf(ss, n)) /\ \A f \in DOMAIN rw : rw[f] \in RawOf(ss, n)
  BY DEF Core, PartsTyped
<1>2. /\ SessionOf(n) \subseteq SessionOf(n + 1) /\ RawOf(ss, n) \subseteq RawOf(ss, n + 1)
      /\ HandlerOf(ss, n) \subseteq HandlerOf(ss, n + 1)
      /\ CompletionOf(ss, n) \subseteq CompletionOf(ss, n + 1)
  <2>1. n + 1 \in Nat /\ n <= n + 1 /\ DOMAIN ss \subseteq DOMAIN ss
    OBVIOUS
  <2>2. QED
    BY <2>1, TypesGrow
<1>3. /\ ss \in Seq(SessionOf(n + 1)) /\ io \in Seq(HandlerOf(ss, n + 1))
      /\ d \in Seq(CompletionOf(ss, n + 1))
  BY <1>1, <1>2, SeqMonotonic
<1>4. PartsTyped(rw, io, ss, d, n + 1)
  BY <1>1, <1>2, <1>3 DEF PartsTyped
<1>5. QED
  BY <1>4 DEF Core

\* The raw_states and the sessions behind emplace.
RawPlus(rw, ss, e, pq) ==
    [x \in DOMAIN rw \cup {e} |->
        IF x = e THEN [sid |-> Len(ss) + 1, pq |-> pq, on_data_receive |-> <<>>] ELSE rw[x]]
SessionPlus(ss, e, pq) == Append(ss, [ends |-> e, captured |-> pq, reads |-> 0])

\* What is known of them: rw2 and ss2 have one raw_state and one session s more.
Emplaced(rw, ss, n, e, pq, s, rw2, ss2) ==
    /\ ss2 \in Seq(SessionOf(n)) /\ DOMAIN ss2 = DOMAIN ss \cup {s} /\ s \notin DOMAIN ss
    /\ \A t \in DOMAIN ss : ss2[t] = ss[t]
    /\ ss2[s].ends = e /\ ss2[s].captured = pq /\ ss2[s].reads = 0 /\ Pairs(ss2[s]) = 0
    /\ DOMAIN rw2 = DOMAIN rw \cup {e} /\ \A f \in DOMAIN rw : rw2[f] = rw[f]
    /\ rw2[e] \in RawOf(ss2, n) /\ rw2[e].sid = s
    /\ RawIs(e, rw2[e], ss2[s])

\* emplace makes such a raw_state.
LEMMA PlusIs ==
    ASSUME NEW n \in Nat, NEW ss \in Seq(SessionOf(n)), NEW rw, NEW e \in Ends, e \notin DOMAIN rw,
           NEW pq \in Seq(PacketOf(n))
    PROVE  Emplaced(rw, ss, n, e, pq, Len(ss) + 1, RawPlus(rw, ss, e, pq), SessionPlus(ss, e, pq))
<1> DEFINE ss2 == SessionPlus(ss, e, pq)
           rw2 == RawPlus(rw, ss, e, pq)
           s   == Len(ss) + 1
           x   == [ends |-> e, captured |-> pq, reads |-> 0]
           st  == [sid |-> s, pq |-> pq, on_data_receive |-> <<>>]
<1>1. x \in SessionOf(n) /\ x.ends = e /\ x.captured = pq /\ x.reads = 0
  BY DEF SessionOf
<1>2. st.sid = s /\ st.pq = pq /\ st.on_data_receive = <<>>
  OBVIOUS
<1>3. ss2 = Append(ss, x)
  BY DEF SessionPlus
<1>4. DOMAIN rw2 = DOMAIN rw \cup {e} /\ rw2[e] = st /\ \A f \in DOMAIN rw : rw2[f] = rw[f]
  BY DEF RawPlus
<1> HIDE DEF x, st, ss2, rw2
<1>5. /\ ss2 \in Seq(SessionOf(n)) /\ Len(ss) \in Nat /\ DOMAIN ss = 1 .. Len(ss)
      /\ DOMAIN ss2 = 1 .. Len(ss) + 1 /\ ss2[s] = x /\ \A t \in DOMAIN ss : ss2[t] = ss[t]
  BY <1>1, <1>3, AppendProperties, LenProperties
<1>6. DOMAIN ss2 = DOMAIN ss \cup {s} /\ s \notin DOMAIN ss
  BY <1>5
<1>7. Len(pq) \in Nat /\ DOMAIN pq = 1 .. Len(pq)
  BY LenProperties
<1>8. Pairs(x) = 0
  BY <1>1, <1>7 DEF Pairs
<1>9. RawIs(e, st, x)
  <2>1. Len(st.pq) = Len(x.captured) - Pairs(x) /\ Len(st.on_data_receive) = x.reads - Pairs(x)
    BY <1>1, <1>2, <1>7, <1>8, EmptySeq
  <2>2. DOMAIN st.on_data_receive = {}
    BY <1>2
  <2>3. \A i \in DOMAIN st.pq : st.pq[i] = x.captured[Pairs(x) + i]
    BY <1>1, <1>2, <1>7, <1>8
  <2>4. QED
    BY <1>1, <2>1, <2>2, <2>3 DEF RawIs
<1>10. st \in RawOf(ss2, n)
  <2>1. s \in DOMAIN ss2 /\ <<>> \in Seq(ReadOf(ss2))
    BY <1>6, EmptySeq
  <2>2. QED
    BY <2>1 DEF RawOf, st
<1>11. QED
  BY <1>1, <1>2, <1>4, <1>5, <1>6, <1>8, <1>9, <1>10 DEF Emplaced, ss2, rw2

\* A raw_state is made for e.
LEMMA EmplaceCore ==
    ASSUME NEW rw, NEW io, NEW ss, NEW d, NEW n \in Nat, Core(rw, io, ss, d, n),
           NEW e \in Ends, e \notin DOMAIN rw, NEW pq \in Seq(PacketOf(n))
    PROVE  Core(RawPlus(rw, ss, e, pq), io, SessionPlus(ss, e, pq), d, n)
<1> DEFINE ss2 == SessionPlus(ss, e, pq)
           rw2 == RawPlus(rw, ss, e, pq)
           s   == Len(ss) + 1
<1>1. /\ ss \in Seq(SessionOf(n)) /\ DOMAIN rw \subseteq Ends /\ io \in Seq(HandlerOf(ss, n))
      /\ d \in Seq(CompletionOf(ss, n)) /\ \A f \in DOMAIN rw : rw[f] \in RawOf(ss, n)
  BY DEF Core, PartsTyped
<1>2. /\ ss2 \in Seq(SessionOf(n)) /\ DOMAIN ss2 = DOMAIN ss \cup {s} /\ s \notin DOMAIN ss
      /\ \A t \in DOMAIN ss : ss2[t] = ss[t]
      /\ Pairs(ss2[s]) = 0
      /\ DOMAIN rw2 = DOMAIN rw \cup {e} /\ \A f \in DOMAIN rw : rw2[f] = rw[f]
      /\ rw2[e] \in RawOf(ss2, n) /\ rw2[e].sid = s /\ RawIs(e, rw2[e], ss2[s])
  <2>1. Emplaced(rw, ss, n, e, pq, s, rw2, ss2)
    BY <1>1, PlusIs
  <2>2. QED
    BY <2>1 DEF Emplaced
<1> HIDE DEF ss2, rw2, s
<1>3. /\ RawOf(ss, n) \subseteq RawOf(ss2, n) /\ HandlerOf(ss, n) \subseteq HandlerOf(ss2, n)
      /\ CompletionOf(ss, n) \subseteq CompletionOf(ss2, n)
  <2>1. n <= n /\ DOMAIN ss \subseteq DOMAIN ss2
    BY <1>2
  <2>2. QED
    BY <2>1, TypesGrow
<1>4. io \in Seq(HandlerOf(ss2, n)) /\ d \in Seq(CompletionOf(ss2, n))
  BY <1>1, <1>3, SeqMonotonic
<1>5. PartsTyped(rw2, io, ss2, d, n)
  BY <1>1, <1>2, <1>3, <1>4 DEF PartsTyped
<1>6. RawKnown(rw2, ss2)
  <2>1. \A f \in DOMAIN rw : RawIs(f, rw[f], ss[rw[f].sid]) /\ rw[f].sid \in DOMAIN ss
    BY <1>1 DEF Core, RawKnown, RawOf
  <2>2. QED
    BY <1>2, <2>1 DEF RawKnown
<1>7. GivenFits(io, ss2, d)
  <2>1. /\ \A i \in ReadsAt(io) : io[i].read.sid \in DOMAIN ss
        /\ \A i \in DOMAIN d : d[i].read.sid \in DOMAIN ss
    BY GivenTyped DEF Core, ReadOf
  <2>2. GivenFits(io, ss, d)
    BY DEF Core
  <2>3. /\ \A i \in ReadsAt(io) : Fits(io[i].read, io[i].pkt, ss2[io[i].read.sid])
        /\ \A i \in DOMAIN d : Fits(d[i].read, d[i].pkt, ss2[d[i].read.sid])
    BY <1>2, <2>1, <2>2 DEF GivenFits
  <2>4. ASSUME NEW t \in DOMAIN ss2, NEW m \in 1 .. Pairs(ss2[t])
        PROVE  Given([sid |-> t, nr |-> m], io, d)
    <3>1. t # s
      BY <1>2, <2>4
    <3>2. t \in DOMAIN ss /\ ss2[t] = ss[t]
      BY <1>2, <3>1
    <3>3. QED
      BY <2>2, <3>2 DEF GivenFits
  <2>5. QED
    BY <2>3, <2>4 DEF GivenFits
<1>8. QED
  BY <1>5, <1>6, <1>7 DEF Core, ss2, rw2

\* The raw_state of e is removed; its session stays as it is.
Without(rw, e) == [x \in DOMAIN rw \ {e} |-> rw[x]]

\* The pairs that were made outlive the raw_state.
LEMMA DetachCore ==
    ASSUME NEW rw, NEW io, NEW ss, NEW d, NEW n \in Nat, Core(rw, io, ss, d, n), NEW e
    PROVE  Core(Without(rw, e), io, ss, d, n)
<1> DEFINE rw2 == Without(rw, e)
<1>1. DOMAIN rw2 \subseteq DOMAIN rw /\ \A f \in DOMAIN rw2 : rw2[f] = rw[f]
  BY DEF Without
<1> HIDE DEF rw2
<1>2. PartsTyped(rw2, io, ss, d, n)
  BY <1>1 DEF Core, PartsTyped
<1>3. RawKnown(rw2, ss)
  BY <1>1 DEF Core, RawKnown
<1>4. QED
  BY <1>2, <1>3 DEF Core, rw2

-----------------------------------------------------------------------------
(* The calls as the code makes them *)

Parts(rw, io, ss, ev) == [raw |-> rw, ioq |-> io, session |-> ss, events |-> ev]

\* What the calls do to a session x and to a raw_state st.
WithRead(x) == [x EXCEPT !.reads = @ + 1]
WithPacket(x, pkt) == [x EXCEPT !.captured = Append(@, pkt)]
Taken(st) == [st EXCEPT !.pq = Tail(@)]
Enqueued(st, pkt) == [st EXCEPT !.pq = Append(@, pkt)]
Waiting(st, read) == [st EXCEPT !.on_data_receive = Append(@, read)]
Served(st) == [st EXCEPT !.on_data_receive = Tail(@)]

\* The parts that tcp::async_wait leaves behind.
NextRead(st, x) == [sid |-> st.sid, nr |-> x.reads + 1]
ReadHandler(read, pkt) == [run |-> "read", read |-> read, pkt |-> pkt]
WaitIs(rw, io, ss, e, c) ==
    LET st == rw[e]
        x  == ss[st.sid]
    IN  /\ c.session = [ss EXCEPT ![st.sid] = WithRead(x)]
        /\ st.pq # <<>> => /\ c.raw = [rw EXCEPT ![e] = Taken(st)]
                           /\ c.ioq = Append(io, ReadHandler(NextRead(st, x), Head(st.pq)))
        /\ st.pq = <<>> => /\ c.raw = [rw EXCEPT ![e] = Waiting(st, NextRead(st, x))]
                           /\ c.ioq = io

\* tcp::async_wait in terms of the parts.
LEMMA WaitFields ==
    ASSUME NEW rw, NEW io, NEW ss, NEW ev, NEW e
    PROVE  WaitIs(rw, io, ss, e, async_wait(Parts(rw, io, ss, ev), e))
<1> DEFINE c == async_wait(Parts(rw, io, ss, ev), e)
           st == rw[e]
           x  == ss[st.sid]
<1>1. c.session = [ss EXCEPT ![st.sid] = WithRead(x)]
  BY DEF async_wait, Event, Parts, WithRead
<1>2. ASSUME st.pq # <<>>
      PROVE  /\ c.raw = [rw EXCEPT ![e] = Taken(st)]
             /\ c.ioq = Append(io, ReadHandler(NextRead(st, x), Head(st.pq)))
  BY <1>2 DEF async_wait, Event, Parts, Taken, ReadHandler, NextRead
<1>3. ASSUME st.pq = <<>>
      PROVE  /\ c.raw = [rw EXCEPT ![e] = Waiting(st, NextRead(st, x))]
             /\ c.ioq = io
  BY <1>3 DEF async_wait, Event, Parts, Waiting, NextRead
<1> HIDE DEF c
<1>4. QED
  BY <1>1, <1>2, <1>3 DEF WaitIs, c

\* The raw_state st of e and its session x become st2 and x2, and the pairs that
\* there were stay.
Moved(e, ss, n, st, x, st2, x2) ==
    /\ st2 \in RawOf(ss, n) /\ st2.sid = st.sid /\ x2 \in SessionOf(n) /\ RawIs(e, st2, x2)
    /\ Pairs(x) <= Pairs(x2)
    /\ \A i \in 1 .. Pairs(x) : x2.captured[i] = x.captured[i]

\* A read makes a pair with the packet in front of the queue.
PairMade(n, x, x2, nr, pkt) ==
    /\ Pairs(x2) = Pairs(x) + 1 /\ nr = Pairs(x2)
    /\ pkt = x2.captured[nr] /\ pkt \in PacketOf(n)

\* A read that finds a packet in the queue.
LEMMA ReadTakes ==
    ASSUME NEW n \in Nat, NEW ss, NEW e, NEW st \in RawOf(ss, n), NEW x \in SessionOf(n),
           RawIs(e, st, x), st.pq # <<>>
    PROVE  /\ Moved(e, ss, n, st, x, Taken(st), WithRead(x))
           /\ PairMade(n, x, WithRead(x), x.reads + 1, Head(st.pq))
<1> DEFINE t == Tail(st.pq)
           x2 == WithRead(x)
           st2 == Taken(st)
           a == Pairs(x)
<1>1. /\ x2 \in SessionOf(n) /\ x2.captured = x.captured /\ x2.reads = x.reads + 1 /\ x2.ends = x.ends
  BY DEF SessionOf, WithRead
<1>2. /\ t \in Seq(PacketOf(n)) /\ Head(st.pq) = st.pq[1] /\ Head(st.pq) \in PacketOf(n)
      /\ Len(st.pq) \in Nat \ {0} /\ DOMAIN st.pq = 1 .. Len(st.pq)
      /\ Len(t) = Len(st.pq) - 1 /\ DOMAIN t = 1 .. Len(st.pq) - 1
      /\ \A i \in DOMAIN t : t[i] = st.pq[i + 1]
  <2>1. st.pq \in Seq(PacketOf(n))
    BY DEF RawOf
  <2>2. QED
    BY <2>1, HeadTailProperties, LenProperties, EmptySeq
<1>3. st2 \in RawOf(ss, n) /\ st2.sid = st.sid /\ st2.pq = t /\ st2.on_data_receive = st.on_data_receive
  BY <1>2 DEF RawOf, Taken
<1> HIDE DEF t, x2, st2
<1>4. /\ Len(x.captured) \in Nat /\ x.reads \in Nat /\ a \in Nat
      /\ a <= x.reads /\ a <= Len(x.captured)
      /\ a = x.reads \/ a = Len(x.captured)
  BY SessionParts
<1>5. /\ x.ends = e /\ Len(st.pq) = Len(x.captured) - a /\ Len(st.on_data_receive) = x.reads - a
      /\ \A i \in DOMAIN st.pq : st.pq[i] = x.captured[a + i]
  BY DEF RawIs
<1>6. a = x.reads /\ x.reads < Len(x.captured)
  BY <1>2, <1>4, <1>5
<1>7. Pairs(x2) = a + 1
  <2>1. x2.reads <= Len(x2.captured) /\ x2.reads = a + 1
    BY <1>1, <1>4, <1>6
  <2>2. Pairs(x2) = x2.reads
    BY <1>1, <1>4, <2>1 DEF Pairs
  <2>3. QED
    BY <2>1, <2>2
<1> HIDE DEF a
<1>8. RawIs(e, st2, x2)
  <2>1. Len(st2.pq) = Len(x2.captured) - Pairs(x2)
    BY <1>1, <1>2, <1>3, <1>4, <1>5, <1>7
  <2>2. Len(st2.on_data_receive) = x2.reads - Pairs(x2)
    BY <1>1, <1>3, <1>4, <1>5, <1>6, <1>7
  <2>3. ASSUME NEW i \in DOMAIN st2.pq PROVE st2.pq[i] = x2.captured[Pairs(x2) + i]
    <3>1. i \in Nat /\ i + 1 \in DOMAIN st.pq /\ st2.pq[i] = st.pq[i + 1]
      BY <1>2, <1>3
    <3>2. st.pq[i + 1] = x.captured[a + (i + 1)]
      BY <1>5, <3>1
    <3>3. a + (i + 1) = Pairs(x2) + i
      BY <1>4, <1>7, <3>1
    <3>4. QED
      BY <1>1, <3>1, <3>2, <3>3
  <2>4. DOMAIN st2.on_data_receive = {}
    <3>1. st.on_data_receive \in Seq(ReadOf(ss))
      BY DEF RawOf
    <3>2. Len(st.on_data_receive) = 0
      BY <1>4, <1>5, <1>6
    <3>3. QED
      BY <1>3, <3>1, <3>2, LenProperties
  <2>5. x2.ends = e
    BY <1>1, <1>5
  <2>6. QED
    BY <2>1, <2>2, <2>3, <2>4, <2>5 DEF RawIs
<1>9. Head(st.pq) = x2.captured[a + 1]
  <2>1. 1 \in DOMAIN st.pq
    BY <1>2
  <2>2. QED
    BY <1>1, <1>2, <1>5, <2>1
<1>10. Moved(e, ss, n, st, x, st2, x2)
  <2>1. Pairs(x) <= Pairs(x2)
    BY <1>4, <1>7 DEF a
  <2>2. QED
    BY <1>1, <1>3, <1>8, <2>1 DEF Moved
<1>11. PairMade(n, x, x2, x.reads + 1, Head(st.pq))
  BY <1>1, <1>2, <1>6, <1>7, <1>9 DEF PairMade, a
<1>12. QED
  BY <1>10, <1>11 DEF x2, st2

\* A read that has to wait.
LEMMA ReadWaits ==
    ASSUME NEW n \in Nat, NEW ss, NEW e, NEW st \in RawOf(ss, n), NEW x \in SessionOf(n),
           RawIs(e, st, x), st.pq = <<>>
    PROVE  /\ Moved(e, ss, n, st, x, Waiting(st, NextRead(st, x)), WithRead(x))
           /\ Pairs(WithRead(x)) = Pairs(x)
<1> DEFINE read == NextRead(st, x)
           w == st.on_data_receive
           o == Append(w, read)
           x2 == WithRead(x)
           st2 == Waiting(st, read)
           a == Pairs(x)
<1>1. /\ x2 \in SessionOf(n) /\ x2.captured = x.captured /\ x2.reads = x.reads + 1 /\ x2.ends = x.ends
  BY DEF SessionOf, WithRead
<1>2. /\ Len(x.captured) \in Nat /\ x.reads \in Nat /\ a \in Nat
      /\ a <= x.reads /\ a <= Len(x.captured)
  BY SessionParts
<1>3. read \in ReadOf(ss)
  BY <1>2 DEF ReadOf, RawOf, NextRead
<1> HIDE DEF read
<1>4. w \in Seq(ReadOf(ss)) /\ Len(w) \in Nat /\ DOMAIN w = 1 .. Len(w)
  BY LenProperties DEF RawOf
<1>5. /\ o \in Seq(ReadOf(ss)) /\ Len(o) = Len(w) + 1
      /\ DOMAIN o = 1 .. Len(w) + 1
      /\ \A i \in DOMAIN w : o[i] = w[i]
      /\ o[Len(w) + 1] = read
  BY <1>3, <1>4, AppendProperties, LenProperties
<1>6. st2 \in RawOf(ss, n) /\ st2.sid = st.sid /\ st2.pq = st.pq /\ st2.on_data_receive = o
  BY <1>5 DEF RawOf, Waiting
<1>7. /\ x.ends = e /\ Len(st.pq) = Len(x.captured) - a /\ Len(w) = x.reads - a
      /\ \A i \in DOMAIN w : w[i] = [sid |-> st.sid, nr |-> a + i]
  BY DEF RawIs
<1> HIDE DEF o, w, x2, st2
<1>8. a = Len(x.captured)
  <2>1. Len(st.pq) = 0 /\ DOMAIN st.pq = {}
    BY EmptySeq
  <2>2. QED
    BY <1>2, <1>7, <2>1
<1>9. Pairs(x2) = a
  <2>1. ~(x2.reads < Len(x2.captured))
    BY <1>1, <1>2, <1>8
  <2>2. QED
    BY <1>1, <1>8, <2>1 DEF Pairs
<1> HIDE DEF a
<1>10. \A i \in DOMAIN o : o[i] = [sid |-> st.sid, nr |-> a + i]
  <2> SUFFICES ASSUME NEW i \in DOMAIN o PROVE o[i] = [sid |-> st.sid, nr |-> a + i]
    OBVIOUS
  <2>1. CASE i \in DOMAIN w
    BY <1>5, <1>7, <2>1
  <2>2. CASE i = Len(w) + 1
    <3>1. a + i = x.reads + 1
      BY <1>2, <1>7, <2>2
    <3>2. QED
      BY <1>5, <2>2, <3>1 DEF read, NextRead
  <2>3. QED
    BY <1>4, <1>5, <2>1, <2>2
<1>11. RawIs(e, st2, x2)
  <2>1. Len(st2.pq) = Len(x2.captured) - Pairs(x2)
    BY <1>1, <1>6, <1>7, <1>9
  <2>2. Len(st2.on_data_receive) = x2.reads - Pairs(x2)
    BY <1>1, <1>2, <1>4, <1>5, <1>6, <1>7, <1>9
  <2>3. DOMAIN st2.pq = {}
    BY <1>6, EmptySeq
  <2>4. x2.ends = e
    BY <1>1, <1>7
  <2>5. QED
    BY <1>6, <1>9, <1>10, <2>1, <2>2, <2>3, <2>4 DEF RawIs
<1>12. Moved(e, ss, n, st, x, st2, x2)
  <2>1. Pairs(x) <= Pairs(x2)
    BY <1>2, <1>9 DEF a
  <2>2. QED
    BY <1>1, <1>6, <1>11, <2>1 DEF Moved
<1>13. QED
  BY <1>9, <1>12 DEF x2, st2, read, a

\* A packet that finds a read that waits.
LEMMA PacketGiven ==
    ASSUME NEW n \in Nat, NEW ss, NEW e, NEW st \in RawOf(ss, n), NEW x \in SessionOf(n),
           RawIs(e, st, x), st.on_data_receive # <<>>, NEW pkt \in PacketOf(n)
    PROVE  /\ Moved(e, ss, n, st, x, Served(st), WithPacket(x, pkt))
           /\ PairMade(n, x, WithPacket(x, pkt), Head(st.on_data_receive).nr, pkt)
           /\ Head(st.on_data_receive) \in ReadOf(ss) /\ Head(st.on_data_receive).sid = st.sid
<1> DEFINE w == st.on_data_receive
           t == Tail(w)
           p == Append(x.captured, pkt)
           x2 == WithPacket(x, pkt)
           st2 == Served(st)
           a == Pairs(x)
<1>1. /\ Len(x.captured) \in Nat /\ x.reads \in Nat /\ a \in Nat /\ x.captured \in Seq(PacketOf(n))
      /\ DOMAIN x.captured = 1 .. Len(x.captured)
      /\ a <= x.reads /\ a <= Len(x.captured)
      /\ a = x.reads \/ a = Len(x.captured)
  BY SessionParts
<1>2. /\ p \in Seq(PacketOf(n)) /\ Len(p) = Len(x.captured) + 1 /\ p[Len(x.captured) + 1] = pkt
      /\ \A i \in DOMAIN x.captured : p[i] = x.captured[i]
  BY <1>1, AppendProperties, LenProperties
<1>3. /\ x2 \in SessionOf(n) /\ x2.captured = p /\ x2.reads = x.reads /\ x2.ends = x.ends
  BY <1>2 DEF SessionOf, WithPacket
<1>4. w \in Seq(ReadOf(ss)) /\ st.pq \in Seq(PacketOf(n)) /\ w # <<>>
  BY DEF RawOf
<1>5. /\ t \in Seq(ReadOf(ss)) /\ Head(w) = w[1] /\ Head(w) \in ReadOf(ss)
      /\ Len(w) \in Nat \ {0} /\ DOMAIN w = 1 .. Len(w)
      /\ Len(t) = Len(w) - 1 /\ DOMAIN t = 1 .. Len(w) - 1
      /\ \A i \in DOMAIN t : t[i] = w[i + 1]
  BY <1>4, HeadTailProperties, LenProperties, EmptySeq
<1>6. st2 \in RawOf(ss, n) /\ st2.sid = st.sid /\ st2.pq = st.pq /\ st2.on_data_receive = t
  BY <1>5 DEF RawOf, Served
<1>7. /\ x.ends = e /\ Len(st.pq) = Len(x.captured) - a /\ Len(w) = x.reads - a
      /\ \A i \in DOMAIN w : w[i] = [sid |-> st.sid, nr |-> a + i]
  BY DEF RawIs
<1> HIDE DEF w, t, p, x2, st2
<1>8. a = Len(x.captured) /\ a < x.reads
  BY <1>1, <1>5, <1>7
<1>9. Pairs(x2) = a + 1
  <2>1. Len(x2.captured) = a + 1 /\ ~(x2.reads < Len(x2.captured))
    BY <1>1, <1>2, <1>3, <1>8
  <2>2. QED
    BY <2>1 DEF Pairs
<1>10. Head(w).sid = st.sid /\ Head(w).nr = a + 1
  <2>1. 1 \in DOMAIN w
    BY <1>5
  <2>2. Head(w) = [sid |-> st.sid, nr |-> a + 1]
    BY <1>5, <1>7, <2>1
  <2>3. QED
    BY <2>2
<1>11. \A i \in 1 .. a : x2.captured[i] = x.captured[i]
  BY <1>1, <1>2, <1>3, <1>8
<1>12. a <= a + 1
  BY <1>1
<1> HIDE DEF a
<1>13. RawIs(e, st2, x2)
  <2>1. Len(st2.pq) = 0 /\ Len(x2.captured) - Pairs(x2) = 0
    BY <1>1, <1>2, <1>3, <1>6, <1>7, <1>8, <1>9
  <2>2. Len(st2.on_data_receive) = x2.reads - Pairs(x2)
    BY <1>1, <1>3, <1>5, <1>6, <1>7, <1>9
  <2>3. ASSUME NEW i \in DOMAIN st2.on_data_receive
        PROVE  st2.on_data_receive[i] = [sid |-> st2.sid, nr |-> Pairs(x2) + i]
    <3>1. i \in Nat /\ i + 1 \in DOMAIN w /\ st2.on_data_receive[i] = w[i + 1]
      BY <1>5, <1>6
    <3>2. w[i + 1] = [sid |-> st.sid, nr |-> a + (i + 1)]
      BY <1>7, <3>1
    <3>3. a + (i + 1) = Pairs(x2) + i
      BY <1>1, <1>9, <3>1
    <3>4. QED
      BY <1>6, <3>1, <3>2, <3>3
  <2>4. DOMAIN st2.pq = {}
    BY <1>4, <1>6, <2>1, LenProperties
  <2>5. x2.ends = e
    BY <1>3, <1>7
  <2>6. QED
    BY <2>1, <2>2, <2>3, <2>4, <2>5 DEF RawIs
<1>14. Moved(e, ss, n, st, x, st2, x2)
  BY <1>3, <1>6, <1>9, <1>11, <1>12, <1>13 DEF Moved, a
<1>15. PairMade(n, x, x2, Head(w).nr, pkt)
  BY <1>2, <1>3, <1>8, <1>9, <1>10 DEF PairMade, a
<1>16. QED
  BY <1>5, <1>10, <1>14, <1>15 DEF x2, st2, w

\* A packet that is queued.
LEMMA PacketQueued ==
    ASSUME NEW n \in Nat, NEW ss, NEW e, NEW st \in RawOf(ss, n), NEW x \in SessionOf(n),
           RawIs(e, st, x), st.on_data_receive = <<>>, NEW pkt \in PacketOf(n)
    PROVE  /\ Moved(e, ss, n, st, x, Enqueued(st, pkt), WithPacket(x, pkt))
           /\ Pairs(WithPacket(x, pkt)) = Pairs(x)
<1> DEFINE k == st.pq
           o == Append(k, pkt)
           p == Append(x.captured, pkt)
           x2 == WithPacket(x, pkt)
           st2 == Enqueued(st, pkt)
           a == Pairs(x)
<1>1. /\ Len(x.captured) \in Nat /\ x.reads \in Nat /\ a \in Nat /\ x.captured \in Seq(PacketOf(n))
      /\ DOMAIN x.captured = 1 .. Len(x.captured)
      /\ a <= x.reads /\ a <= Len(x.captured)
      /\ a = x.reads \/ a = Len(x.captured)
  BY SessionParts
<1>2. /\ p \in Seq(PacketOf(n)) /\ Len(p) = Len(x.captured) + 1 /\ p[Len(x.captured) + 1] = pkt
      /\ \A i \in DOMAIN x.captured : p[i] = x.captured[i]
  BY <1>1, AppendProperties, LenProperties
<1>3. /\ x2 \in SessionOf(n) /\ x2.captured = p /\ x2.reads = x.reads /\ x2.ends = x.ends
  BY <1>2 DEF SessionOf, WithPacket
<1>4. k \in Seq(PacketOf(n)) /\ Len(k) \in Nat /\ DOMAIN k = 1 .. Len(k)
  BY LenProperties DEF RawOf
<1>5. /\ o \in Seq(PacketOf(n)) /\ Len(o) = Len(k) + 1 /\ DOMAIN o = 1 .. Len(k) + 1
      /\ \A i \in DOMAIN k : o[i] = k[i]
      /\ o[Len(k) + 1] = pkt
  BY <1>4, AppendProperties, LenProperties
<1>6. st2 \in RawOf(ss, n) /\ st2.sid = st.sid /\ st2.pq = o /\ st2.on_data_receive = st.on_data_receive
  BY <1>5 DEF RawOf, Enqueued
<1>7. /\ x.ends = e /\ Len(k) = Len(x.captured) - a /\ Len(st.on_data_receive) = x.reads - a
      /\ \A i \in DOMAIN k : k[i] = x.captured[a + i]
  BY DEF RawIs
<1>8. Len(st.on_data_receive) = 0 /\ DOMAIN st.on_data_receive = {}
  BY EmptySeq
<1> HIDE DEF k, o, p, x2, st2
<1>9. a = x.reads
  BY <1>1, <1>7, <1>8
<1>10. Pairs(x2) = a
  <2>1. x2.reads < Len(x2.captured) /\ x2.reads = a
    BY <1>1, <1>2, <1>3, <1>9
  <2>2. QED
    BY <2>1 DEF Pairs
<1>11. \A i \in 1 .. a : x2.captured[i] = x.captured[i]
  BY <1>1, <1>2, <1>3
<1>12. a <= a
  BY <1>1
<1> HIDE DEF a
<1>13. RawIs(e, st2, x2)
  <2>1. Len(st2.pq) = Len(x2.captured) - Pairs(x2)
    BY <1>1, <1>2, <1>3, <1>4, <1>5, <1>6, <1>7, <1>10, SMTT(30)
  <2>2. Len(st2.on_data_receive) = x2.reads - Pairs(x2)
    BY <1>1, <1>3, <1>6, <1>7, <1>10
  <2>3. ASSUME NEW i \in DOMAIN o PROVE o[i] = p[a + i]
    <3>1. CASE i \in DOMAIN k
      <4>1. a + i \in DOMAIN x.captured
        BY <1>1, <1>4, <1>7, <3>1
      <4>2. QED
        BY <1>2, <1>5, <1>7, <3>1, <4>1
    <3>2. CASE i = Len(k) + 1
      <4>1. a + i = Len(x.captured) + 1
        BY <1>1, <1>4, <1>7, <3>2
      <4>2. QED
        BY <1>2, <1>5, <3>2, <4>1
    <3>3. QED
      BY <1>4, <1>5, <3>1, <3>2
  <2>4. x2.ends = e
    BY <1>3, <1>7
  <2>5. QED
    BY <1>3, <1>6, <1>8, <1>10, <2>1, <2>2, <2>3, <2>4 DEF RawIs
<1>14. Moved(e, ss, n, st, x, st2, x2)
  BY <1>3, <1>6, <1>10, <1>11, <1>12, <1>13 DEF Moved, a
<1>15. QED
  BY <1>10, <1>14 DEF x2, st2, a

\* A move of the raw_state of e, as a change of all of them.
LEMMA MovedIsChange ==
    ASSUME NEW rw, NEW io, NEW ss, NEW d, NEW n \in Nat, Core(rw, io, ss, d, n), NEW e \in DOMAIN rw,
           NEW st, NEW x, Moved(e, ss, n, rw[e], ss[rw[e].sid], st, x)
    PROVE  Changed(rw, ss, n, e, st, x, [rw EXCEPT ![e] = st], [ss EXCEPT ![rw[e].sid] = x])
BY DEF Moved, Changed

\* The raw_state of e and its session have changed, whatever the change.
Touched(rw, ss, e, rw2, ss2) ==
    /\ DOMAIN rw2 = DOMAIN rw /\ \A f \in DOMAIN rw : rw2[f].sid = rw[f].sid
    /\ DOMAIN ss2 = DOMAIN ss /\ \A t \in DOMAIN ss : t # rw[e].sid => ss2[t] = ss[t]

\* A change touches nothing else.
LEMMA ChangeTouches ==
    ASSUME NEW rw, NEW ss, NEW n, NEW e, NEW st, NEW x, NEW rw2, NEW ss2,
           Changed(rw, ss, n, e, st, x, rw2, ss2), rw[e].sid \in DOMAIN ss
    PROVE  Touched(rw, ss, e, rw2, ss2) /\ ss2[rw[e].sid] = x
BY DEF Changed, Touched

\* Nothing has changed for the packet with the number id as a whole, and as such.
SameWhole(rw, ss, u, l, rw2, ss2, u2, l2, id) ==
    /\ id \in l2 <=> id \in l
    /\ \A k : IsSent(u2, Whole(id), k) <=> IsSent(u, Whole(id), k)
    /\ \A s, i : IsCaptured(ss2, Whole(id), s, i) <=> IsCaptured(ss, Whole(id), s, i)
    /\ \A s, i : IsCaptured(ss, Whole(id), s, i) => /\ IsDropped(rw2, ss2, s, i) <=> IsDropped(rw, ss, s, i)
                                                    /\ i <= ss[s].reads => i <= ss2[s].reads
SameOf(rw, ss, u, l, rw2, ss2, u2, l2, id) ==
    SameWhole(rw, ss, u, l, rw2, ss2, u2, l2, id) /\ (HasRemains(ss2, u2, id) <=> HasRemains(ss, u, id))

\* What is known of it stays known.
LEMMA SameKnown ==
    ASSUME NEW rw, NEW ss, NEW u, NEW l, NEW rw2, NEW ss2, NEW u2, NEW l2, NEW id,
           SameWhole(rw, ss, u, l, rw2, ss2, u2, l2, id)
    PROVE  /\ SameOf(rw, ss, u, l, rw2, ss2, u2, l2, id) /\ Known(rw, ss, u, l, id) => Known(rw2, ss2, u2, l2, id)
           /\ SameOf(rw, ss, u, l, rw2, ss2, u2, l2, id) /\ Unknown(ss, u, l, id) => Unknown(ss2, u2, l2, id)
           /\ MovedAway(ss, u, id) /\ Known(rw, ss, u, l, id) => Known(rw2, ss2, u2, l2, id)
<1>1. SameOf(rw, ss, u, l, rw2, ss2, u2, l2, id) /\ Unknown(ss, u, l, id) => Unknown(ss2, u2, l2, id)
  BY DEF SameOf, SameWhole, Unknown
<1>2. ASSUME OncePlaced(rw, ss, u, l, id) PROVE OncePlaced(rw2, ss2, u2, l2, id)
  BY <1>2 DEF SameWhole, OncePlaced
<1>3. ASSUME MovedAway(ss, u, id) PROVE MovedAway(ss2, u2, id)
  BY <1>3 DEF SameWhole, MovedAway
<1>4. QED
  BY <1>1, <1>2, <1>3 DEF Known, SameOf

\* No packet arrives.
LEMMA PlacedKept ==
    ASSUME NEW rw, NEW ss, NEW u, NEW l, NEW n, NEW rw2, NEW ss2, NEW u2, NEW l2,
           Placed(rw, ss, u, l, n), \A id : SameOf(rw, ss, u, l, rw2, ss2, u2, l2, id)
    PROVE  Placed(rw2, ss2, u2, l2, n)
BY SameKnown DEF Placed, SameOf

\* Of a packet that has been moved away, the remains go on.
LEMMA PlacedRemains ==
    ASSUME NEW rw, NEW ss, NEW u, NEW l, NEW n \in Nat \ {0}, NEW rw2, NEW ss2, NEW u2, NEW l2,
           Placed(rw, ss, u, l, n), \A id : id # n => SameOf(rw, ss, u, l, rw2, ss2, u2, l2, id),
           SameWhole(rw, ss, u, l, rw2, ss2, u2, l2, n), MovedAway(ss, u, n)
    PROVE  Placed(rw2, ss2, u2, l2, n)
<1>1. n \in 1 .. n
  OBVIOUS
<1>2. \A id : id # n => SameWhole(rw, ss, u, l, rw2, ss2, u2, l2, id)
  BY DEF SameOf
<1>3. ASSUME NEW id PROVE IF id \in 1 .. n THEN Known(rw2, ss2, u2, l2, id) ELSE Unknown(ss2, u2, l2, id)
  <2>1. IF id \in 1 .. n THEN Known(rw, ss, u, l, id) ELSE Unknown(ss, u, l, id)
    BY DEF Placed
  <2>2. CASE id = n
    BY <1>1, <2>1, <2>2, SameKnown
  <2>3. CASE id # n
    BY <1>2, <2>1, <2>3, SameKnown
  <2>4. QED
    BY <2>2, <2>3
<1>4. QED
  BY <1>3 DEF Placed

\* The packet n + 1 arrives.
LEMMA PlacedArrives ==
    ASSUME NEW rw, NEW ss, NEW u, NEW l, NEW n \in Nat, NEW rw2, NEW ss2, NEW u2, NEW l2,
           Placed(rw, ss, u, l, n), \A id : id # n + 1 => SameOf(rw, ss, u, l, rw2, ss2, u2, l2, id),
           Known(rw2, ss2, u2, l2, n + 1)
    PROVE  Placed(rw2, ss2, u2, l2, n + 1)
<1>1. \A id : id \in 1 .. n + 1 <=> id \in 1 .. n \/ id = n + 1
  OBVIOUS
<1>2. \A id : id # n + 1 => SameWhole(rw, ss, u, l, rw2, ss2, u2, l2, id)
  BY DEF SameOf
<1>3. QED
  BY <1>1, <1>2, SameKnown DEF Placed

\* Nothing is known of the number of the next packet.
LEMMA NextUnknown ==
    ASSUME NEW rw, NEW ss, NEW u, NEW l, NEW n \in Nat, Placed(rw, ss, u, l, n)
    PROVE  Unknown(ss, u, l, n + 1)
<1>1. n + 1 \notin 1 .. n
  OBVIOUS
<1>2. QED
  BY <1>1 DEF Placed

\* What the records of packets tell apart.
LEMMA WholeOrRemains ==
    /\ \A a, b : Whole(a) = Whole(b) => a = b
    /\ \A a, b : Remains(a) = Remains(b) => a = b
    /\ \A a, b : Whole(a) # Remains(b)
    /\ \A a : Whole(a).id = a /\ Remains(a).id = a
<1>1. \A a : Whole(a).id = a /\ Remains(a).id = a /\ Whole(a).intact = TRUE /\ Remains(a).intact = FALSE
  BY DEF Whole, Remains
<1>2. QED
  BY <1>1

\* Where the packet id is captured, if it is captured as the k-th of session s and
\* nowhere else.
LEMMA KnownCaptured ==
    ASSUME NEW rw, NEW ss, NEW u, NEW l, NEW id, NEW s, NEW k,
           \A t, i : IsCaptured(ss, Whole(id), t, i) <=> t = s /\ i = k,
           \A j : ~IsSent(u, Whole(id), j), id \notin l, ~IsDropped(rw, ss, s, k),
           HasRemains(ss, u, id) => k <= ss[s].reads
    PROVE  Known(rw, ss, u, l, id)
<1>1. OncePlaced(rw, ss, u, l, id)
  BY DEF OncePlaced
<1>2. HasRemains(ss, u, id) => MovedAway(ss, u, id)
  BY DEF MovedAway
<1>3. QED
  BY <1>1, <1>2 DEF Known

\* The raw_state of e is there before and after.
LEMMA SameTouched ==
    ASSUME NEW rw, NEW ss, NEW e \in DOMAIN rw, NEW rw2, NEW ss2, Touched(rw, ss, e, rw2, ss2),
           \A i \in DOMAIN ss[rw[e].sid].captured : i <= ss[rw[e].sid].reads => i <= ss2[rw[e].sid].reads,
           NEW id,
           \A s, i : /\ IsCaptured(ss2, Whole(id), s, i) <=> IsCaptured(ss, Whole(id), s, i)
                     /\ IsCaptured(ss2, Remains(id), s, i) <=> IsCaptured(ss, Remains(id), s, i),
           NEW u, NEW l
    PROVE  SameOf(rw, ss, u, l, rw2, ss2, u, l, id)
<1> DEFINE t == rw[e].sid
<1>1. /\ DOMAIN rw2 = DOMAIN rw /\ \A f \in DOMAIN rw : rw2[f].sid = rw[f].sid
      /\ \A s \in DOMAIN ss : s # t => ss2[s] = ss[s]
  BY DEF Touched
<1>2. HasRemains(ss2, u, id) <=> HasRemains(ss, u, id)
  BY DEF HasRemains
<1>3. ASSUME NEW s, NEW i, IsCaptured(ss, Whole(id), s, i)
      PROVE  /\ IsDropped(rw2, ss2, s, i) <=> IsDropped(rw, ss, s, i)
             /\ i <= ss[s].reads => i <= ss2[s].reads
  <2>1. s \in DOMAIN ss /\ i \in DOMAIN ss[s].captured
    BY <1>3 DEF IsCaptured
  <2>2. CASE s = t
    <3>1. ~IsDropped(rw2, ss2, s, i) /\ ~IsDropped(rw, ss, s, i)
      BY <1>1, <2>2 DEF IsDropped
    <3>2. QED
      BY <2>1, <2>2, <3>1
  <2>3. CASE s # t
    BY <1>1, <2>1, <2>3 DEF IsDropped
  <2>4. QED
    BY <2>2, <2>3
<1>4. QED
  BY <1>2, <1>3 DEF SameOf, SameWhole

\* p is captured as the k-th packet of session s.
CapturedAt(ss, ss2, p, s, k) ==
    \A x, t, i : IsCaptured(ss2, x, t, i) <=> IsCaptured(ss, x, t, i) \/ (x = p /\ t = s /\ i = k)

\* The packet pkt has been appended to the captured packets of session s.
LEMMA AppendCaptures ==
    ASSUME NEW n \in Nat, NEW ss \in Seq(SessionOf(n)), NEW s \in DOMAIN ss, NEW ss2,
           DOMAIN ss2 = DOMAIN ss, \A t \in DOMAIN ss : t # s => ss2[t] = ss[t],
           NEW pkt \in PacketOf(n), ss2[s] = WithPacket(ss[s], pkt)
    PROVE  CapturedAt(ss, ss2, pkt, s, Len(ss[s].captured) + 1) /\ ss2[s].reads = ss[s].reads
<1> DEFINE o == ss[s].captured
           p == Append(o, pkt)
           N == Len(o) + 1
<1>1. o \in Seq(PacketOf(n)) /\ ss2[s].captured = p /\ ss2[s].reads = ss[s].reads
  <2>1. ss[s] \in SessionOf(n)
    OBVIOUS
  <2>2. QED
    BY <2>1 DEF SessionOf, WithPacket
<1>2. /\ Len(o) \in Nat /\ DOMAIN o = 1 .. Len(o) /\ DOMAIN p = 1 .. N /\ p[N] = pkt
      /\ \A i \in DOMAIN o : p[i] = o[i]
  BY <1>1, AppendProperties, LenProperties
<1>3. DOMAIN p = DOMAIN o \cup {N} /\ N \notin DOMAIN o
  <2> HIDE DEF p, o
  <2>1. QED
    BY ONLY <1>2
<1> HIDE DEF N, p
<1>4. \A x, i : IsCaptured(ss2, x, s, i) <=> IsCaptured(ss, x, s, i) \/ (x = pkt /\ i = N)
  BY <1>1, <1>2, <1>3 DEF IsCaptured
<1>5. \A x, t, i : t # s => (IsCaptured(ss2, x, t, i) <=> IsCaptured(ss, x, t, i))
  BY DEF IsCaptured
<1>6. QED
  BY <1>1, <1>4, <1>5 DEF CapturedAt, N

\* The packet n + 1 has been appended to the session of a raw_state.
LEMMA PlacedCaptured ==
    ASSUME NEW rw, NEW ss, NEW u, NEW l, NEW n \in Nat, Placed(rw, ss, u, l, n),
           NEW e \in DOMAIN rw, NEW rw2, NEW ss2, Touched(rw, ss, e, rw2, ss2),
           ss2[rw[e].sid].reads = ss[rw[e].sid].reads,
           NEW k, CapturedAt(ss, ss2, Whole(n + 1), rw[e].sid, k)
    PROVE  Placed(rw2, ss2, u, l, n + 1)
<1> DEFINE s == rw[e].sid
           p == Whole(n + 1)
<1>1. Unknown(ss, u, l, n + 1)
  BY NextUnknown
<1>2. \A x, t, i : x # p => (IsCaptured(ss2, x, t, i) <=> IsCaptured(ss, x, t, i))
  BY DEF CapturedAt
<1>3. \A id : id # n + 1 => SameOf(rw, ss, u, l, rw2, ss2, u, l, id)
  <2> SUFFICES ASSUME NEW id, id # n + 1 PROVE SameOf(rw, ss, u, l, rw2, ss2, u, l, id)
    OBVIOUS
  <2>1. Whole(id) # p /\ Remains(id) # p
    BY WholeOrRemains
  <2>2. \A t, i : /\ IsCaptured(ss2, Whole(id), t, i) <=> IsCaptured(ss, Whole(id), t, i)
                  /\ IsCaptured(ss2, Remains(id), t, i) <=> IsCaptured(ss, Remains(id), t, i)
    BY <1>2, <2>1
  <2> HIDE DEF p
  <2>3. QED
    BY <2>2, SameTouched
<1>4. Known(rw2, ss2, u, l, n + 1)
  <2>1. \A t, i : IsCaptured(ss2, p, t, i) <=> t = s /\ i = k
    BY <1>1 DEF CapturedAt, Unknown
  <2>2. ~HasRemains(ss2, u, n + 1)
    <3>1. Remains(n + 1) # p
      BY WholeOrRemains
    <3>2. \A t, i : ~IsCaptured(ss2, Remains(n + 1), t, i)
      BY <1>1, <1>2, <3>1 DEF Unknown, HasRemains
    <3>3. QED
      BY <1>1, <3>2 DEF Unknown, HasRemains
  <2>3. ~IsDropped(rw2, ss2, s, k)
    BY DEF IsDropped, Touched
  <2>4. n + 1 \notin l /\ \A j : ~IsSent(u, p, j)
    BY <1>1 DEF Unknown
  <2> HIDE DEF s
  <2>5. QED
    BY <2>1, <2>2, <2>3, <2>4, KnownCaptured
<1>5. QED
  BY <1>3, <1>4, PlacedArrives

\* Completions of reads have been posted, and nothing else.
Posts(io, io2) ==
    /\ \A k \in DOMAIN io : k \in DOMAIN io2 /\ io2[k] = io[k]
    /\ \A k \in DOMAIN io2 : k \in DOMAIN io \/ io2[k].run = "read"

\* tcp::async_wait keeps what is known of the captured packets.
LEMMA WaitCaptures ==
    ASSUME NEW rw, NEW io, NEW ss, NEW d, NEW n \in Nat, NEW u, NEW l, Captures(rw, io, ss, d, n, u, l),
           NEW e \in DOMAIN rw, NEW c, WaitIs(rw, io, ss, e, c)
    PROVE  Captures(c.raw, c.ioq, c.session, d, n, u, l) /\ Posts(io, c.ioq)
<1> DEFINE st == rw[e]
           s  == st.sid
           x  == ss[s]
           x2 == WithRead(x)
           read == NextRead(st, x)
<1>1. Core(rw, io, ss, d, n) /\ Placed(rw, ss, u, l, n)
  BY DEF Captures
<1>2. st \in RawOf(ss, n) /\ ss \in Seq(SessionOf(n))
  BY <1>1 DEF Core, PartsTyped
<1>3. s \in DOMAIN ss /\ x \in SessionOf(n) /\ RawIs(e, st, x)
  BY <1>1, <1>2 DEF Core, RawKnown, RawOf
<1>4. /\ x2.captured = x.captured
      /\ \A i \in DOMAIN x.captured : i <= x.reads => i <= x2.reads
  <2>1. x2.captured = x.captured /\ x2.reads = x.reads + 1 /\ x.reads \in Nat
    BY <1>3 DEF SessionOf, WithRead
  <2>2. DOMAIN x.captured = 1 .. Len(x.captured) /\ Len(x.captured) \in Nat
    BY <1>3, SessionParts
  <2> HIDE DEF x2, x
  <2>3. QED
    BY <2>1, <2>2
<1>5. c.session = [ss EXCEPT ![s] = x2]
  BY DEF WaitIs
<1>6. ASSUME NEW st2, Changed(rw, ss, n, e, st2, x2, c.raw, c.session)
      PROVE  Placed(c.raw, c.session, u, l, n)
  <2>1. Touched(rw, ss, e, c.raw, c.session) /\ c.session[s] = x2
    BY <1>3, <1>6, ChangeTouches
  <2>3. DOMAIN c.session = DOMAIN ss /\ \A t \in DOMAIN ss : t # s => c.session[t] = ss[t]
    BY <2>1 DEF Touched
  <2> DEFINE ss2 == c.session
  <2> HIDE DEF ss2, x2
  <2>4. \A t \in DOMAIN ss : ss2[t].captured = ss[t].captured
    BY <1>4, <2>1, <2>3 DEF ss2
  <2>5. \A p, t, i : IsCaptured(ss2, p, t, i) <=> IsCaptured(ss, p, t, i)
    BY <2>3, <2>4 DEF IsCaptured, ss2
  <2>6. Touched(rw, ss, e, c.raw, ss2)
        /\ \A i \in DOMAIN ss[rw[e].sid].captured : i <= ss[rw[e].sid].reads => i <= ss2[rw[e].sid].reads
    BY <1>4, <2>1 DEF ss2
  <2>7. \A id : SameOf(rw, ss, u, l, c.raw, ss2, u, l, id)
    <3> SUFFICES ASSUME NEW id PROVE SameOf(rw, ss, u, l, c.raw, ss2, u, l, id)
      OBVIOUS
    <3>1. QED
      BY <2>5, <2>6, SameTouched
  <2>8. QED
    BY <1>1, <2>7, PlacedKept DEF ss2
<1>7. CASE st.pq # <<>>
  <2> DEFINE st2 == Taken(st)
             h == ReadHandler(read, Head(st.pq))
  <2>1. c.raw = [rw EXCEPT ![e] = st2] /\ c.ioq = Append(io, h)
    BY <1>7 DEF WaitIs
  <2>2. Moved(e, ss, n, st, x, st2, x2) /\ PairMade(n, x, x2, x.reads + 1, Head(st.pq))
    BY <1>2, <1>3, <1>7, ReadTakes
  <2>3. h.run = "read" /\ h.read = read /\ h.pkt = Head(st.pq)
    BY DEF ReadHandler
  <2>4. h \in HandlerOf(ss, n)
    <3>1. read \in ReadOf(ss)
      BY <1>3, SessionParts DEF ReadOf, NextRead
    <3>2. Head(st.pq) \in PacketOf(n)
      BY <2>2 DEF PairMade
    <3>3. QED
      BY <3>1, <3>2 DEF HandlerOf, ReadHandler
  <2> HIDE DEF st2, x2, h
  <2>5. Changed(rw, ss, n, e, st2, x2, c.raw, c.session)
    BY <1>1, <1>5, <2>1, <2>2, MovedIsChange
  <2>6. Core(c.raw, c.ioq, c.session, d, n)
    <3>1. /\ Pairs(x2) = Pairs(ss[st2.sid]) + 1 /\ h.pkt = x2.captured[Pairs(x2)]
          /\ read = [sid |-> st2.sid, nr |-> Pairs(x2)]
      BY <2>2, <2>3 DEF Moved, PairMade, NextRead
    <3> HIDE DEF read, x, s, st
    <3>2. Core(c.raw, Append(io, h), c.session, d, n)
      BY <1>1, <2>3, <2>4, <2>5, <3>1, PostCore
    <3>3. QED
      BY <2>1, <3>2
  <2>7. Posts(io, c.ioq)
    <3>1. io \in Seq(HandlerOf(ss, n))
      BY <1>1 DEF Core, PartsTyped
    <3>2. IsAppend(io, h, c.ioq)
      BY <2>1, <3>1, AppendIs
    <3>3. QED
      BY <2>3, <3>2 DEF Posts, IsAppend
  <2>8. QED
    BY <1>6, <2>5, <2>6, <2>7 DEF Captures
<1>8. CASE st.pq = <<>>
  <2> DEFINE st2 == Waiting(st, read)
  <2>1. c.raw = [rw EXCEPT ![e] = st2] /\ c.ioq = io
    BY <1>8 DEF WaitIs
  <2>2. Moved(e, ss, n, st, x, st2, x2) /\ Pairs(x2) = Pairs(x)
    BY <1>2, <1>3, <1>8, ReadWaits
  <2> HIDE DEF st2, x2
  <2>3. Changed(rw, ss, n, e, st2, x2, c.raw, c.session)
    BY <1>1, <1>5, <2>1, <2>2, MovedIsChange
  <2>4. Pairs(x2) = Pairs(ss[st2.sid])
    BY <2>2 DEF Moved
  <2>5. Core(c.raw, io, c.session, d, n)
    BY <1>1, <2>3, <2>4, KeepCore
  <2>6. QED
    BY <1>6, <2>1, <2>3, <2>5 DEF Captures, Posts
<1>9. QED
  BY <1>7, <1>8

-----------------------------------------------------------------------------
(* What the calls do to the packets that leave *)

\* The handlers of enqueue are finitely many.
LEMMA EnqueueFinite ==
    ASSUME NEW S, NEW io \in Seq(S), NEW k
    PROVE  /\ EnqueueAt(io) \subseteq Nat \ {0} /\ EnqueueBefore(io, k) \subseteq Nat \ {0}
           /\ IsFiniteSet(EnqueueAt(io)) /\ IsFiniteSet(EnqueueBefore(io, k))
           /\ Cardinality(EnqueueAt(io)) \in Nat /\ Cardinality(EnqueueBefore(io, k)) \in Nat
<1>1. Len(io) \in Nat /\ DOMAIN io = 1 .. Len(io)
  BY LenProperties
<1>2. IsFiniteSet(DOMAIN io) /\ DOMAIN io \subseteq Nat \ {0}
  <2>1. 1 \in Int /\ Len(io) \in Int
    BY <1>1
  <2>2. IsFiniteSet(1 .. Len(io))
    BY <2>1, FS_Interval
  <2>3. QED
    BY <1>1, <2>2
<1>3. EnqueueAt(io) \in SUBSET DOMAIN io /\ EnqueueBefore(io, k) \in SUBSET DOMAIN io
  BY DEF EnqueueAt, EnqueueBefore
<1>4. IsFiniteSet(EnqueueAt(io)) /\ IsFiniteSet(EnqueueBefore(io, k))
  BY <1>2, <1>3, FS_Subset
<1>5. QED
  BY <1>2, <1>3, <1>4, FS_CardinalityType

\* A handler is posted.
LEMMA EnqueueAppend ==
    ASSUME NEW S, NEW io \in Seq(S), NEW h, NEW io2, IsAppend(io, h, io2)
    PROVE  /\ \A k \in DOMAIN io : EnqueueBefore(io2, k) = EnqueueBefore(io, k)
           /\ EnqueueBefore(io2, Len(io) + 1) = EnqueueAt(io)
           /\ Cardinality(EnqueueAt(io2))
                = IF h.run = "enqueue" THEN Cardinality(EnqueueAt(io)) + 1 ELSE Cardinality(EnqueueAt(io))
<1> DEFINE N == Len(io) + 1
<1>1. /\ DOMAIN io2 = DOMAIN io \cup {N} /\ N \notin DOMAIN io /\ io2[N] = h /\ N \in Nat
      /\ \A i \in DOMAIN io : i \in Nat /\ i < N /\ io2[i] = io[i]
  BY DEF IsAppend
<1> HIDE DEF N
<1>2. \A i : i \in EnqueueAt(io2) <=> i \in EnqueueAt(io) \/ (i = N /\ h.run = "enqueue")
  BY <1>1 DEF EnqueueAt
<1>3. \A k \in DOMAIN io : EnqueueBefore(io2, k) = EnqueueBefore(io, k)
  BY <1>1, <1>2 DEF EnqueueBefore
<1>4. EnqueueBefore(io2, N) = EnqueueAt(io)
  <2>1. \A i \in EnqueueAt(io) : i < N
    BY <1>1 DEF EnqueueAt
  <2>2. ~(N < N)
    BY <1>1
  <2>3. QED
    BY <1>2, <2>1, <2>2 DEF EnqueueBefore
<1>5. CASE h.run = "enqueue"
  <2>1. EnqueueAt(io2) = EnqueueAt(io) \cup {N} /\ N \notin EnqueueAt(io)
    BY <1>1, <1>2, <1>5 DEF EnqueueAt
  <2>2. Cardinality(EnqueueAt(io2)) = Cardinality(EnqueueAt(io)) + 1
    BY <2>1, EnqueueFinite, FS_AddElement
  <2>3. QED
    BY <1>3, <1>4, <1>5, <2>2 DEF N
<1>6. CASE h.run # "enqueue"
  <2>1. EnqueueAt(io2) = EnqueueAt(io)
    BY <1>2, <1>6
  <2>2. QED
    BY <1>3, <1>4, <1>6, <2>1 DEF N
<1>7. QED
  BY <1>5, <1>6

\* The front of the posted handlers is taken: one less if it is that of enqueue.
FrontEnqueue(io) == IF Head(io).run = "enqueue" THEN 1 ELSE 0

\* Handlers of enqueue in the tail of the posted handlers.
LEMMA EnqueueTail ==
    ASSUME NEW S, NEW io \in Seq(S), io # <<>>, NEW io2, io2 = Tail(io)
    PROVE  /\ Cardinality(EnqueueAt(io2)) = Cardinality(EnqueueAt(io)) - FrontEnqueue(io)
           /\ \A k \in DOMAIN io2 :
                Cardinality(EnqueueBefore(io2, k)) = Cardinality(EnqueueBefore(io, k + 1)) - FrontEnqueue(io)
<1>1. IsTail(io, io2) /\ Head(io) = io[1]
  BY TailIs
<1>2. /\ 1 \in DOMAIN io
      /\ \A i \in DOMAIN io2 : i \in Nat \ {0} /\ i + 1 \in DOMAIN io /\ io2[i] = io[i + 1]
      /\ \A i \in DOMAIN io : i \in Nat \ {0} /\ (i # 1 => i - 1 \in DOMAIN io2 /\ io2[i - 1] = io[i])
  BY <1>1 DEF IsTail
<1>3. 1 \in EnqueueAt(io) <=> Head(io).run = "enqueue"
  BY <1>1, <1>2 DEF EnqueueAt
<1>4. \A i : i \in EnqueueAt(io2) <=> i \in Nat \ {0} /\ i + 1 \in EnqueueAt(io)
  <2>1. \A i \in Nat \ {0} : i + 1 \in DOMAIN io => i \in DOMAIN io2 /\ io2[i] = io[i + 1]
    <3> SUFFICES ASSUME NEW i \in Nat \ {0}, i + 1 \in DOMAIN io
                 PROVE  i \in DOMAIN io2 /\ io2[i] = io[i + 1]
      OBVIOUS
    <3>1. i + 1 # 1 /\ (i + 1) - 1 = i
      OBVIOUS
    <3>2. QED
      BY <1>2, <3>1
  <2>2. QED
    BY <1>2, <2>1 DEF EnqueueAt
<1>5. EnqueueAt(io2) = {i \in Nat \ {0} : i + 1 \in EnqueueAt(io)}
  BY <1>4
<1>6. Cardinality(EnqueueAt(io2)) = Cardinality(EnqueueAt(io)) - FrontEnqueue(io)
  <2>1. EnqueueAt(io) \in SUBSET (Nat \ {0}) /\ IsFiniteSet(EnqueueAt(io)) /\ Cardinality(EnqueueAt(io)) \in Nat
    BY EnqueueFinite
  <2>2. QED
    BY <1>3, <1>5, <2>1, TailPositions DEF FrontEnqueue
<1>7. ASSUME NEW k \in DOMAIN io2
      PROVE  Cardinality(EnqueueBefore(io2, k)) = Cardinality(EnqueueBefore(io, k + 1)) - FrontEnqueue(io)
  <2> DEFINE B == EnqueueBefore(io, k + 1)
  <2>1. k \in Nat \ {0}
    BY <1>2
  <2>2. \A i \in Nat : i < k <=> i + 1 < k + 1
    BY <2>1
  <2>3. EnqueueBefore(io2, k) = {i \in Nat \ {0} : i + 1 \in B}
    BY <1>4, <2>2 DEF EnqueueBefore
  <2>4. 1 \in B <=> Head(io).run = "enqueue"
    BY <1>3, <2>1 DEF EnqueueBefore
  <2>5. B \in SUBSET (Nat \ {0}) /\ IsFiniteSet(B) /\ Cardinality(B) \in Nat
    BY EnqueueFinite
  <2> HIDE DEF B
  <2>6. Cardinality(EnqueueBefore(io2, k)) = Cardinality(B) - FrontEnqueue(io)
    BY <2>3, <2>4, <2>5, TailPositions DEF FrontEnqueue
  <2>7. QED
    BY <2>6 DEF B
<1>8. QED
  BY <1>6, <1>7

\* A handler that is neither is posted.
LEMMA LeavePosts ==
    ASSUME NEW S, NEW io \in Seq(S), NEW qq, NEW dn, NEW wr, LeaveKnown(io, qq, dn, wr),
           NEW io2, Posts(io, io2)
    PROVE  LeaveKnown(io2, qq, dn, wr)
<1>1. EnqueueAt(io2) = EnqueueAt(io)
  BY DEF Posts, EnqueueAt
<1>2. \A k : EnqueueBefore(io2, k) = EnqueueBefore(io, k)
  BY <1>1 DEF EnqueueBefore
<1>3. \A k \in DOMAIN io2 : io2[k].run = "written" => k \in DOMAIN io /\ io2[k] = io[k]
  BY DEF Posts
<1>4. \A k \in DOMAIN io2 : io2[k].run = "written" =>
        io2[k].pkt \in 1 .. Len(dn) + Cardinality(EnqueueBefore(io2, k))
  BY <1>2, <1>3 DEF LeaveKnown
<1>5. QED
  BY <1>1, <1>4 DEF LeaveKnown

\* The completion of a read is taken.
LEMMA LeaveRead ==
    ASSUME NEW S, NEW io \in Seq(S), io # <<>>, Head(io).run # "enqueue",
           NEW qq, NEW dn \in Seq(Nat), NEW wr, LeaveKnown(io, qq, dn, wr)
    PROVE  LeaveKnown(Tail(io), qq, dn, wr)
<1> DEFINE io2 == Tail(io)
<1>1. /\ Cardinality(EnqueueAt(io2)) = Cardinality(EnqueueAt(io)) - FrontEnqueue(io)
      /\ \A k \in DOMAIN io2 :
            Cardinality(EnqueueBefore(io2, k)) = Cardinality(EnqueueBefore(io, k + 1)) - FrontEnqueue(io)
  BY EnqueueTail
<1>2. IsTail(io, io2)
  BY TailIs
<1> HIDE DEF io2
<1>3. /\ Cardinality(EnqueueAt(io2)) = Cardinality(EnqueueAt(io))
      /\ \A k \in DOMAIN io2 : Cardinality(EnqueueBefore(io2, k)) = Cardinality(EnqueueBefore(io, k + 1))
  <2>1. FrontEnqueue(io) = 0
    BY DEF FrontEnqueue
  <2>2. Cardinality(EnqueueAt(io)) \in Nat /\ \A k : Cardinality(EnqueueBefore(io, k)) \in Nat
    BY EnqueueFinite
  <2>3. \A x \in Nat : x - 0 = x
    OBVIOUS
  <2>4. QED
    BY <1>1, <2>1, <2>2, <2>3, Zenon
<1>4. \A k \in DOMAIN io2 : k + 1 \in DOMAIN io /\ io2[k] = io[k + 1]
  BY <1>2 DEF IsTail
<1>5. \A k \in DOMAIN io2 : io2[k].run = "written" =>
        io2[k].pkt \in 1 .. Len(dn) + Cardinality(EnqueueBefore(io2, k))
  BY <1>3, <1>4 DEF LeaveKnown
<1>6. QED
  BY <1>3, <1>5 DEF LeaveKnown, io2

\* The completion of a write runs: nothing of enqueue is in front of it.
LEMMA LeaveWritten ==
    ASSUME NEW S, NEW io \in Seq(S), io # <<>>, Head(io).run = "written",
           NEW qq, NEW dn \in Seq(Nat), NEW wr \in Seq(Nat), LeaveKnown(io, qq, dn, wr)
    PROVE  LeaveKnown(Tail(io), qq, dn, Append(wr, Head(io).pkt))
<1> DEFINE wr2 == Append(wr, Head(io).pkt)
<1>1. LeaveKnown(Tail(io), qq, dn, wr)
  BY LeaveRead
<1>2. 1 \in DOMAIN io /\ Head(io) = io[1]
  BY TailIs DEF IsTail
<1>3. Head(io).pkt \in 1 .. Len(dn)
  <2>1. EnqueueBefore(io, 1) = {}
    <3>1. \A i \in EnqueueAt(io) : i \in Nat \ {0}
      BY EnqueueFinite
    <3>2. QED
      BY <3>1 DEF EnqueueBefore
  <2>2. Cardinality(EnqueueBefore(io, 1)) = 0
    BY <2>1, FS_EmptySet
  <2>3. io[1].pkt \in 1 .. Len(dn) + Cardinality(EnqueueBefore(io, 1))
    BY <1>2 DEF LeaveKnown
  <2>4. Len(dn) \in Nat
    BY LenProperties
  <2>5. QED
    BY <1>2, <2>2, <2>3, <2>4
<1>4. IsAppend(wr, Head(io).pkt, wr2)
  BY AppendIs
<1> HIDE DEF wr2
<1>5. \A i \in DOMAIN wr2 : wr2[i] \in 1 .. Len(dn)
  BY <1>1, <1>3, <1>4 DEF IsAppend, LeaveKnown
<1>6. QED
  BY <1>1, <1>5 DEF LeaveKnown, wr2

\* The handler of enqueue runs.
LEMMA LeaveEnqueue ==
    ASSUME NEW S, NEW io \in Seq(S), io # <<>>, Head(io).run = "enqueue",
           NEW qq \in Seq(Nat), NEW dn \in Seq(Nat), NEW wr \in Seq(Nat), LeaveKnown(io, qq, dn, wr)
    PROVE  qq # <<>> /\ LeaveKnown(Tail(io), Tail(qq), Append(dn, Head(qq)), wr)
<1> DEFINE io2 == Tail(io)
           q2 == Tail(qq)
           dn2 == Append(dn, Head(qq))
           a == Cardinality(EnqueueAt(io))
<1>1. /\ Cardinality(EnqueueAt(io2)) = a - 1
      /\ \A k \in DOMAIN io2 :
            Cardinality(EnqueueBefore(io2, k)) = Cardinality(EnqueueBefore(io, k + 1)) - 1
  <2>1. FrontEnqueue(io) = 1
    BY DEF FrontEnqueue
  <2>2. /\ Cardinality(EnqueueAt(io2)) = a - FrontEnqueue(io)
        /\ \A k \in DOMAIN io2 :
            Cardinality(EnqueueBefore(io2, k)) = Cardinality(EnqueueBefore(io, k + 1)) - FrontEnqueue(io)
    BY EnqueueTail
  <2>3. QED
    BY <2>1, <2>2
<1>2. IsTail(io, io2)
  BY TailIs
<1>3. a \in Nat /\ Cardinality(EnqueueAt(io2)) \in Nat
  BY EnqueueFinite, TailIs
<1>4. a = Len(qq) /\ Len(dn) \in Nat
  BY LenProperties DEF LeaveKnown
<1>5. qq # <<>>
  <2>1. Len(qq) # 0
    BY <1>1, <1>3, <1>4
  <2>2. QED
    BY <2>1, EmptySeq
<1>6. IsTail(qq, q2) /\ Head(qq) = qq[1]
  BY <1>5, TailIs
<1>7. IsAppend(dn, Head(qq), dn2)
  BY AppendIs
<1>8. Head(qq) = Len(dn) + 1
  BY <1>6 DEF IsTail, LeaveKnown
<1> HIDE DEF io2, q2, dn2, a
<1>9. Len(dn2) = Len(dn) + 1 /\ Len(q2) = Len(qq) - 1
  BY <1>6, <1>7 DEF IsTail, IsAppend
<1>10. \A i \in DOMAIN dn2 : dn2[i] = i
  BY <1>7, <1>8 DEF IsAppend, LeaveKnown
<1>11. \A i \in DOMAIN q2 : q2[i] = Len(dn2) + i
  <2> SUFFICES ASSUME NEW i \in DOMAIN q2 PROVE q2[i] = Len(dn2) + i
    OBVIOUS
  <2>1. i \in Nat /\ i + 1 \in DOMAIN qq /\ q2[i] = qq[i + 1]
    BY <1>6 DEF IsTail
  <2>2. qq[i + 1] = Len(dn) + (i + 1)
    BY <2>1 DEF LeaveKnown
  <2>3. Len(dn) \in Nat /\ Len(dn2) = Len(dn) + 1
    BY <1>9, LenProperties
  <2>4. \A x, y \in Nat : x + (y + 1) = x + 1 + y
    OBVIOUS
  <2>5. QED
    BY <2>1, <2>2, <2>3, <2>4, Zenon
<1>12. Cardinality(EnqueueAt(io2)) = Len(q2)
  BY <1>1, <1>4, <1>9
<1>13. ASSUME NEW k \in DOMAIN io2, io2[k].run = "written"
       PROVE  io2[k].pkt \in 1 .. Len(dn2) + Cardinality(EnqueueBefore(io2, k))
  <2>1. k + 1 \in DOMAIN io /\ io2[k] = io[k + 1]
    BY <1>2 DEF IsTail
  <2>2. io[k + 1].pkt \in 1 .. Len(dn) + Cardinality(EnqueueBefore(io, k + 1))
    BY <1>13, <2>1 DEF LeaveKnown
  <2>3. Cardinality(EnqueueBefore(io, k + 1)) \in Nat
    BY EnqueueFinite
  <2>4. Len(dn2) + Cardinality(EnqueueBefore(io2, k)) = Len(dn) + Cardinality(EnqueueBefore(io, k + 1))
    BY <1>1, <1>4, <1>9, <2>3
  <2>5. QED
    BY <2>1, <2>2, <2>4
<1>14. \A i \in DOMAIN wr : wr[i] \in 1 .. Len(dn2)
  <2>1. \A i \in DOMAIN wr : wr[i] \in 1 .. Len(dn)
    BY DEF LeaveKnown
  <2>2. 1 .. Len(dn) \subseteq 1 .. Len(dn2)
    BY <1>4, <1>9
  <2>3. QED
    BY <2>1, <2>2
<1>15. LeaveKnown(io2, q2, dn2, wr)
  BY <1>10, <1>11, <1>12, <1>13, <1>14 DEF LeaveKnown
<1>16. QED
  BY <1>5, <1>15 DEF io2, q2, dn2

\* A packet is queued and its handler posted.
LEMMA LeaveSend ==
    ASSUME NEW S, NEW io \in Seq(S), NEW h, h.run = "enqueue",
           NEW qq \in Seq(Nat), NEW dn \in Seq(Nat), NEW wr, LeaveKnown(io, qq, dn, wr)
    PROVE  /\ LeaveKnown(Append(io, h), Append(qq, Len(dn) + Len(qq) + 1), dn, wr)
           /\ Len(dn) + Len(qq) + 1 \in 1 .. Len(dn) + Cardinality(EnqueueAt(Append(io, h)))
<1> DEFINE io2 == Append(io, h)
           nr == Len(dn) + Len(qq) + 1
           q2 == Append(qq, nr)
<1>1. IsAppend(io, h, io2) /\ IsAppend(qq, nr, q2)
  BY AppendIs
<1>2. Len(qq) \in Nat /\ Len(dn) \in Nat
  BY LenProperties
<1> HIDE DEF io2, q2
<1>3. /\ \A k \in DOMAIN io : EnqueueBefore(io2, k) = EnqueueBefore(io, k)
      /\ Cardinality(EnqueueAt(io2)) = Cardinality(EnqueueAt(io)) + 1
  BY <1>1, EnqueueAppend
<1>4. Cardinality(EnqueueAt(io2)) = Len(q2) /\ Len(q2) = Len(qq) + 1
  BY <1>1, <1>3 DEF IsAppend, LeaveKnown
<1>5. nr \in 1 .. Len(dn) + Cardinality(EnqueueAt(io2))
  BY <1>2, <1>4
<1>6. nr = Len(dn) + (Len(qq) + 1)
  BY <1>2
<1> HIDE DEF nr
<1>7. \A i \in DOMAIN q2 : q2[i] = Len(dn) + i
  BY <1>1, <1>6 DEF IsAppend, LeaveKnown
<1>8. \A k \in DOMAIN io2 : io2[k].run = "written" => k \in DOMAIN io /\ io2[k] = io[k]
  BY <1>1 DEF IsAppend
<1>9. \A k \in DOMAIN io2 : io2[k].run = "written" =>
            io2[k].pkt \in 1 .. Len(dn) + Cardinality(EnqueueBefore(io2, k))
  BY <1>3, <1>8 DEF LeaveKnown
<1>10. LeaveKnown(io2, q2, dn, wr)
  BY <1>4, <1>7, <1>9 DEF LeaveKnown
<1>11. QED
  BY <1>5, <1>10 DEF io2, q2, nr

\* The completion of a write is posted.
LEMMA LeaveComplete ==
    ASSUME NEW S, NEW io \in Seq(S), NEW h, h.run = "written",
           NEW qq, NEW dn \in Seq(Nat), NEW wr, LeaveKnown(io, qq, dn, wr),
           h.pkt \in 1 .. Len(dn) + Cardinality(EnqueueAt(io))
    PROVE  LeaveKnown(Append(io, h), qq, dn, wr)
<1> DEFINE io2 == Append(io, h)
<1>1. IsAppend(io, h, io2)
  BY AppendIs
<1> HIDE DEF io2
<1>2. /\ \A k \in DOMAIN io : EnqueueBefore(io2, k) = EnqueueBefore(io, k)
      /\ EnqueueBefore(io2, Len(io) + 1) = EnqueueAt(io)
      /\ Cardinality(EnqueueAt(io2)) = Cardinality(EnqueueAt(io))
  BY <1>1, EnqueueAppend
<1>3. \A k \in DOMAIN io2 : (k \in DOMAIN io /\ io2[k] = io[k]) \/ (k = Len(io) + 1 /\ io2[k] = h)
  BY <1>1 DEF IsAppend
<1>4. \A k \in DOMAIN io2 : io2[k].run = "written" =>
            io2[k].pkt \in 1 .. Len(dn) + Cardinality(EnqueueBefore(io2, k))
  BY <1>2, <1>3 DEF LeaveKnown
<1>5. QED
  BY <1>2, <1>4 DEF LeaveKnown, io2

-----------------------------------------------------------------------------
(* The calls and the handlers, as steps *)

\* What a call leaves behind.
Committed(rw, io, ss) == raw' = rw /\ ioq' = io /\ session' = ss /\ events' <= MaxEvents

\* Commit leaves the parts behind.
LEMMA CommitIs ==
    ASSUME NEW rw, NEW io, NEW ss, NEW ev, Commit(Parts(rw, io, ss, ev))
    PROVE  Committed(rw, io, ss)
BY DEF Commit, Parts, Committed

\* A call has been made, or one and tcp::async_wait.
Good(d, n, u, l, qq, dn, wr) ==
    /\ Captures(raw', ioq', session', d, n, u, l)
    /\ LeaveKnown(ioq', qq, dn, wr)
    /\ events' <= MaxEvents

\* tcp::async_wait keeps what is known of captured and of leaving packets.
LEMMA WaitGood ==
    ASSUME NEW rw, NEW io, NEW ss, NEW ev, NEW d, NEW n \in Nat, NEW u, NEW l, NEW qq, NEW dn, NEW wr,
           Captures(rw, io, ss, d, n, u, l), LeaveKnown(io, qq, dn, wr),
           NEW e \in DOMAIN rw, Commit(async_wait(Parts(rw, io, ss, ev), e))
    PROVE  Good(d, n, u, l, qq, dn, wr)
<1> DEFINE c == async_wait(Parts(rw, io, ss, ev), e)
<1>1. WaitIs(rw, io, ss, e, c)
  BY WaitFields
<1>2. raw' = c.raw /\ ioq' = c.ioq /\ session' = c.session /\ events' <= MaxEvents
  BY DEF Commit
<1> HIDE DEF c
<1>3. Captures(c.raw, c.ioq, c.session, d, n, u, l) /\ Posts(io, c.ioq)
  BY <1>1, WaitCaptures
<1>4. io \in Seq(HandlerOf(ss, n))
  BY DEF Captures, Core, PartsTyped
<1>5. LeaveKnown(c.ioq, qq, dn, wr)
  BY <1>3, <1>4, LeavePosts
<1>6. QED
  BY <1>2, <1>3, <1>5 DEF Good

\* So does a callback, in which the application may read again.
LEMMA CallbackGood ==
    ASSUME NEW rw, NEW io, NEW ss, NEW ev, NEW d, NEW n \in Nat, NEW u, NEW l, NEW qq, NEW dn, NEW wr,
           Captures(rw, io, ss, d, n, u, l), LeaveKnown(io, qq, dn, wr),
           NEW e, Callback(Parts(rw, io, ss, ev), e)
    PROVE  Good(d, n, u, l, qq, dn, wr)
<1>1. CASE Commit(Parts(rw, io, ss, ev))
  BY <1>1, CommitIs DEF Committed, Good
<1>2. CASE e \in DOMAIN rw /\ Commit(async_wait(Parts(rw, io, ss, ev), e))
  BY <1>2, WaitGood
<1>3. Parts(rw, io, ss, ev).raw = rw
  BY DEF Parts
<1>4. QED
  BY <1>1, <1>2, <1>3 DEF Callback

\* A raw_state is made: nothing changes for the packets it does not bring.
LEMMA EmplaceSame ==
    ASSUME NEW rw, NEW ss, NEW n, NEW e, NEW pq, NEW s, NEW rw2, NEW ss2,
           Emplaced(rw, ss, n, e, pq, s, rw2, ss2), e \notin DOMAIN rw, \A f \in DOMAIN rw : rw[f].sid \in DOMAIN ss,
           NEW u, NEW l, NEW id, \A i \in DOMAIN pq : pq[i] # Whole(id)
    PROVE  /\ SameWhole(rw, ss, u, l, rw2, ss2, u, l, id)
           /\ (\A i \in DOMAIN pq : pq[i] # Remains(id)) => SameOf(rw, ss, u, l, rw2, ss2, u, l, id)
<1>1. /\ DOMAIN ss2 = DOMAIN ss \cup {s} /\ s \notin DOMAIN ss /\ \A t \in DOMAIN ss : ss2[t] = ss[t]
      /\ ss2[s].captured = pq
      /\ DOMAIN rw2 = DOMAIN rw \cup {e} /\ \A f \in DOMAIN rw : rw2[f] = rw[f]
      /\ rw2[e].sid = s
  BY DEF Emplaced
<1>2. \A p : (\A i \in DOMAIN pq : pq[i] # p) =>
                \A t, i : IsCaptured(ss2, p, t, i) <=> IsCaptured(ss, p, t, i)
  BY <1>1 DEF IsCaptured
<1>3. ASSUME NEW t, NEW i, IsCaptured(ss, Whole(id), t, i)
      PROVE  /\ IsDropped(rw2, ss2, t, i) <=> IsDropped(rw, ss, t, i)
             /\ i <= ss[t].reads => i <= ss2[t].reads
  <2>1. t \in DOMAIN ss /\ t # s /\ ss2[t] = ss[t]
    BY <1>1, <1>3 DEF IsCaptured
  <2>2. (\A f \in DOMAIN rw2 : rw2[f].sid # t) <=> (\A f \in DOMAIN rw : rw[f].sid # t)
    BY <1>1, <2>1
  <2>3. QED
    BY <2>1, <2>2 DEF IsDropped
<1>4. SameWhole(rw, ss, u, l, rw2, ss2, u, l, id)
  BY <1>2, <1>3 DEF SameWhole
<1>5. (\A i \in DOMAIN pq : pq[i] # Remains(id)) => (HasRemains(ss2, u, id) <=> HasRemains(ss, u, id))
  BY <1>2 DEF HasRemains
<1>6. QED
  BY <1>4, <1>5 DEF SameOf

\* It brings no packet, the packet that arrives, or the remains of that packet.
LEMMA EmplaceCaptures ==
    ASSUME NEW rw, NEW io, NEW ss, NEW d, NEW n \in Nat, NEW u, NEW l,
           Core(rw, io, ss, d, n),
           NEW e \in Ends, e \notin DOMAIN rw, NEW pq \in Seq(PacketOf(n)),
           NEW m, Placed(rw, ss, u, l, m),
           \/ pq = <<>> /\ m = n
           \/ m \in Nat /\ n = m + 1 /\ pq = <<Whole(n)>>
           \/ n # 0 /\ m = n /\ pq = <<Remains(n)>> /\ MovedAway(ss, u, n)
    PROVE  Captures(RawPlus(rw, ss, e, pq), io, SessionPlus(ss, e, pq), d, n, u, l)
<1> DEFINE ss2 == SessionPlus(ss, e, pq)
           rw2 == RawPlus(rw, ss, e, pq)
           s == Len(ss) + 1
<1>1. ss \in Seq(SessionOf(n)) /\ \A f \in DOMAIN rw : rw[f].sid \in DOMAIN ss
  BY DEF Core, PartsTyped, RawOf
<1>2. Core(rw2, io, ss2, d, n)
  BY EmplaceCore
<1>3. Emplaced(rw, ss, n, e, pq, s, rw2, ss2)
  BY <1>1, PlusIs
<1> HIDE DEF ss2, rw2, s
<1>4. \A id : (\A i \in DOMAIN pq : pq[i] # Whole(id)) =>
        /\ SameWhole(rw, ss, u, l, rw2, ss2, u, l, id)
        /\ (\A i \in DOMAIN pq : pq[i] # Remains(id)) => SameOf(rw, ss, u, l, rw2, ss2, u, l, id)
  <2> SUFFICES ASSUME NEW id, \A i \in DOMAIN pq : pq[i] # Whole(id)
               PROVE  /\ SameWhole(rw, ss, u, l, rw2, ss2, u, l, id)
                      /\ (\A i \in DOMAIN pq : pq[i] # Remains(id)) => SameOf(rw, ss, u, l, rw2, ss2, u, l, id)
    OBVIOUS
  <2>1. QED
    BY <1>1, <1>3, EmplaceSame
<1>5. Placed(rw2, ss2, u, l, n)
  <2>1. CASE pq = <<>> /\ m = n
    <3>1. DOMAIN pq = {}
      BY <2>1
    <3>2. \A id : SameOf(rw, ss, u, l, rw2, ss2, u, l, id)
      BY <1>4, <3>1
    <3>3. QED
      BY <2>1, <3>2, PlacedKept
  <2>2. CASE m \in Nat /\ n = m + 1 /\ pq = <<Whole(n)>>
    <3>1. DOMAIN pq = {1} /\ pq[1] = Whole(n)
      BY <2>2
    <3>2. \A id : id # n => SameOf(rw, ss, u, l, rw2, ss2, u, l, id)
      BY <1>4, <3>1, WholeOrRemains
    <3>3. Unknown(ss, u, l, n)
      BY <2>2, NextUnknown
    <3>4. Known(rw2, ss2, u, l, n)
      <4>1. /\ DOMAIN ss2 = DOMAIN ss \cup {s} /\ s \notin DOMAIN ss /\ \A t \in DOMAIN ss : ss2[t] = ss[t]
            /\ ss2[s].captured = pq /\ e \in DOMAIN rw2 /\ rw2[e].sid = s
        BY <1>3 DEF Emplaced
      <4>2. \A p, t, i : IsCaptured(ss2, p, t, i) <=> IsCaptured(ss, p, t, i) \/ (p = Whole(n) /\ t = s /\ i = 1)
        BY <3>1, <4>1 DEF IsCaptured
      <4>3. \A t, i : IsCaptured(ss2, Whole(n), t, i) <=> t = s /\ i = 1
        BY <3>3, <4>2 DEF Unknown
      <4>4. ~HasRemains(ss2, u, n)
        BY <3>3, <4>2, WholeOrRemains DEF Unknown, HasRemains
      <4>5. ~IsDropped(rw2, ss2, s, 1)
        BY <4>1 DEF IsDropped
      <4>6. QED
        BY <3>3, <4>3, <4>4, <4>5, KnownCaptured DEF Unknown
    <3>5. QED
      BY <2>2, <3>2, <3>4, PlacedArrives
  <2>3. CASE n # 0 /\ m = n /\ pq = <<Remains(n)>> /\ MovedAway(ss, u, n)
    <3>1. DOMAIN pq = {1} /\ pq[1] = Remains(n)
      BY <2>3
    <3>2. \A id : id # n => SameOf(rw, ss, u, l, rw2, ss2, u, l, id)
      BY <1>4, <3>1, WholeOrRemains
    <3>3. SameWhole(rw, ss, u, l, rw2, ss2, u, l, n)
      BY <1>4, <3>1, WholeOrRemains
    <3>4. n \in Nat \ {0} /\ Placed(rw, ss, u, l, n)
      BY <2>3
    <3>5. QED
      BY <2>3, <3>2, <3>3, <3>4, PlacedRemains
  <2>4. QED
    BY <2>1, <2>2, <2>3
<1>6. QED
  BY <1>2, <1>5 DEF Captures, ss2, rw2

\* What is queued for e when it is detached are the packets beyond the reads.
LEMMA QueuedBeyond ==
    ASSUME NEW n \in Nat, NEW ss, NEW st \in RawOf(ss, n), NEW x \in SessionOf(n), NEW e, RawIs(e, st, x)
    PROVE  /\ \A i \in DOMAIN st.pq : /\ Pairs(x) + i \in DOMAIN x.captured /\ x.reads < Pairs(x) + i
                                      /\ st.pq[i] = x.captured[Pairs(x) + i]
           /\ \A i \in DOMAIN x.captured :
                x.reads < i => i - Pairs(x) \in DOMAIN st.pq /\ st.pq[i - Pairs(x)] = x.captured[i]
<1> DEFINE k == st.pq
           p == x.captured
           a == Pairs(x)
           N == Len(p)
           r == x.reads
<1>1. /\ N \in Nat /\ r \in Nat /\ a \in Nat /\ DOMAIN p = 1 .. N
      /\ a <= r /\ a <= N /\ (a = r \/ a = N)
  BY SessionParts
<1>2. Len(k) = N - a /\ \A i \in DOMAIN k : k[i] = p[a + i]
  BY DEF RawIs
<1>3. DOMAIN k = 1 .. Len(k)
  BY LenProperties DEF RawOf
<1> HIDE DEF k, p, a, N, r
<1>4. \A i \in 1 .. N - a : a + i \in 1 .. N /\ r < a + i
  BY <1>1
<1>5. \A i \in 1 .. N : r < i => i - a \in 1 .. N - a /\ a + (i - a) = i
  BY <1>1
<1>6. ASSUME NEW i \in DOMAIN k PROVE a + i \in DOMAIN p /\ r < a + i /\ k[i] = p[a + i]
  BY <1>1, <1>2, <1>3, <1>4, Zenon
<1>7. ASSUME NEW i \in DOMAIN p, r < i PROVE i - a \in DOMAIN k /\ k[i - a] = p[i]
  <2>1. i - a \in DOMAIN k /\ a + (i - a) = i
    BY <1>1, <1>2, <1>3, <1>5, <1>7, Zenon
  <2>2. QED
    BY <1>2, <2>1, Zenon
<1>8. QED
  BY <1>6, <1>7 DEF k, p, a, r

LostPlus(l, pq) == l \cup {pkt.id : pkt \in {p \in Range(pq) : p.intact}}

\* A packet is added to the lost ones if and only if it is in pq as a whole.
LEMMA LostPlusIs ==
    ASSUME NEW n, NEW pq \in Seq(PacketOf(n)), NEW l, NEW id
    PROVE  id \in LostPlus(l, pq) <=> id \in l \/ \E i \in DOMAIN pq : pq[i] = Whole(id)
<1>1. \A i \in DOMAIN pq : pq[i] \in PacketOf(n)
  OBVIOUS
<1>2. \A i \in DOMAIN pq : pq[i].intact /\ pq[i].id = id <=> pq[i] = Whole(id)
  BY <1>1 DEF PacketOf, Whole
<1>3. \A p : p \in Range(pq) <=> \E i \in DOMAIN pq : pq[i] = p
  BY DEF Range
<1>4. id \in LostPlus(l, pq) <=> id \in l \/ \E p \in Range(pq) : p.intact /\ p.id = id
  BY Zenon DEF LostPlus
<1>5. QED
  BY <1>2, <1>3, <1>4

\* detach adds the packets that are queued to the lost ones.
LEMMA DetachPlaced ==
    ASSUME NEW rw, NEW io, NEW ss, NEW d, NEW n \in Nat, NEW u, NEW l, Core(rw, io, ss, d, n),
           Placed(rw, ss, u, l, n), NEW e \in DOMAIN rw
    PROVE  Placed(Without(rw, e), ss, u, LostPlus(l, rw[e].pq), n)
<1> DEFINE rw2 == Without(rw, e)
           st == rw[e]
           s == st.sid
           l2 == LostPlus(l, st.pq)
<1>1. DOMAIN rw2 = DOMAIN rw \ {e} /\ \A f \in DOMAIN rw2 : rw2[f] = rw[f]
  BY DEF Without
<1>2. st \in RawOf(ss, n) /\ s \in DOMAIN ss /\ ss[s] \in SessionOf(n) /\ RawIs(e, st, ss[s])
  <2>1. st \in RawOf(ss, n) /\ ss \in Seq(SessionOf(n))
    BY DEF Core, PartsTyped
  <2>2. s \in DOMAIN ss
    BY <2>1 DEF RawOf
  <2>3. QED
    BY <2>1, <2>2 DEF Core, RawKnown
<1>3. \A id : id \in l2 <=> id \in l \/ \E i : IsCaptured(ss, Whole(id), s, i) /\ ss[s].reads < i
  <2> SUFFICES ASSUME NEW id
               PROVE  id \in l2 <=> id \in l \/ \E i : IsCaptured(ss, Whole(id), s, i) /\ ss[s].reads < i
    OBVIOUS
  <2>1. id \in l2 <=> id \in l \/ \E i \in DOMAIN st.pq : st.pq[i] = Whole(id)
    BY <1>2, LostPlusIs DEF RawOf
  <2>2. (\E i \in DOMAIN st.pq : st.pq[i] = Whole(id))
            <=> (\E i \in DOMAIN ss[s].captured : ss[s].reads < i /\ ss[s].captured[i] = Whole(id))
    <3> DEFINE k == st.pq
               p == ss[s].captured
               a == Pairs(ss[s])
               r == ss[s].reads
               W == Whole(id)
    <3>1. /\ \A i \in DOMAIN k : a + i \in DOMAIN p /\ r < a + i /\ k[i] = p[a + i]
          /\ \A i \in DOMAIN p : r < i => i - a \in DOMAIN k /\ k[i - a] = p[i]
      BY <1>2, QueuedBeyond
    <3> HIDE DEF k, p, a, r, W
    <3>2. (\E i \in DOMAIN k : k[i] = W) <=> (\E i \in DOMAIN p : r < i /\ p[i] = W)
      BY <3>1, Zenon
    <3>3. QED
      BY <3>2 DEF k, p, r, W
  <2> HIDE DEF l2, st, s
  <2>3. QED
    BY <1>2, <2>1, <2>2 DEF IsCaptured
<1>4. \A f \in DOMAIN rw : f # e => rw[f].sid # s
  BY OwnSession DEF Core
<1> HIDE DEF l2, rw2
<1>5. \A t, i : IsDropped(rw2, ss, t, i) <=> IsDropped(rw, ss, t, i) \/ (t = s /\ ss[t].reads < i)
  BY <1>1, <1>4 DEF IsDropped
<1>6. \A i : ~IsDropped(rw, ss, s, i)
  BY DEF IsDropped
<1> HIDE DEF s, st
<1>7. ASSUME NEW id PROVE IF id \in 1 .. n THEN Known(rw2, ss, u, l2, id) ELSE Unknown(ss, u, l2, id)
  <2>1. CASE id \in 1 .. n
    <3>1. Known(rw, ss, u, l, id)
      BY <2>1 DEF Placed
    <3>2. OncePlaced(rw2, ss, u, l2, id)
      <4>1. /\ \A k, j : IsSent(u, Whole(id), k) /\ IsSent(u, Whole(id), j) => k = j
            /\ \A a, t, i, j : IsCaptured(ss, Whole(id), a, i) /\ IsCaptured(ss, Whole(id), t, j) => a = t /\ i = j
            /\ \A k, t, i : ~(IsSent(u, Whole(id), k) /\ IsCaptured(ss, Whole(id), t, i))
        BY <3>1 DEF Known, OncePlaced
      <4>2. id \in l <=> \/ (\A k : ~IsSent(u, Whole(id), k)) /\ (\A t, i : ~IsCaptured(ss, Whole(id), t, i))
                         \/ \E t, i : IsCaptured(ss, Whole(id), t, i) /\ IsDropped(rw, ss, t, i)
        BY <3>1 DEF Known, OncePlaced
      <4>3. id \in l2 <=> \/ (\A k : ~IsSent(u, Whole(id), k)) /\ (\A t, i : ~IsCaptured(ss, Whole(id), t, i))
                          \/ \E t, i : IsCaptured(ss, Whole(id), t, i) /\ IsDropped(rw2, ss, t, i)
        BY <1>3, <1>5, <4>2
      <4>4. QED
        BY <4>1, <4>3 DEF OncePlaced
    <3>3. QED
      BY <2>1, <3>1, <3>2 DEF Known
  <2>2. CASE id \notin 1 .. n
    <3>1. Unknown(ss, u, l, id)
      BY <2>2 DEF Placed
    <3>2. id \notin l2
      BY <1>3, <3>1 DEF Unknown
    <3>3. QED
      BY <2>2, <3>1, <3>2 DEF Unknown
  <2>3. QED
    BY <2>1, <2>2
<1>8. Placed(rw2, ss, u, l2, n)
  BY <1>7 DEF Placed
<1>9. QED
  BY <1>8 DEF rw2, l2, st

\* Changes of one part.
Put(f, k, v) == [f EXCEPT ![k] = v]
CaptureIn(c, s, pkt) == [c EXCEPT !.session[s].captured = Append(@, pkt)]
ServeIn(c, e) == [c EXCEPT !.raw[e].on_data_receive = Tail(@)]
EnqueueIn(c, e, pkt) == [c EXCEPT !.raw[e].pq = Append(@, pkt)]

\* A packet is added to the history of its session.
LEMMA CaptureInParts ==
    ASSUME NEW rw, NEW io, NEW ss, NEW ev, NEW s, NEW pkt
    PROVE  CaptureIn(Parts(rw, io, ss, ev), s, pkt) = Parts(rw, io, Put(ss, s, WithPacket(ss[s], pkt)), ev)
BY DEF CaptureIn, Parts, WithPacket, Put

\* The read that has waited longest is served.
LEMMA ServeInParts ==
    ASSUME NEW rw, NEW io, NEW ss, NEW ev, NEW e
    PROVE  ServeIn(Parts(rw, io, ss, ev), e) = Parts(Put(rw, e, Served(rw[e])), io, ss, ev)
<1> DEFINE v == Tail(rw[e].on_data_receive)
<1>1. Parts(rw, io, ss, ev).raw[e].on_data_receive = rw[e].on_data_receive
  BY DEF Parts
<1>2. ServeIn(Parts(rw, io, ss, ev), e) = [Parts(rw, io, ss, ev) EXCEPT !.raw[e].on_data_receive = v]
  BY <1>1, Zenon DEF ServeIn, v
<1>3. Served(rw[e]) = [rw[e] EXCEPT !.on_data_receive = v]
  BY Zenon DEF Served, v
<1> HIDE DEF v
<1>4. [Parts(rw, io, ss, ev) EXCEPT !.raw[e].on_data_receive = v]
        = Parts(Put(rw, e, [rw[e] EXCEPT !.on_data_receive = v]), io, ss, ev)
  BY DEF Parts, Put
<1>5. QED
  BY <1>2, <1>3, <1>4

\* A packet is added to the queue of a raw_state.
LEMMA EnqueueInParts ==
    ASSUME NEW rw, NEW io, NEW ss, NEW ev, NEW e, NEW pkt
    PROVE  EnqueueIn(Parts(rw, io, ss, ev), e, pkt) = Parts(Put(rw, e, Enqueued(rw[e], pkt)), io, ss, ev)
BY SMTT(30) DEF EnqueueIn, Parts, Enqueued, Put

\* tcp::make_packet for two ends that have a raw_state, in terms of the parts.
LEMMA CapturedIs ==
    ASSUME NEW rw, NEW io, NEW ss, NEW ev, NEW e, NEW pkt, Captured(Parts(rw, io, ss, ev), e, pkt)
    PROVE  LET ss2 == Put(ss, rw[e].sid, WithPacket(ss[rw[e].sid], pkt))
           IN  \/ /\ rw[e].on_data_receive # <<>>
                  /\ Completed(Head(rw[e].on_data_receive), pkt)
                  /\ Callback(Parts(Put(rw, e, Served(rw[e])), io, ss2, ev), e)
               \/ /\ rw[e].on_data_receive = <<>>
                  /\ Commit(Parts(Put(rw, e, Enqueued(rw[e], pkt)), io, ss2, ev))
                  /\ UNCHANGED done
<1> DEFINE c == Parts(rw, io, ss, ev)
           ss2 == Put(ss, rw[e].sid, WithPacket(ss[rw[e].sid], pkt))
           d == CaptureIn(c, rw[e].sid, pkt)
<1>1. c.raw = rw
  BY DEF Parts
<1>2. d = Parts(rw, io, ss2, ev)
  BY CaptureInParts
<1>3. \/ /\ c.raw[e].on_data_receive # <<>>
         /\ Completed(Head(c.raw[e].on_data_receive), pkt)
         /\ Callback(ServeIn(CaptureIn(c, c.raw[e].sid, pkt), e), e)
      \/ /\ c.raw[e].on_data_receive = <<>>
         /\ Commit(EnqueueIn(CaptureIn(c, c.raw[e].sid, pkt), e, pkt))
         /\ UNCHANGED done
  BY Zenon DEF Captured, CaptureIn, ServeIn, EnqueueIn
<1> HIDE DEF c, ss2, d
<1>4. /\ ServeIn(d, e) = Parts(Put(rw, e, Served(rw[e])), io, ss2, ev)
      /\ EnqueueIn(d, e, pkt) = Parts(Put(rw, e, Enqueued(rw[e], pkt)), io, ss2, ev)
  BY <1>2, ServeInParts, EnqueueInParts
<1>5. \/ /\ rw[e].on_data_receive # <<>>
         /\ Completed(Head(rw[e].on_data_receive), pkt)
         /\ Callback(ServeIn(d, e), e)
      \/ /\ rw[e].on_data_receive = <<>>
         /\ Commit(EnqueueIn(d, e, pkt))
         /\ UNCHANGED done
  BY <1>1, <1>3, Zenon DEF d
<1>6. QED
  BY <1>4, <1>5, Zenon DEF ss2

\* It keeps the invariant.
LEMMA CapturedGood ==
    ASSUME NEW rw, NEW io, NEW ss, NEW ev, NEW n \in Nat, NEW u, NEW l, NEW qq, NEW dn, NEW wr,
           Captures(rw, io, ss, done, n, u, l), LeaveKnown(io, qq, dn, wr),
           NEW e \in DOMAIN rw, NEW pkt \in PacketOf(n + 1), pkt = Whole(n + 1),
           Captured(Parts(rw, io, ss, ev), e, pkt)
    PROVE  Good(done', n + 1, u, l, qq, dn, wr)
<1> DEFINE m == n + 1
           st == rw[e]
           s == st.sid
           x == ss[s]
           x2 == WithPacket(x, pkt)
           ss2 == Put(ss, s, x2)
<1>1. m \in Nat /\ Core(rw, io, ss, done, m) /\ Placed(rw, ss, u, l, n)
  BY ArriveCore DEF Captures
<1>2. pkt \in PacketOf(m) /\ pkt = Whole(n + 1)
  OBVIOUS
<1> HIDE DEF m
<1>3. st \in RawOf(ss, m) /\ ss \in Seq(SessionOf(m))
  BY <1>1 DEF Core, PartsTyped
<1>4. s \in DOMAIN ss /\ x \in SessionOf(m) /\ RawIs(e, st, x)
  BY <1>1, <1>3 DEF Core, RawKnown, RawOf
<1>5. ASSUME NEW st2, NEW rw2, Changed(rw, ss, m, e, st2, x2, rw2, ss2)
      PROVE  Placed(rw2, ss2, u, l, m)
  <2>1. Touched(rw, ss, e, rw2, ss2) /\ ss2[s] = x2
    BY <1>4, <1>5, ChangeTouches
  <2>3. DOMAIN ss2 = DOMAIN ss /\ \A t \in DOMAIN ss : t # s => ss2[t] = ss[t]
    BY <2>1 DEF Touched
  <2> HIDE DEF ss2
  <2>4. CapturedAt(ss, ss2, pkt, s, Len(ss[s].captured) + 1) /\ ss2[s].reads = ss[s].reads
    BY <1>1, <1>2, <1>3, <1>4, <2>1, <2>3, AppendCaptures
  <2>5. CapturedAt(ss, ss2, Whole(n + 1), s, Len(ss[s].captured) + 1)
    BY <1>2, <2>4
  <2>6. Placed(rw2, ss2, u, l, n + 1)
    BY <1>1, <2>1, <2>4, <2>5, PlacedCaptured
  <2>7. QED
    BY <2>6 DEF m
<1>6. CASE /\ st.on_data_receive # <<>>
           /\ Completed(Head(st.on_data_receive), pkt)
           /\ Callback(Parts(Put(rw, e, Served(st)), io, ss2, ev), e)
  <2> DEFINE st2 == Served(st)
             rw2 == Put(rw, e, st2)
             read == Head(st.on_data_receive)
             c == [read |-> read, pkt |-> pkt]
  <2>1. /\ Moved(e, ss, m, st, x, st2, x2) /\ PairMade(m, x, x2, read.nr, pkt)
        /\ read \in ReadOf(ss) /\ read.sid = s
    <3>1. m \in Nat /\ st \in RawOf(ss, m) /\ x \in SessionOf(m) /\ RawIs(e, st, x) /\ pkt \in PacketOf(m)
      BY <1>1, <1>2, <1>3, <1>4
    <3>2. st.on_data_receive # <<>>
      BY <1>6
    <3> HIDE DEF st, x
    <3>3. QED
      BY <3>1, <3>2, PacketGiven
  <2>2. Changed(rw, ss, m, e, st2, x2, rw2, ss2)
    BY <1>1, <2>1, MovedIsChange DEF Put
  <2>3. c \in CompletionOf(ss, m) /\ c.read = read /\ c.pkt = pkt
    BY <1>2, <2>1 DEF CompletionOf
  <2>4. done' = Append(done, c)
    BY <1>6 DEF Completed
  <2>5. Placed(rw2, ss2, u, l, m)
    BY <1>5, <2>2
  <2>6. Callback(Parts(rw2, io, ss2, ev), e)
    BY <1>6
  <2>7. read = [sid |-> read.sid, nr |-> read.nr]
    BY <2>1 DEF ReadOf
  <2> HIDE DEF st2, rw2, ss2, x2, read, c
  <2>8. /\ Pairs(x2) = Pairs(ss[st2.sid]) + 1 /\ c.pkt = x2.captured[Pairs(x2)]
        /\ read = [sid |-> st2.sid, nr |-> Pairs(x2)]
    BY <2>1, <2>3, <2>7 DEF Moved, PairMade
  <2>9. Core(rw2, io, ss2, Append(done, c), m)
    BY <1>1, <2>2, <2>3, <2>8, DoneCore
  <2>10. Captures(rw2, io, ss2, done', m, u, l)
    BY <2>4, <2>5, <2>9 DEF Captures
  <2>11. Good(done', m, u, l, qq, dn, wr)
    BY <1>1, <2>6, <2>10, CallbackGood
  <2>12. QED
    BY <2>11 DEF m
<1>7. CASE /\ st.on_data_receive = <<>>
           /\ Commit(Parts(Put(rw, e, Enqueued(st, pkt)), io, ss2, ev))
           /\ UNCHANGED done
  <2> DEFINE st2 == Enqueued(st, pkt)
             rw2 == Put(rw, e, st2)
  <2>1. Moved(e, ss, m, st, x, st2, x2) /\ Pairs(x2) = Pairs(x)
    BY <1>1, <1>2, <1>3, <1>4, <1>7, PacketQueued
  <2>2. Changed(rw, ss, m, e, st2, x2, rw2, ss2)
    BY <1>1, <2>1, MovedIsChange DEF Put
  <2>3. Placed(rw2, ss2, u, l, m)
    BY <1>5, <2>2
  <2>4. Committed(rw2, io, ss2)
    BY <1>7, CommitIs
  <2> HIDE DEF st2, rw2, ss2, x2
  <2>5. Pairs(x2) = Pairs(ss[st2.sid])
    BY <2>1 DEF Moved
  <2>6. Core(rw2, io, ss2, done, m)
    BY <1>1, <2>2, <2>5, KeepCore
  <2>7. Captures(rw2, io, ss2, done', m, u, l)
    BY <1>7, <2>3, <2>6 DEF Captures
  <2>8. QED
    BY <2>4, <2>7 DEF Good, Committed, m
<1>8. QED
  BY <1>6, <1>7, CapturedIs

\* The parts of the state, and what the calls make of them.
LEMMA PartsNow ==
    ASSUME NEW rw, NEW io, NEW ss, NEW ev, NEW e, NEW pq
    PROVE  /\ Now = Parts(raw, ioq, session, events)
           /\ Event(Parts(rw, io, ss, ev)) = Parts(rw, io, ss, ev + 1)
           /\ emplace(Parts(rw, io, ss, ev), e, pq)
                = Parts(RawPlus(rw, ss, e, pq), io, SessionPlus(ss, e, pq), ev)
<1>1. Now = Parts(raw, ioq, session, events)
  BY DEF Now, Parts
<1>2. Event(Parts(rw, io, ss, ev)) = Parts(rw, io, ss, ev + 1)
  BY DEF Event, Parts
<1>3. emplace(Parts(rw, io, ss, ev), e, pq) = Parts(RawPlus(rw, ss, e, pq), io, SessionPlus(ss, e, pq), ev)
  <2> DEFINE c == Parts(rw, io, ss, ev)
             a == RawPlus(rw, ss, e, pq)
             b == SessionPlus(ss, e, pq)
  <2>1. c.raw = rw /\ c.session = ss
    BY DEF Parts
  <2> HIDE DEF c
  <2>2. emplace(c, e, pq)
            = [c EXCEPT !.raw = RawPlus(c.raw, c.session, e, pq), !.session = SessionPlus(c.session, e, pq)]
    BY Zenon DEF emplace, RawPlus, SessionPlus
  <2>3. emplace(c, e, pq) = [c EXCEPT !.raw = a, !.session = b]
    BY <2>1, <2>2, Zenon
  <2> HIDE DEF a, b
  <2>4. [c EXCEPT !.raw = a, !.session = b] = Parts(a, io, b, ev)
    <3>1. [c EXCEPT !.raw = a, !.session = b] = [[c EXCEPT !.raw = a] EXCEPT !.session = b]
      OBVIOUS
    <3>2. [c EXCEPT !.raw = a] = Parts(a, io, ss, ev)
      BY DEF Parts, c
    <3>3. [Parts(a, io, ss, ev) EXCEPT !.session = b] = Parts(a, io, b, ev)
      BY DEF Parts
    <3>4. QED
      BY <3>1, <3>2, <3>3
  <2>5. QED
    BY <2>3, <2>4 DEF a, b, c
<1>4. QED
  BY <1>1, <1>2, <1>3

\* One more call or arrival.
LEMMA EventNow == Event(Now) = Parts(raw, ioq, session, events + 1)
BY DEF Event, Now, Parts

\* The same state with other posted handlers.
LEMMA NowQueue ==
    ASSUME NEW io
    PROVE  [Now EXCEPT !.ioq = io] = Parts(raw, io, session, events)
BY DEF Now, Parts

\* A step that leaves the histories of arrivals alone keeps the invariant.
LEMMA GoodInv ==
    ASSUME Inv, Good(done', arrived', up', lost', q', down', written'),
           UNCHANGED <<rules, cbs, up, arrived>>, q' \in Seq(Nat), down' \in Seq(Nat), written' \in Seq(Nat)
    PROVE  Inv'
<1>1. Others'
  BY DEF Inv, Others, Good
<1>2. QED
  BY <1>1 DEF Inv, Good

\* raw_socket::async_read keeps the invariant.
LEMMA ReadInv ==
    ASSUME Inv, NEW e \in Ends, async_read(e)
    PROVE  Inv'
<1>1. /\ Captures(raw, ioq, session, done, arrived, up, lost) /\ LeaveKnown(ioq, q, down, written)
      /\ arrived \in Nat /\ q \in Seq(Nat) /\ down \in Seq(Nat) /\ written \in Seq(Nat)
  BY DEF Inv, Others
<1>2. e \in DOMAIN raw /\ Commit(async_wait(Parts(raw, ioq, session, events), e))
  BY PartsNow DEF async_read
<1>3. UNCHANGED <<rules, cbs, q, up, down, done, written, lost, arrived>>
  BY DEF async_read
<1>4. Good(done, arrived, up, lost, q, down, written)
  BY <1>1, <1>2, WaitGood
<1>5. QED
  BY <1>1, <1>3, <1>4, GoodInv

\* So does the posted completion of a read.
LEMMA RunReadInv ==
    ASSUME Inv, RunRead
    PROVE  Inv'
<1> DEFINE h == Head(ioq)
           t == Tail(ioq)
           e == session[h.read.sid].ends
           d2 == Append(done, [read |-> h.read, pkt |-> h.pkt])
<1>1. /\ Captures(raw, ioq, session, done, arrived, up, lost) /\ LeaveKnown(ioq, q, down, written)
      /\ arrived \in Nat /\ q \in Seq(Nat) /\ down \in Seq(Nat) /\ written \in Seq(Nat)
  BY DEF Inv, Others
<1>2. ioq # <<>> /\ h.run = "read" /\ done' = d2
  BY DEF RunRead, Completed
<1>3. Callback([Now EXCEPT !.ioq = t], e)
  BY Zenon DEF RunRead, Now
<1>4. Callback(Parts(raw, t, session, events), e)
  BY <1>3, NowQueue
<1>5. UNCHANGED <<rules, cbs, q, up, down, written, lost, arrived>>
  BY DEF RunRead
<1>6. Captures(raw, t, session, d2, arrived, up, lost)
  BY <1>1, <1>2, FinishCore DEF Captures
<1>7. ioq \in Seq(HandlerOf(session, arrived))
  BY <1>1 DEF Captures, Core, PartsTyped
<1>8. LeaveKnown(t, q, down, written)
  BY <1>1, <1>2, <1>7, LeaveRead
<1> HIDE DEF h, t, e, d2
<1>9. Good(d2, arrived, up, lost, q, down, written)
  BY <1>1, <1>4, <1>6, <1>8, CallbackGood
<1>10. QED
  BY <1>1, <1>2, <1>5, <1>9, GoodInv

\* tcp::attach keeps the invariant: the new session has no packet and no read.
LEMMA AttachInv ==
    ASSUME Inv, NEW e \in Ends, attach(e)
    PROVE  Inv'
<1> DEFINE rw2 == RawPlus(raw, session, e, <<>>)
           ss2 == SessionPlus(session, e, <<>>)
<1>1. /\ Captures(raw, ioq, session, done, arrived, up, lost) /\ LeaveKnown(ioq, q, down, written)
      /\ arrived \in Nat /\ q \in Seq(Nat) /\ down \in Seq(Nat) /\ written \in Seq(Nat)
  BY DEF Inv, Others
<1>2. e \notin DOMAIN raw /\ Commit(Event(emplace(Now, e, <<>>)))
      /\ UNCHANGED <<rules, cbs, q, up, down, done, written, lost, arrived>>
  BY DEF attach
<1>3. Event(emplace(Now, e, <<>>)) = Parts(rw2, ioq, ss2, events + 1)
  <2>1. emplace(Now, e, <<>>) = Parts(rw2, ioq, ss2, events)
    BY PartsNow
  <2> HIDE DEF rw2, ss2
  <2>2. QED
    BY <2>1, PartsNow
<1>4. Committed(rw2, ioq, ss2)
  BY <1>2, <1>3, CommitIs
<1>5. <<>> \in Seq(PacketOf(arrived))
  BY EmptySeq
<1>6. Captures(rw2, ioq, ss2, done, arrived, up, lost)
  BY <1>1, <1>2, <1>5, EmplaceCaptures DEF Captures
<1> HIDE DEF rw2, ss2
<1>7. Good(done, arrived, up, lost, q, down, written)
  BY <1>1, <1>4, <1>6 DEF Good, Committed
<1>8. QED
  BY <1>1, <1>2, <1>7, GoodInv

\* tcp::detach keeps it: what was queued is lost, the pairs stay.
LEMMA DetachInv ==
    ASSUME Inv, NEW e \in Ends, detach(e)
    PROVE  Inv'
<1> DEFINE rw2 == Without(raw, e)
           l2 == LostPlus(lost, raw[e].pq)
<1>1. /\ Captures(raw, ioq, session, done, arrived, up, lost) /\ LeaveKnown(ioq, q, down, written)
      /\ arrived \in Nat /\ q \in Seq(Nat) /\ down \in Seq(Nat) /\ written \in Seq(Nat)
      /\ events <= MaxEvents
  BY DEF Inv, Others
<1>2. e \in DOMAIN raw /\ raw' = rw2 /\ lost' = l2
      /\ UNCHANGED <<rules, cbs, ioq, q, up, down, session, done, written, arrived, events>>
  BY Zenon DEF detach, Without, LostPlus
<1>3. Core(rw2, ioq, session, done, arrived) /\ Placed(rw2, session, up, l2, arrived)
  BY <1>1, <1>2, DetachCore, DetachPlaced DEF Captures
<1>4. Captures(rw2, ioq, session, done, arrived, up, l2)
  BY <1>1, <1>3 DEF Captures
<1> HIDE DEF rw2, l2
<1>5. Good(done, arrived, up, l2, q, down, written)
  BY <1>1, <1>2, <1>4 DEF Good
<1>6. QED
  BY <1>1, <1>2, <1>5, GoodInv

\* tcp::process and async_write keep it: the completion is behind the handler of
\* enqueue for its packet.
LEMMA SendInv ==
    ASSUME Inv, NEW w \in BOOLEAN, send(w)
    PROVE  Inv'
<1> DEFINE nr == Len(down) + Len(q) + 1
           a == [run |-> "enqueue"]
           b == Completion(nr)
           io1 == Append(ioq, a)
           io2 == Append(io1, b)
           S == HandlerOf(session, arrived)
<1>1. /\ Captures(raw, ioq, session, done, arrived, up, lost) /\ LeaveKnown(ioq, q, down, written)
      /\ arrived \in Nat /\ q \in Seq(Nat) /\ down \in Seq(Nat) /\ written \in Seq(Nat)
  BY DEF Inv, Others
<1>2. ioq \in Seq(S) /\ Core(raw, ioq, session, done, arrived)
  BY <1>1 DEF Captures, Core, PartsTyped
<1>3. nr \in Nat
  BY <1>1, LenProperties
<1>4. a \in S /\ a.run = "enqueue" /\ b \in S /\ b.run = "written" /\ b.pkt = nr
  BY <1>3 DEF HandlerOf, Completion
<1>5. /\ q' = Append(q, nr) /\ UNCHANGED <<rules, cbs, up, down, done, written, lost, arrived>>
      /\ Commit(Event([Now EXCEPT !.ioq = ioq \o <<a>> \o (IF w THEN <<b>> ELSE <<>>)]))
  BY Zenon DEF send, Now
<1> HIDE DEF nr, a, b
<1>6. io1 \in Seq(S) /\ io1 = ioq \o <<a>>
  BY <1>2, <1>4, AppendProperties, AppendIsConcat
<1> HIDE DEF io1
<1>7. io2 = io1 \o <<b>> /\ io1 \o <<>> = io1
  BY <1>4, <1>6, AppendIsConcat, ConcatEmptySeq
<1> HIDE DEF io2
<1>8. \E io \in {io1, io2} : Commit(Event([Now EXCEPT !.ioq = io]))
  <2>1. ioq \o <<a>> \o (IF w THEN <<b>> ELSE <<>>) \in {io1, io2}
    BY <1>6, <1>7
  <2>2. QED
    BY <1>5, <2>1
<1>9. PICK io \in {io1, io2} : Commit(Event([Now EXCEPT !.ioq = io]))
  BY <1>8
<1>10. Commit(Parts(raw, io, session, events + 1))
  <2>1. [Now EXCEPT !.ioq = io] = Parts(raw, io, session, events)
    BY NowQueue
  <2>2. Event(Parts(raw, io, session, events)) = Parts(raw, io, session, events + 1)
    BY PartsNow
  <2>3. QED
    BY <1>9, <2>1, <2>2
<1>11. Committed(raw, io, session)
  BY <1>10, CommitIs
<1>12. Core(raw, io, session, done, arrived)
  <2>1. Core(raw, io1, session, done, arrived)
    BY <1>1, <1>2, <1>4, AppendCore DEF io1
  <2>2. Core(raw, io2, session, done, arrived)
    BY <1>1, <1>4, <2>1, AppendCore DEF io2
  <2>3. QED
    BY <2>1, <2>2
<1>13. LeaveKnown(io, q', down, written)
  <2>1. LeaveKnown(io1, q', down, written) /\ nr \in 1 .. Len(down) + Cardinality(EnqueueAt(io1))
    BY <1>1, <1>2, <1>4, <1>5, LeaveSend DEF io1, nr
  <2>2. LeaveKnown(io2, q', down, written)
    BY <1>1, <1>4, <1>6, <2>1, LeaveComplete DEF io2
  <2>3. QED
    BY <2>1, <2>2
<1>14. q' \in Seq(Nat)
  BY <1>1, <1>3, <1>5, AppendProperties
<1>15. Good(done, arrived, up, lost, q', down, written)
  BY <1>1, <1>11, <1>12, <1>13 DEF Good, Captures, Committed
<1>16. QED
  BY <1>1, <1>5, <1>14, <1>15, GoodInv

\* The handler of enqueue keeps it: it finds a packet, and the next one.
LEMMA RunEnqueueInv ==
    ASSUME Inv, RunEnqueue
    PROVE  Inv'
<1> DEFINE t == Tail(ioq)
<1>1. /\ Captures(raw, ioq, session, done, arrived, up, lost) /\ LeaveKnown(ioq, q, down, written)
      /\ arrived \in Nat /\ q \in Seq(Nat) /\ down \in Seq(Nat) /\ written \in Seq(Nat)
  BY DEF Inv, Others
<1>2. /\ ioq # <<>> /\ Head(ioq).run = "enqueue" /\ down' = Append(down, Head(q)) /\ q' = Tail(q)
      /\ UNCHANGED <<rules, cbs, up, done, written, lost, arrived>>
  BY DEF RunEnqueue
<1>3. Commit([Now EXCEPT !.ioq = t])
  BY Zenon DEF RunEnqueue, Now
<1>4. Commit(Parts(raw, t, session, events))
  BY <1>3, NowQueue
<1>5. Committed(raw, t, session)
  BY <1>4, CommitIs
<1>6. ioq \in Seq(HandlerOf(session, arrived))
  BY <1>1 DEF Captures, Core, PartsTyped
<1>7. q # <<>> /\ LeaveKnown(t, Tail(q), Append(down, Head(q)), written)
  BY <1>1, <1>2, <1>6, LeaveEnqueue
<1>8. Core(raw, t, session, done, arrived)
  BY <1>1, <1>2, TailCore DEF Captures
<1>9. q' \in Seq(Nat) /\ down' \in Seq(Nat)
  BY <1>1, <1>2, <1>7, HeadTailProperties, AppendProperties
<1> HIDE DEF t
<1>10. Good(done, arrived, up, lost, q', down', written)
  BY <1>1, <1>2, <1>5, <1>7, <1>8 DEF Good, Captures, Committed
<1>11. QED
  BY <1>1, <1>2, <1>9, <1>10, GoodInv

\* The completion of a write keeps it: its packet has left.
LEMMA RunWrittenInv ==
    ASSUME Inv, RunWritten
    PROVE  Inv'
<1> DEFINE t == Tail(ioq)
<1>1. /\ Captures(raw, ioq, session, done, arrived, up, lost) /\ LeaveKnown(ioq, q, down, written)
      /\ arrived \in Nat /\ q \in Seq(Nat) /\ down \in Seq(Nat) /\ written \in Seq(Nat)
  BY DEF Inv, Others
<1>2. /\ ioq # <<>> /\ Head(ioq).run = "written" /\ written' = Append(written, Head(ioq).pkt)
      /\ UNCHANGED <<rules, cbs, q, up, down, done, lost, arrived>>
  BY DEF RunWritten
<1>3. Commit([Now EXCEPT !.ioq = t])
  BY Zenon DEF RunWritten, Now
<1>4. Commit(Parts(raw, t, session, events))
  BY <1>3, NowQueue
<1>5. Committed(raw, t, session)
  BY <1>4, CommitIs
<1>6. ioq \in Seq(HandlerOf(session, arrived))
  BY <1>1 DEF Captures, Core, PartsTyped
<1>7. LeaveKnown(t, q, down, written')
  BY <1>1, <1>2, <1>6, LeaveWritten
<1>8. Core(raw, t, session, done, arrived)
  BY <1>1, <1>2, TailCore DEF Captures
<1>9. written' \in Seq(Nat)
  <2>1. Head(ioq) \in HandlerOf(session, arrived)
    BY <1>2, <1>6, TailIs
  <2>2. Head(ioq).pkt \in Nat
    BY <1>2, <2>1 DEF HandlerOf
  <2>3. QED
    BY <1>1, <1>2, <2>2, AppendProperties
<1> HIDE DEF t
<1>10. Good(done, arrived, up, lost, q, down, written')
  BY <1>1, <1>2, <1>5, <1>7, <1>8 DEF Good, Captures, Committed
<1>11. QED
  BY <1>1, <1>2, <1>9, <1>10, GoodInv

\* A packet that arrives widens the types.
LEMMA UpGrows ==
    ASSUME Inv
    PROVE  /\ arrived + 1 \in Nat /\ up \in Seq([ends: Ends, pkt: PacketOf(arrived + 1)])
           /\ Core(raw, ioq, session, done, arrived + 1)
<1>1. arrived \in Nat /\ up \in Seq([ends: Ends, pkt: PacketOf(arrived)])
  BY DEF Inv, Others
<1>2. PacketOf(arrived) \subseteq PacketOf(arrived + 1)
  BY <1>1 DEF PacketOf
<1>3. [ends: Ends, pkt: PacketOf(arrived)] \subseteq [ends: Ends, pkt: PacketOf(arrived + 1)]
  BY <1>2
<1>4. Core(raw, ioq, session, done, arrived + 1)
  BY <1>1, ArriveCore DEF Inv, Captures
<1> DEFINE A == [ends: Ends, pkt: PacketOf(arrived)]
           B == [ends: Ends, pkt: PacketOf(arrived + 1)]
<1> HIDE DEF A, B
<1>5. Seq(A) \subseteq Seq(B)
  BY <1>3, SeqMonotonic DEF A, B
<1>6. up \in Seq(B)
  BY <1>1, <1>5 DEF A
<1>7. QED
  BY <1>1, <1>4, <1>6 DEF B

\* The packet with the number n, and its remains.
LEMMA PacketIs ==
    ASSUME NEW n \in Nat \ {0}
    PROVE  Whole(n) \in PacketOf(n) /\ Remains(n) \in PacketOf(n)
<1>1. n \in 1 .. n
  OBVIOUS
<1>2. QED
  BY <1>1, Zenon DEF PacketOf, Whole, Remains

\* What callbacks that read and then threw leave behind.
ThrewSessions(e, pkts) == [j \in DOMAIN pkts |-> [ends |-> e, captured |-> <<pkts[j]>>, reads |-> 1]]
ThrewHandlers(ss, pkts) == [j \in DOMAIN pkts |-> ReadHandler([sid |-> Len(ss) + j, nr |-> 1], pkts[j])]

\* The parts of the state behind them.
LEMMA ThrewParts ==
    ASSUME NEW rw, NEW io, NEW ss, NEW ev, NEW e, NEW pkts
    PROVE  Threw(Parts(rw, io, ss, ev), e, pkts)
             = Parts(rw, io \o ThrewHandlers(ss, pkts), ss \o ThrewSessions(e, pkts), ev + Len(pkts))
<1> DEFINE c == Parts(rw, io, ss, ev)
           a == c.ioq \o ThrewHandlers(c.session, pkts)
           b == c.session \o ThrewSessions(e, pkts)
           v == c.events + Len(pkts)
<1>1. c.raw = rw /\ c.ioq = io /\ c.session = ss /\ c.events = ev
  BY DEF Parts
<1>2. Threw(c, e, pkts) = [c EXCEPT !.session = b, !.ioq = a, !.events = v]
  <2> HIDE DEF c
  <2>1. QED
    BY Zenon DEF Threw, ThrewHandlers, ThrewSessions, ReadHandler
<1> HIDE DEF a, b, v
<1>3. [c EXCEPT !.session = b, !.ioq = a, !.events = v] = Parts(rw, a, b, v)
  <2>1. [c EXCEPT !.session = b, !.ioq = a, !.events = v]
          = [[[c EXCEPT !.session = b] EXCEPT !.ioq = a] EXCEPT !.events = v]
    OBVIOUS
  <2>2. [c EXCEPT !.session = b] = Parts(rw, io, b, ev)
    BY DEF Parts
  <2>3. [Parts(rw, io, b, ev) EXCEPT !.ioq = a] = Parts(rw, a, b, ev)
    BY DEF Parts
  <2>4. [Parts(rw, a, b, ev) EXCEPT !.events = v] = Parts(rw, a, b, v)
    BY DEF Parts
  <2> HIDE DEF c
  <2>5. QED
    BY <2>1, <2>2, <2>3, <2>4
<1>4. QED
  BY <1>1, <1>2, <1>3 DEF a, b, v

\* What is known of them: for every packet a session with one read and its
\* posted completion, N and M behind those that were there.
Thrown(io, ss, n, e, pkts, io2, ss2, N, M) ==
    /\ N \in Nat /\ M \in Nat /\ DOMAIN ss = 1 .. N /\ DOMAIN io = 1 .. M
    /\ ss2 \in Seq(SessionOf(n)) /\ io2 \in Seq(HandlerOf(ss2, n))
    /\ \A t \in DOMAIN ss : t \in DOMAIN ss2 /\ ss2[t] = ss[t]
    /\ \A i \in DOMAIN io : i \in DOMAIN io2 /\ io2[i] = io[i]
    /\ \A j \in DOMAIN pkts : /\ N + j \in DOMAIN ss2 /\ Pairs(ss2[N + j]) = 1
                              /\ ss2[N + j].captured = <<pkts[j]>> /\ ss2[N + j].reads = 1
                              /\ M + j \in DOMAIN io2
                              /\ io2[M + j].run = "read" /\ io2[M + j].read = [sid |-> N + j, nr |-> 1]
                              /\ io2[M + j].pkt = pkts[j]
    /\ \A t \in DOMAIN ss2 : t \in DOMAIN ss \/ \E j \in DOMAIN pkts : t = N + j
    /\ \A i \in DOMAIN io2 : i \in DOMAIN io \/ \E j \in DOMAIN pkts : i = M + j
    /\ DOMAIN pkts \subseteq Nat \ {0}

\* They are like that.
LEMMA ThrownIs ==
    ASSUME NEW n \in Nat, NEW ss \in Seq(SessionOf(n)), NEW io \in Seq(HandlerOf(ss, n)), NEW e \in Ends,
           NEW pkts \in Seq(PacketOf(n))
    PROVE  Thrown(io, ss, n, e, pkts, io \o ThrewHandlers(ss, pkts), ss \o ThrewSessions(e, pkts),
                  Len(ss), Len(io))
<1> DEFINE N == Len(ss)
           M == Len(io)
           r == Len(pkts)
           t == ThrewSessions(e, pkts)
           h == ThrewHandlers(ss, pkts)
           ss2 == ss \o t
           io2 == io \o h
<1>1. /\ N \in Nat /\ M \in Nat /\ r \in Nat /\ DOMAIN ss = 1 .. N /\ DOMAIN io = 1 .. M
      /\ DOMAIN pkts = 1 .. r
  BY LenProperties
<1>2. /\ DOMAIN t = DOMAIN pkts
      /\ \A j \in DOMAIN pkts : /\ t[j] \in SessionOf(n) /\ t[j].captured = <<pkts[j]>> /\ t[j].reads = 1
                                /\ Pairs(t[j]) = 1
  <2>1. DOMAIN t = DOMAIN pkts
    BY DEF ThrewSessions
  <2>2. ASSUME NEW j \in DOMAIN pkts
        PROVE  /\ t[j] \in SessionOf(n) /\ t[j].captured = <<pkts[j]>> /\ t[j].reads = 1
               /\ Pairs(t[j]) = 1
    <3> DEFINE x == [ends |-> e, captured |-> <<pkts[j]>>, reads |-> 1]
               p == pkts[j]
    <3>1. t[j] = x
      BY DEF ThrewSessions
    <3>2. p \in PacketOf(n)
      OBVIOUS
    <3> HIDE DEF p
    <3>3. <<p>> \in Seq(PacketOf(n)) /\ Len(<<p>>) = 1
      BY <3>2
    <3>4. x \in SessionOf(n) /\ x.captured = <<p>> /\ x.reads = 1
      BY <3>3 DEF SessionOf, p
    <3> HIDE DEF x
    <3>5. Pairs(x) = 1
      BY <3>3, <3>4 DEF Pairs
    <3>6. QED
      BY <3>1, <3>4, <3>5 DEF p
  <2>3. QED
    BY <2>1, <2>2
<1>3. t \in Seq(SessionOf(n)) /\ Len(t) = r
  <2> HIDE DEF t, r
  <2>1. t \in [1 .. r -> SessionOf(n)]
    <3>1. t = [j \in DOMAIN t |-> t[j]]
      BY DEF t, ThrewSessions
    <3>2. QED
      BY <1>1, <1>2, <3>1
  <2>2. t \in Seq(SessionOf(n))
    BY <1>1, <2>1, FunctionIsSeq
  <2>3. QED
    BY <1>1, <1>2, <2>2, LenProperties
<1> HIDE DEF t
<1>4. IsConcat(ss, t, ss2) /\ ss2 \in Seq(SessionOf(n))
  BY <1>3, ConcatIs
<1> HIDE DEF ss2
<1>5. /\ \A i \in DOMAIN ss : i \in DOMAIN ss2 /\ ss2[i] = ss[i]
      /\ \A j \in DOMAIN pkts : N + j \in DOMAIN ss2 /\ ss2[N + j] = t[j]
      /\ \A i \in DOMAIN ss2 : i \in DOMAIN ss \/ \E j \in DOMAIN pkts : i = N + j
  <2>1. /\ \A i \in DOMAIN ss : i \in DOMAIN ss2 /\ ss2[i] = ss[i]
        /\ \A j \in DOMAIN pkts : N + j \in DOMAIN ss2 /\ ss2[N + j] = t[j]
        /\ DOMAIN ss2 = 1 .. N + r
    BY <1>2, <1>3, <1>4 DEF IsConcat
  <2>2. \A i \in 1 .. N + r : i \in 1 .. N \/ \E j \in 1 .. r : i = N + j
    <3> SUFFICES ASSUME NEW i \in 1 .. N + r, i \notin 1 .. N PROVE \E j \in 1 .. r : i = N + j
      OBVIOUS
    <3> HIDE DEF N, r
    <3>1. i - N \in 1 .. r /\ i = N + (i - N)
      BY <1>1
    <3>2. QED
      BY <3>1
  <2>3. QED
    BY <1>1, <2>1, <2>2
<1>6. /\ HandlerOf(ss, n) \subseteq HandlerOf(ss2, n)
  <2>1. n <= n /\ DOMAIN ss \subseteq DOMAIN ss2
    BY <1>5
  <2>2. QED
    BY <2>1, TypesGrow
<1>7. /\ DOMAIN h = DOMAIN pkts
      /\ \A j \in DOMAIN pkts : /\ h[j] \in HandlerOf(ss2, n) /\ h[j].run = "read"
                                /\ h[j].read = [sid |-> N + j, nr |-> 1] /\ h[j].pkt = pkts[j]
  <2>1. DOMAIN h = DOMAIN pkts
    BY DEF ThrewHandlers
  <2>2. ASSUME NEW j \in DOMAIN pkts
        PROVE  /\ h[j] \in HandlerOf(ss2, n) /\ h[j].run = "read"
               /\ h[j].read = [sid |-> N + j, nr |-> 1] /\ h[j].pkt = pkts[j]
    <3> DEFINE rd == [sid |-> N + j, nr |-> 1]
               p == pkts[j]
    <3>1. h[j] = ReadHandler(rd, p)
      BY DEF ThrewHandlers
    <3>2. p \in PacketOf(n) /\ rd \in ReadOf(ss2)
      BY <1>5 DEF ReadOf
    <3> HIDE DEF p, rd
    <3>3. ReadHandler(rd, p) \in HandlerOf(ss2, n)
      BY <3>2 DEF HandlerOf, ReadHandler
    <3>4. ReadHandler(rd, p).run = "read" /\ ReadHandler(rd, p).read = rd /\ ReadHandler(rd, p).pkt = p
      BY DEF ReadHandler
    <3>5. QED
      BY <3>1, <3>3, <3>4 DEF rd, p
  <2>3. QED
    BY <2>1, <2>2
<1>8. h \in Seq(HandlerOf(ss2, n)) /\ Len(h) = r
  <2> HIDE DEF h, r
  <2>1. h \in [1 .. r -> HandlerOf(ss2, n)]
    <3>1. h = [j \in DOMAIN h |-> h[j]]
      BY DEF h, ThrewHandlers
    <3>2. QED
      BY <1>1, <1>7, <3>1
  <2>2. h \in Seq(HandlerOf(ss2, n))
    BY <1>1, <2>1, FunctionIsSeq
  <2>3. QED
    BY <1>1, <1>7, <2>2, LenProperties
<1> HIDE DEF h
<1>9. io \in Seq(HandlerOf(ss2, n))
  BY <1>6, SeqMonotonic
<1>10. IsConcat(io, h, io2) /\ io2 \in Seq(HandlerOf(ss2, n))
  BY <1>8, <1>9, ConcatIs
<1> HIDE DEF io2
<1>11. /\ \A i \in DOMAIN io : i \in DOMAIN io2 /\ io2[i] = io[i]
       /\ \A j \in DOMAIN pkts : M + j \in DOMAIN io2 /\ io2[M + j] = h[j]
       /\ \A i \in DOMAIN io2 : i \in DOMAIN io \/ \E j \in DOMAIN pkts : i = M + j
  <2>1. /\ \A i \in DOMAIN io : i \in DOMAIN io2 /\ io2[i] = io[i]
        /\ \A j \in DOMAIN pkts : M + j \in DOMAIN io2 /\ io2[M + j] = h[j]
        /\ DOMAIN io2 = 1 .. M + r
    BY <1>7, <1>8, <1>10 DEF IsConcat
  <2>2. \A i \in 1 .. M + r : i \in 1 .. M \/ \E j \in 1 .. r : i = M + j
    <3> SUFFICES ASSUME NEW i \in 1 .. M + r, i \notin 1 .. M PROVE \E j \in 1 .. r : i = M + j
      OBVIOUS
    <3> HIDE DEF M, r
    <3>1. i - M \in 1 .. r /\ i = M + (i - M)
      BY <1>1
    <3>2. QED
      BY <3>1
  <2>3. QED
    BY <1>1, <2>1, <2>2
<1>12. DOMAIN pkts \subseteq Nat \ {0}
  BY <1>1
<1>13. Thrown(io, ss, n, e, pkts, io2, ss2, N, M)
  <2> HIDE DEF N, M, r
  <2>1. /\ N \in Nat /\ M \in Nat /\ DOMAIN ss = 1 .. N /\ DOMAIN io = 1 .. M
        /\ ss2 \in Seq(SessionOf(n)) /\ io2 \in Seq(HandlerOf(ss2, n))
    BY <1>1, <1>4, <1>10
  <2>2. \A j \in DOMAIN pkts : /\ N + j \in DOMAIN ss2 /\ Pairs(ss2[N + j]) = 1
                               /\ ss2[N + j].captured = <<pkts[j]>> /\ ss2[N + j].reads = 1
    BY <1>2, <1>5
  <2>3. \A j \in DOMAIN pkts : /\ M + j \in DOMAIN io2
                               /\ io2[M + j].run = "read" /\ io2[M + j].read = [sid |-> N + j, nr |-> 1]
                               /\ io2[M + j].pkt = pkts[j]
    BY <1>7, <1>11
  <2>4. QED
    BY <1>5, <1>11, <1>12, <2>1, <2>2, <2>3 DEF Thrown
<1>14. QED
  BY <1>13 DEF io2, ss2, h, t

\* Every one of these reads has its packet and is posted, behind all that was.
LEMMA ThrewCore ==
    ASSUME NEW rw, NEW io, NEW ss, NEW d, NEW n \in Nat, Core(rw, io, ss, d, n), NEW e, NEW pkts,
           NEW io2, NEW ss2, NEW N, NEW M, Thrown(io, ss, n, e, pkts, io2, ss2, N, M)
    PROVE  Core(rw, io2, ss2, d, n) /\ Posts(io, io2)
<1>1. /\ ss \in Seq(SessionOf(n)) /\ DOMAIN rw \subseteq Ends /\ io \in Seq(HandlerOf(ss, n))
      /\ d \in Seq(CompletionOf(ss, n)) /\ \A f \in DOMAIN rw : rw[f] \in RawOf(ss, n)
      /\ RawKnown(rw, ss) /\ GivenFits(io, ss, d) /\ GivenOnce(io, d)
  BY DEF Core, PartsTyped
<1>2. /\ N \in Nat /\ M \in Nat /\ DOMAIN ss = 1 .. N /\ DOMAIN io = 1 .. M
      /\ ss2 \in Seq(SessionOf(n)) /\ io2 \in Seq(HandlerOf(ss2, n))
      /\ \A t \in DOMAIN ss : t \in DOMAIN ss2 /\ ss2[t] = ss[t]
      /\ \A i \in DOMAIN io : i \in DOMAIN io2 /\ io2[i] = io[i]
      /\ \A t \in DOMAIN ss2 : t \in DOMAIN ss \/ \E j \in DOMAIN pkts : t = N + j
      /\ \A i \in DOMAIN io2 : i \in DOMAIN io \/ \E j \in DOMAIN pkts : i = M + j
      /\ DOMAIN pkts \subseteq Nat \ {0}
  BY DEF Thrown
<1>3. \A j \in DOMAIN pkts : /\ N + j \in DOMAIN ss2 /\ Pairs(ss2[N + j]) = 1
                             /\ ss2[N + j].captured = <<pkts[j]>>
                             /\ M + j \in DOMAIN io2
                             /\ io2[M + j].run = "read" /\ io2[M + j].read = [sid |-> N + j, nr |-> 1]
                             /\ io2[M + j].pkt = pkts[j]
  BY DEF Thrown
<1>4. Posts(io, io2)
  <2>1. \A j \in DOMAIN pkts : io2[M + j].run = "read"
    BY <1>3, Zenon
  <2>2. QED
    BY <1>2, <2>1, Zenon DEF Posts
<1>5. PartsTyped(rw, io2, ss2, d, n)
  <2>1. n <= n /\ DOMAIN ss \subseteq DOMAIN ss2
    BY <1>2
  <2>2. RawOf(ss, n) \subseteq RawOf(ss2, n) /\ CompletionOf(ss, n) \subseteq CompletionOf(ss2, n)
    BY <2>1, TypesGrow
  <2>3. d \in Seq(CompletionOf(ss2, n))
    BY <1>1, <2>2, SeqMonotonic
  <2>4. QED
    BY <1>1, <1>2, <2>2, <2>3 DEF PartsTyped
<1>6. RawKnown(rw, ss2)
  <2>1. \A f \in DOMAIN rw : RawIs(f, rw[f], ss[rw[f].sid]) /\ rw[f].sid \in DOMAIN ss
    BY <1>1 DEF RawKnown, RawOf
  <2>2. QED
    BY <1>2, <2>1 DEF RawKnown
<1>7. /\ \A i \in ReadsAt(io) : io[i].read.sid \in DOMAIN ss
      /\ \A i \in DOMAIN d : d[i].read.sid \in DOMAIN ss
  BY GivenTyped DEF Core, ReadOf
<1>8. /\ \A i \in ReadsAt(io2) : i \in ReadsAt(io) \/ \E j \in DOMAIN pkts : i = M + j
      /\ \A i \in ReadsAt(io) : i \in ReadsAt(io2) /\ io2[i] = io[i]
      /\ \A j \in DOMAIN pkts : M + j \in ReadsAt(io2)
  BY <1>2, <1>3 DEF ReadsAt
<1>9. \A j \in DOMAIN pkts : io2[M + j].read.sid = N + j /\ io2[M + j].read.nr = 1 /\ N + j \notin DOMAIN ss
  <2>1. \A j \in DOMAIN pkts : N + j \notin 1 .. N
    BY <1>2
  <2>2. \A x : [sid |-> x, nr |-> 1].sid = x /\ [sid |-> x, nr |-> 1].nr = 1
    OBVIOUS
  <2>3. \A j \in DOMAIN pkts : io2[M + j].read = [sid |-> N + j, nr |-> 1]
    BY <1>3, Zenon
  <2>4. QED
    BY <1>2, <2>1, <2>2, <2>3, Zenon
<1>10. GivenFits(io2, ss2, d)
  <2>1. \A i \in ReadsAt(io2) : Fits(io2[i].read, io2[i].pkt, ss2[io2[i].read.sid])
    <3> SUFFICES ASSUME NEW i \in ReadsAt(io2) PROVE Fits(io2[i].read, io2[i].pkt, ss2[io2[i].read.sid])
      OBVIOUS
    <3>1. CASE i \in ReadsAt(io)
      <4>1. Fits(io[i].read, io[i].pkt, ss[io[i].read.sid]) /\ io[i].read.sid \in DOMAIN ss /\ io2[i] = io[i]
        BY <1>1, <1>7, <1>8, <3>1 DEF GivenFits
      <4>2. QED
        BY <1>2, <4>1
    <3>2. ASSUME NEW j \in DOMAIN pkts, i = M + j PROVE Fits(io2[i].read, io2[i].pkt, ss2[io2[i].read.sid])
      <4>1. /\ io2[i].read.sid = N + j /\ io2[i].read.nr = 1 /\ io2[i].pkt = pkts[j]
            /\ Pairs(ss2[N + j]) = 1 /\ ss2[N + j].captured = <<pkts[j]>>
        BY <1>3, <1>9, <3>2
      <4>2. <<pkts[j]>>[1] = pkts[j]
        OBVIOUS
      <4>3. QED
        BY <4>1, <4>2 DEF Fits
    <3>3. QED
      BY <1>8, <3>1, <3>2
  <2>2. \A i \in DOMAIN d : Fits(d[i].read, d[i].pkt, ss2[d[i].read.sid])
    BY <1>1, <1>2, <1>7 DEF GivenFits
  <2>3. ASSUME NEW t \in DOMAIN ss2, NEW m \in 1 .. Pairs(ss2[t])
        PROVE  Given([sid |-> t, nr |-> m], io2, d)
    <3>1. CASE t \in DOMAIN ss
      <4>1. Given([sid |-> t, nr |-> m], io, d)
        BY <1>1, <1>2, <2>3, <3>1 DEF GivenFits
      <4>2. QED
        BY <1>8, <4>1 DEF Given
    <3>2. ASSUME NEW j \in DOMAIN pkts, t = N + j PROVE Given([sid |-> t, nr |-> m], io2, d)
      <4>1. m = 1
        <5>1. Pairs(ss2[N + j]) = 1
          BY <1>3, Zenon
        <5>2. m \in 1 .. 1
          BY ONLY <2>3, <3>2, <5>1, Zenon
        <5>3. QED
          BY ONLY <5>2
      <4>2. io2[M + j].read = [sid |-> t, nr |-> m]
        BY <1>3, <3>2, <4>1
      <4>3. QED
        BY <1>8, <4>2 DEF Given
    <3>3. QED
      BY <1>2, <3>1, <3>2
  <2>4. QED
    BY <2>1, <2>2, <2>3 DEF GivenFits
<1>11. GivenOnce(io2, d)
  <2>1. \A i, j \in DOMAIN d : d[i].read = d[j].read => i = j
    BY <1>1 DEF GivenOnce
  <2>2. ASSUME NEW i \in ReadsAt(io2), NEW j \in ReadsAt(io2), i < j, io2[i].read.sid = io2[j].read.sid
        PROVE  io2[i].read.nr < io2[j].read.nr
    <3>1. CASE i \in ReadsAt(io) /\ j \in ReadsAt(io)
      BY <1>1, <1>8, <2>2, <3>1 DEF GivenOnce
    <3>2. CASE i \in ReadsAt(io) /\ j \notin ReadsAt(io)
      <4>1. io2[i].read.sid \in DOMAIN ss
        BY <1>7, <1>8, <3>2
      <4>2. io2[j].read.sid \notin DOMAIN ss
        BY <1>8, <1>9, <3>2
      <4>3. QED
        BY <2>2, <4>1, <4>2
    <3>3. CASE i \notin ReadsAt(io) /\ j \in ReadsAt(io)
      <4>1. io2[j].read.sid \in DOMAIN ss
        BY <1>7, <1>8, <3>3
      <4>2. io2[i].read.sid \notin DOMAIN ss
        BY <1>8, <1>9, <3>3
      <4>3. QED
        BY <2>2, <4>1, <4>2
    <3>4. CASE i \notin ReadsAt(io) /\ j \notin ReadsAt(io)
      <4>1. PICK a \in DOMAIN pkts : i = M + a
        BY <1>8, <3>4
      <4>2. PICK b \in DOMAIN pkts : j = M + b
        BY <1>8, <3>4
      <4>3. N + a = N + b
        BY <1>9, <2>2, <4>1, <4>2
      <4>4. a \in Nat /\ b \in Nat
        BY <1>2
      <4>5. a = b
        BY <1>2, <4>3, <4>4
      <4>6. QED
        BY <1>2, <2>2, <4>1, <4>2, <4>4, <4>5
    <3>5. QED
      BY <3>1, <3>2, <3>3, <3>4
  <2>3. ASSUME NEW i \in DOMAIN d, NEW j \in ReadsAt(io2) PROVE d[i].read # io2[j].read
    <3>1. CASE j \in ReadsAt(io)
      BY <1>1, <1>8, <3>1 DEF GivenOnce
    <3>2. CASE j \notin ReadsAt(io)
      <4>1. io2[j].read.sid \notin DOMAIN ss
        BY <1>8, <1>9, <3>2
      <4>2. QED
        BY <1>7, <4>1
    <3>3. QED
      BY <3>1, <3>2
  <2>4. QED
    BY <2>1, <2>2, <2>3 DEF GivenOnce
<1>12. QED
  BY <1>4, <1>5, <1>6, <1>10, <1>11 DEF Core

\* Which packets are captured behind them.
LEMMA ThrownCaptures ==
    ASSUME NEW io, NEW ss, NEW n, NEW e, NEW pkts, NEW io2, NEW ss2, NEW N, NEW M,
           Thrown(io, ss, n, e, pkts, io2, ss2, N, M)
    PROVE  \A p, t, i : IsCaptured(ss2, p, t, i) <=>
                \/ IsCaptured(ss, p, t, i)
                \/ \E j \in DOMAIN pkts : t = N + j /\ i = 1 /\ p = pkts[j]
<1>1. /\ \A t \in DOMAIN ss : t \in DOMAIN ss2 /\ ss2[t] = ss[t]
      /\ \A t \in DOMAIN ss2 : t \in DOMAIN ss \/ \E j \in DOMAIN pkts : t = N + j
  BY DEF Thrown
<1>2. \A j \in DOMAIN pkts : N + j \in DOMAIN ss2 /\ ss2[N + j].captured = <<pkts[j]>> /\ N + j \notin DOMAIN ss
  <2>1. N \in Nat /\ DOMAIN ss = 1 .. N /\ DOMAIN pkts \subseteq Nat \ {0}
    BY DEF Thrown
  <2>2. \A j \in Nat \ {0} : N + j \notin 1 .. N
    BY <2>1
  <2>3. \A j \in DOMAIN pkts : N + j \in DOMAIN ss2 /\ ss2[N + j].captured = <<pkts[j]>>
    BY Zenon DEF Thrown
  <2>4. QED
    BY ONLY <2>1, <2>2, <2>3, Zenon
<1>3. \A x : DOMAIN <<x>> = {1} /\ <<x>>[1] = x
  OBVIOUS
<1>4. ASSUME NEW j \in DOMAIN pkts, NEW p, NEW i PROVE IsCaptured(ss2, p, N + j, i) <=> i = 1 /\ p = pkts[j]
  <2> DEFINE c == ss2[N + j].captured
  <2>1. DOMAIN c = {1} /\ c[1] = pkts[j] /\ N + j \in DOMAIN ss2
    BY <1>2, <1>3, Zenon
  <2> HIDE DEF c
  <2>2. QED
    BY <2>1, Zenon DEF IsCaptured, c
<1>5. ASSUME NEW t \in DOMAIN ss, NEW p, NEW i PROVE IsCaptured(ss2, p, t, i) <=> IsCaptured(ss, p, t, i)
  BY <1>1, Zenon DEF IsCaptured
<1>6. \A p, t, i : /\ IsCaptured(ss2, p, t, i) => t \in DOMAIN ss2
                   /\ IsCaptured(ss, p, t, i) => t \in DOMAIN ss
  BY Zenon DEF IsCaptured
<1>7. ASSUME NEW p, NEW t, NEW i
      PROVE  IsCaptured(ss2, p, t, i) <=>
                \/ IsCaptured(ss, p, t, i)
                \/ \E j \in DOMAIN pkts : t = N + j /\ i = 1 /\ p = pkts[j]
  <2>1. CASE t \in DOMAIN ss
    <3>1. \A j \in DOMAIN pkts : t # N + j
      BY <1>2, <2>1
    <3>2. QED
      BY <1>5, <2>1, <3>1, Zenon
  <2>2. CASE t \notin DOMAIN ss
    <3>1. ~IsCaptured(ss, p, t, i)
      BY <1>6, <2>2, Zenon
    <3>2. IsCaptured(ss2, p, t, i) => \E j \in DOMAIN pkts : t = N + j
      BY <1>1, <1>6, <2>2, Zenon
    <3>3. \A j \in DOMAIN pkts : t = N + j => (IsCaptured(ss2, p, t, i) <=> i = 1 /\ p = pkts[j])
      BY <1>4, Zenon
    <3>4. QED
      BY ONLY <3>1, <3>2, <3>3, Zenon
  <2>3. QED
    BY <2>1, <2>2
<1>8. QED
  BY <1>7, Zenon

\* Nothing changes for the other packets.
LEMMA ThrewSame ==
    ASSUME NEW io, NEW ss, NEW n, NEW e, NEW pkts, NEW io2, NEW ss2, NEW N, NEW M,
           Thrown(io, ss, n, e, pkts, io2, ss2, N, M), NEW rw, NEW u, NEW l, NEW l2, NEW id,
           id \in l2 <=> id \in l, \A j \in DOMAIN pkts : pkts[j] # Whole(id) /\ pkts[j] # Remains(id)
    PROVE  SameOf(rw, ss, u, l, rw, ss2, u, l2, id)
<1>1. \A t, i : /\ IsCaptured(ss2, Whole(id), t, i) <=> IsCaptured(ss, Whole(id), t, i)
                /\ IsCaptured(ss2, Remains(id), t, i) <=> IsCaptured(ss, Remains(id), t, i)
  <2>1. \A p, t, i : IsCaptured(ss2, p, t, i) <=>
                \/ IsCaptured(ss, p, t, i)
                \/ \E j \in DOMAIN pkts : t = N + j /\ i = 1 /\ p = pkts[j]
    BY ThrownCaptures
  <2>2. ASSUME NEW p, \A j \in DOMAIN pkts : pkts[j] # p, NEW t, NEW i
        PROVE  IsCaptured(ss2, p, t, i) <=> IsCaptured(ss, p, t, i)
    BY ONLY <2>1, <2>2, SMT
  <2>3. /\ \A j \in DOMAIN pkts : pkts[j] # Whole(id)
        /\ \A j \in DOMAIN pkts : pkts[j] # Remains(id)
    OBVIOUS
  <2>4. QED
    BY ONLY <2>2, <2>3, Zenon
<1>2. \A t \in DOMAIN ss : ss2[t] = ss[t]
  BY DEF Thrown
<1>3. \A t, i : IsCaptured(ss, Whole(id), t, i) => /\ IsDropped(rw, ss2, t, i) <=> IsDropped(rw, ss, t, i)
                                                   /\ i <= ss[t].reads => i <= ss2[t].reads
  BY <1>2, Zenon DEF IsCaptured, IsDropped
<1>4. HasRemains(ss2, u, id) <=> HasRemains(ss, u, id)
  BY <1>1, Zenon DEF HasRemains
<1>5. QED
  BY <1>1, <1>3, <1>4, Zenon DEF SameOf, SameWhole

\* The packet n + 1 was moved into the raw_state of the first callback that
\* threw: it has a read, b, or is lost, and what the others captured are its
\* remains.
LEMMA ThrewPlaced ==
    ASSUME NEW rw, NEW ss, NEW u, NEW l, NEW n \in Nat, Placed(rw, ss, u, l, n),
           NEW io, NEW k, NEW e, NEW pkts, NEW io2, NEW ss2, NEW N, NEW M,
           Thrown(io, ss, k, e, pkts, io2, ss2, N, M), NEW b \in BOOLEAN, b => 1 \in DOMAIN pkts,
           \A j \in DOMAIN pkts : pkts[j] = IF j = 1 /\ b THEN Whole(n + 1) ELSE Remains(n + 1),
           NEW l2, l2 = IF b THEN l ELSE l \cup {n + 1}
    PROVE  Placed(rw, ss2, u, l2, n + 1) /\ MovedAway(ss2, u, n + 1)
<1> DEFINE m == n + 1
<1>1. Unknown(ss, u, l, m)
  BY NextUnknown
<1> HIDE DEF m
<1>2. \A j \in DOMAIN pkts : pkts[j] = Whole(m) \/ pkts[j] = Remains(m)
  BY DEF m
<1>3. \A id : id # m => SameOf(rw, ss, u, l, rw, ss2, u, l2, id)
  <2> SUFFICES ASSUME NEW id, id # m PROVE SameOf(rw, ss, u, l, rw, ss2, u, l2, id)
    OBVIOUS
  <2>1. \A j \in DOMAIN pkts : pkts[j] # Whole(id) /\ pkts[j] # Remains(id)
    BY <1>2, WholeOrRemains
  <2>2. id \in l2 <=> id \in l
    BY DEF m
  <2>3. QED
    BY <2>1, <2>2, ThrewSame
<1>4. \A t, i : IsCaptured(ss2, Whole(m), t, i) <=> \E j \in DOMAIN pkts : t = N + j /\ i = 1 /\ Whole(m) = pkts[j]
  BY <1>1, ThrownCaptures DEF Unknown
<1>5. \A k1 : ~IsSent(u, Whole(m), k1)
  BY <1>1 DEF Unknown
<1>6. CASE b
  <2>1. \A j \in DOMAIN pkts : Whole(m) = pkts[j] <=> j = 1
    BY <1>6, WholeOrRemains DEF m
  <2>2. \A t, i : IsCaptured(ss2, Whole(m), t, i) <=> t = N + 1 /\ i = 1
    BY <1>4, <1>6, <2>1
  <2>3. ss2[N + 1].reads = 1
    BY <1>6, Zenon DEF Thrown
  <2>4. ~IsDropped(rw, ss2, N + 1, 1) /\ 1 <= ss2[N + 1].reads
    BY <2>3 DEF IsDropped
  <2>5. m \notin l2
    BY <1>1, <1>6 DEF Unknown, m
  <2>6. Known(rw, ss2, u, l2, m)
    BY <1>5, <2>2, <2>4, <2>5, KnownCaptured
  <2>7. MovedAway(ss2, u, m)
    BY <1>5, <2>2, <2>4, Zenon DEF MovedAway
  <2>8. QED
    BY <1>3, <2>6, <2>7, PlacedArrives DEF m
<1>7. CASE ~b
  <2>1. \A t, i : ~IsCaptured(ss2, Whole(m), t, i)
    BY <1>4, <1>7, WholeOrRemains DEF m
  <2>2. m \in l2
    BY <1>7 DEF m
  <2>3. OncePlaced(rw, ss2, u, l2, m) /\ MovedAway(ss2, u, m)
    BY <1>5, <2>1, <2>2 DEF OncePlaced, MovedAway
  <2>4. Known(rw, ss2, u, l2, m)
    BY <2>3 DEF Known
  <2>5. QED
    BY <1>3, <2>3, <2>4, PlacedArrives DEF m
<1>8. QED
  BY <1>6, <1>7

\* p has been dispatched as the k-th.
SentAt(u, u2, p, k) == \A x, j : IsSent(u2, x, j) <=> IsSent(u, x, j) \/ (x = p /\ j = k)

\* Nothing changes for the other packets.
LEMMA SentSame ==
    ASSUME NEW u, NEW u2, NEW p, NEW k, SentAt(u, u2, p, k), NEW id, p # Whole(id), NEW rw, NEW ss, NEW l
    PROVE  /\ SameWhole(rw, ss, u, l, rw, ss, u2, l, id)
           /\ p # Remains(id) => SameOf(rw, ss, u, l, rw, ss, u2, l, id)
<1>1. SameWhole(rw, ss, u, l, rw, ss, u2, l, id)
  BY DEF SentAt, SameWhole
<1>2. p # Remains(id) => (HasRemains(ss, u2, id) <=> HasRemains(ss, u, id))
  BY DEF SentAt, HasRemains
<1>3. QED
  BY <1>1, <1>2 DEF SameOf

\* The packet that arrives, or the remains of one that was moved away, goes on to
\* tcb_manager.
LEMMA PlacedSent ==
    ASSUME NEW rw, NEW ss, NEW u, NEW l, NEW n \in Nat \ {0}, NEW u2, NEW p, NEW k, SentAt(u, u2, p, k),
           NEW m, Placed(rw, ss, u, l, m),
           \/ m \in Nat /\ n = m + 1 /\ p = Whole(n)
           \/ m = n /\ p = Remains(n) /\ MovedAway(ss, u, n)
    PROVE  Placed(rw, ss, u2, l, n)
<1>1. p = Whole(n) \/ p = Remains(n)
  OBVIOUS
<1>2. \A id : id # n => SameOf(rw, ss, u, l, rw, ss, u2, l, id)
  <2> SUFFICES ASSUME NEW id, id # n PROVE SameOf(rw, ss, u, l, rw, ss, u2, l, id)
    OBVIOUS
  <2>1. p # Whole(id) /\ p # Remains(id)
    BY <1>1, WholeOrRemains
  <2>2. QED
    BY <2>1, SentSame
<1>3. CASE m \in Nat /\ n = m + 1 /\ p = Whole(n)
  <2>1. Unknown(ss, u, l, n)
    BY <1>3, NextUnknown
  <2>2. \A j : IsSent(u2, Whole(n), j) <=> j = k
    BY <1>3, <2>1 DEF SentAt, Unknown
  <2>3. (\A s, i : ~IsCaptured(ss, Whole(n), s, i)) /\ n \notin l
    BY <2>1 DEF Unknown
  <2>4. OncePlaced(rw, ss, u2, l, n)
    BY <2>2, <2>3 DEF OncePlaced
  <2>5. ~HasRemains(ss, u2, n)
    BY <1>3, <2>1, WholeOrRemains DEF SentAt, Unknown, HasRemains
  <2>6. Known(rw, ss, u2, l, n)
    BY <2>4, <2>5 DEF Known
  <2>7. QED
    BY <1>2, <1>3, <2>6, PlacedArrives
<1>4. CASE m = n /\ p = Remains(n) /\ MovedAway(ss, u, n)
  <2>1. p # Whole(n)
    BY <1>4, WholeOrRemains
  <2>2. SameWhole(rw, ss, u, l, rw, ss, u2, l, n)
    BY <2>1, SentSame
  <2>3. QED
    BY <1>2, <1>4, <2>2, PlacedRemains
<1>5. QED
  BY <1>3, <1>4

\* The callbacks of interceptions are counted down, never below zero.
LEMMA CallbacksCount ==
    ASSUME Inv, NEW told, cbs' = cbs_pop(told)
    PROVE  cbs' \in [Interceptor -> Nat]
<1>1. cbs \in [Interceptor -> Nat]
  BY DEF Inv, Others
<1>2. \A i \in Interceptor : (IF i \in told /\ cbs[i] > 0 THEN cbs[i] - 1 ELSE cbs[i]) \in Nat
  BY <1>1
<1>3. QED
  BY <1>2 DEF cbs_pop

\* What the k callbacks that throw leave behind, those of R after a read: the
\* packet n has arrived if there is one.
ThrownPkts(n, R) == [j \in 1 .. Cardinality(R) |-> [id |-> n, intact |-> j = 1 /\ 1 \in R]]
AfterThrows(io, ss, l, n, k) ==
    /\ Core(raw, io, ss, done, n) /\ LeaveKnown(io, q, down, written)
    /\ IF k = 0 THEN Placed(raw, ss, up, l, n - 1) ELSE Placed(raw, ss, up, l, n) /\ MovedAway(ss, up, n)
ThrowsTo(e, n, R, l, k) ==
    \E io, ss, ev : Threw(Event(Now), e, ThrownPkts(n, R)) = Parts(raw, io, ss, ev) /\ AfterThrows(io, ss, l, n, k)

\* They leave it so.
LEMMA ThrowsLeave ==
    ASSUME Inv, NEW e \in Ends, NEW k \in Nat, NEW R \in SUBSET (1 .. k), NEW n, n = arrived + 1,
           NEW l, l = IF k > 0 /\ 1 \notin R THEN lost \cup {n} ELSE lost
    PROVE  ThrowsTo(e, n, R, l, k)
<1> DEFINE pkts == ThrownPkts(n, R)
           c == Cardinality(R)
           io == ioq \o ThrewHandlers(session, pkts)
           ss == session \o ThrewSessions(e, pkts)
           ev == events + 1 + Len(pkts)
           N == Len(session)
           M == Len(ioq)
<1>1. /\ Captures(raw, ioq, session, done, arrived, up, lost) /\ LeaveKnown(ioq, q, down, written)
      /\ arrived \in Nat /\ n \in Nat \ {0} /\ n - 1 = arrived
  BY DEF Inv, Others
<1>2. Core(raw, ioq, session, done, n) /\ Placed(raw, session, up, lost, arrived)
  BY <1>1, UpGrows DEF Captures
<1>3. session \in Seq(SessionOf(n)) /\ ioq \in Seq(HandlerOf(session, n))
  BY <1>2 DEF Core, PartsTyped
<1>4. c \in Nat /\ (k = 0 => c = 0) /\ (1 \in R => c # 0)
  <2>1. IsFiniteSet(1 .. k)
    BY FS_Interval
  <2>2. IsFiniteSet(R)
    BY <2>1, FS_Subset
  <2>3. c \in Nat /\ (c = 0 <=> R = {})
    BY <2>2, FS_CardinalityType, FS_EmptySet
  <2>4. k = 0 => R = {}
    OBVIOUS
  <2>5. QED
    BY <2>3, <2>4
<1>5. /\ DOMAIN pkts = 1 .. c
      /\ \A j \in 1 .. c : pkts[j] = IF j = 1 /\ 1 \in R THEN Whole(n) ELSE Remains(n)
  <2>1. DOMAIN pkts = 1 .. c
    BY DEF ThrownPkts
  <2>2. ASSUME NEW j \in 1 .. c PROVE pkts[j] = IF j = 1 /\ 1 \in R THEN Whole(n) ELSE Remains(n)
    <3>1. pkts[j] = [id |-> n, intact |-> j = 1 /\ 1 \in R]
      BY Zenon DEF ThrownPkts
    <3>2. CASE j = 1 /\ 1 \in R
      <4>1. (j = 1 /\ 1 \in R) = TRUE
        BY <3>2
      <4>2. QED
        BY <3>1, <3>2, <4>1, Zenon DEF Whole
    <3>3. CASE ~(j = 1 /\ 1 \in R)
      <4>1. (j = 1 /\ 1 \in R) = FALSE
        BY <3>3
      <4>2. QED
        BY <3>1, <3>3, <4>1, Zenon DEF Remains
    <3>4. QED
      BY <3>2, <3>3
  <2>3. QED
    BY <2>1, <2>2
<1>6. pkts \in Seq(PacketOf(n))
  <2>1. Whole(n) \in PacketOf(n) /\ Remains(n) \in PacketOf(n)
    BY <1>1, PacketIs
  <2>2. \A j \in 1 .. c : pkts[j] \in PacketOf(n)
    BY <1>5, <2>1, Zenon
  <2>3. pkts = [j \in 1 .. c |-> pkts[j]]
    BY Zenon DEF ThrownPkts
  <2> HIDE DEF pkts, c
  <2>4. pkts \in [1 .. c -> PacketOf(n)]
    BY <2>2, <2>3
  <2>5. QED
    BY <1>4, <2>4, FunctionIsSeq
<1> HIDE DEF pkts, c
<1>7. Thrown(ioq, session, n, e, pkts, io, ss, N, M)
  BY <1>1, <1>3, <1>6, ThrownIs
<1>8. Threw(Event(Now), e, pkts) = Parts(raw, io, ss, ev)
  BY EventNow, ThrewParts
<1> HIDE DEF io, ss, ev, N, M
<1>9. Core(raw, io, ss, done, n) /\ Posts(ioq, io)
  BY <1>1, <1>2, <1>7, ThrewCore
<1>10. LeaveKnown(io, q, down, written)
  BY <1>1, <1>3, <1>9, LeavePosts
<1>11. CASE k = 0
  <2>1. DOMAIN pkts = {} /\ l = lost
    BY <1>4, <1>5, <1>11
  <2>2. \A id : SameOf(raw, session, up, lost, raw, ss, up, l, id)
    BY <1>7, <2>1, ThrewSame
  <2>3. Placed(raw, ss, up, l, arrived)
    BY <1>2, <2>2, PlacedKept
  <2>4. QED
    BY <1>1, <1>8, <1>9, <1>10, <1>11, <2>3 DEF ThrowsTo, AfterThrows, pkts
<1>12. CASE k # 0
  <2> DEFINE b == 1 \in R
  <2>1. b \in BOOLEAN /\ l = IF b THEN lost ELSE lost \cup {arrived + 1}
    BY <1>12
  <2>2. b => 1 \in DOMAIN pkts
    BY <1>4, <1>5
  <2>3. \A j \in DOMAIN pkts : pkts[j] = IF j = 1 /\ b THEN Whole(arrived + 1) ELSE Remains(arrived + 1)
    BY <1>5, Zenon
  <2> HIDE DEF b
  <2>4. Placed(raw, ss, up, l, arrived + 1) /\ MovedAway(ss, up, arrived + 1)
    BY <1>1, <1>2, <1>7, <2>1, <2>2, <2>3, ThrewPlaced
  <2>5. QED
    BY <1>8, <1>9, <1>10, <1>12, <2>4 DEF ThrowsTo, AfterThrows, pkts
<1>13. QED
  BY <1>11, <1>12

\* tcp::make_packet when there is no raw_state.
LEMMA InterceptedInv ==
    ASSUME Inv, NEW e \in Ends, e \notin DOMAIN raw, arrived' = arrived + 1,
           Intercepted(Event(Now), e, arrived'), UNCHANGED done, UNCHANGED <<rules, q, down, written>>
    PROVE  Inv'
<1> DEFINE n == arrived + 1
           m == Matching(e)
<1>1. /\ arrived \in Nat /\ q \in Seq(Nat) /\ down \in Seq(Nat) /\ written \in Seq(Nat)
      /\ rules \in Seq(Interceptor) /\ n \in Nat \ {0}
  BY DEF Inv, Others
<1>2. up \in Seq([ends: Ends, pkt: PacketOf(n)])
  BY UpGrows
<1>3. PICK k \in 0 .. Len(m) : \E R \in SUBSET (1 .. k) :
        LET pkt  == [id |-> arrived', intact |-> k = 0]
            told == {m[j] : j \in DOMAIN m \cap (1 .. k + 1)}
            d    == Threw(Event(Now), e, ThrownPkts(arrived', R))
        IN  /\ \A j \in 1 .. k : cbs[m[j]] > 0
            /\ cbs' = cbs_pop(told)
            /\ lost' = IF k > 0 /\ 1 \notin R THEN lost \cup {arrived'} ELSE lost
            /\ IF k = Len(m)
               THEN up' = Append(up, [ends |-> e, pkt |-> pkt]) /\ Commit(d)
               ELSE /\ UNCHANGED up
                    /\ LET f == emplace(d, e, <<pkt>>)
                       IN  IF cbs[m[k + 1]] > 0 THEN Callback(f, e) ELSE Commit(f)
  BY Zenon DEF Intercepted, ThrownPkts
<1> DEFINE pkt  == [id |-> n, intact |-> k = 0]
           told == {m[j] : j \in DOMAIN m \cap (1 .. k + 1)}
           D(R) == Threw(Event(Now), e, ThrownPkts(n, R))
<1>4. PICK R \in SUBSET (1 .. k) :
            /\ cbs' = cbs_pop(told)
            /\ lost' = IF k > 0 /\ 1 \notin R THEN lost \cup {n} ELSE lost
            /\ \/ up' = Append(up, [ends |-> e, pkt |-> pkt]) /\ Commit(D(R))
               \/ UNCHANGED up /\ Callback(emplace(D(R), e, <<pkt>>), e)
               \/ UNCHANGED up /\ Commit(emplace(D(R), e, <<pkt>>))
  BY <1>3
<1>5. k \in Nat
  OBVIOUS
<1>6. cbs' \in [Interceptor -> Nat]
  BY <1>4, CallbacksCount
<1>7. /\ k = 0 => pkt = Whole(n)
      /\ k # 0 => pkt = Remains(n)
  <2>1. CASE k = 0
    <3>1. (k = 0) = TRUE
      BY <2>1
    <3>2. QED
      BY <2>1, <3>1, Zenon DEF Whole
  <2>2. CASE k # 0
    <3>1. (k = 0) = FALSE
      BY <2>2
    <3>2. QED
      BY <2>2, <3>1, Zenon DEF Remains
  <2>3. QED
    BY <2>1, <2>2
<1> HIDE DEF m, told, pkt
<1>8. PICK io, ss, ev : D(R) = Parts(raw, io, ss, ev) /\ AfterThrows(io, ss, lost', n, k)
  <2>1. n = arrived + 1 /\ lost' = IF k > 0 /\ 1 \notin R THEN lost \cup {n} ELSE lost
    BY <1>4
  <2> HIDE DEF n
  <2>2. ThrowsTo(e, n, R, lost', k)
    <3> DEFINE l2 == lost'
    <3>1. n = arrived + 1 /\ l2 = IF k > 0 /\ 1 \notin R THEN lost \cup {n} ELSE lost
      BY <2>1
    <3> HIDE DEF l2
    <3>2. ThrowsTo(e, n, R, l2, k)
      BY <1>5, <3>1, ThrowsLeave
    <3>3. QED
      BY <3>2 DEF l2
  <2>3. QED
    BY <2>2, Zenon DEF ThrowsTo
<1> HIDE DEF D
<1>9. /\ Core(raw, io, ss, done, n) /\ LeaveKnown(io, q, down, written)
      /\ k = 0 => Placed(raw, ss, up, lost', arrived)
      /\ k # 0 => Placed(raw, ss, up, lost', n) /\ MovedAway(ss, up, n)
  <2>1. n - 1 = arrived
    BY <1>1
  <2>2. QED
    BY <1>8, <2>1 DEF AfterThrows
<1>10. pkt \in PacketOf(n)
  BY <1>1, <1>7, PacketIs
<1>11. n = arrived + 1
  OBVIOUS
<1>12. arrived' = n /\ UNCHANGED <<rules, q, down, written, done>>
  OBVIOUS
<1> HIDE DEF n
<1>13. ASSUME Good(done, n, up', lost', q, down, written), up' \in Seq([ends: Ends, pkt: PacketOf(n)])
       PROVE  Inv'
  <2>1. Others'
    BY <1>1, <1>6, <1>12, <1>13 DEF Others, Good
  <2>2. QED
    BY <1>12, <1>13, <2>1 DEF Inv, Good
<1>14. CASE up' = Append(up, [ends |-> e, pkt |-> pkt]) /\ Commit(D(R))
  <2> DEFINE v == [ends |-> e, pkt |-> pkt]
             u2 == Append(up, v)
  <2>1. v \in [ends: Ends, pkt: PacketOf(n)] /\ v.pkt = pkt
    BY <1>10
  <2> HIDE DEF v
  <2>2. u2 \in Seq([ends: Ends, pkt: PacketOf(n)]) /\ IsAppend(up, v, u2)
    BY <1>2, <2>1, AppendProperties, AppendIs
  <2>3. up' = u2
    BY <1>14 DEF v
  <2> HIDE DEF u2
  <2>4. /\ DOMAIN u2 = DOMAIN up \cup {Len(up) + 1} /\ Len(up) + 1 \notin DOMAIN up
        /\ u2[Len(up) + 1] = v /\ \A i \in DOMAIN up : u2[i] = up[i]
    BY <2>2 DEF IsAppend
  <2>5. SentAt(up, u2, pkt, Len(up) + 1)
    <3> DEFINE j == Len(up) + 1
    <3> HIDE DEF j
    <3>1. DOMAIN u2 = DOMAIN up \cup {j} /\ j \notin DOMAIN up /\ u2[j].pkt = pkt /\ \A i \in DOMAIN up : u2[i] = up[i]
      BY <2>1, <2>4, Zenon DEF j
    <3>2. SentAt(up, u2, pkt, j)
      BY <3>1 DEF SentAt, IsSent
    <3>3. QED
      BY <3>2 DEF j
  <2>6. Placed(raw, ss, u2, lost', n)
    <3>1. CASE k = 0
      BY <1>1, <1>7, <1>9, <1>11, <2>5, <3>1, PlacedSent
    <3>2. CASE k # 0
      BY <1>1, <1>7, <1>9, <2>5, <3>2, PlacedSent
    <3>3. QED
      BY <3>1, <3>2
  <2>7. Committed(raw, io, ss)
    BY <1>8, <1>14, CommitIs
  <2>8. Good(done, n, u2, lost', q, down, written)
    BY <1>9, <2>6, <2>7 DEF Good, Captures, Committed
  <2>9. QED
    BY <1>13, <2>2, <2>3, <2>8
<1> DEFINE pq == <<pkt>>
<1>15. pq \in Seq(PacketOf(n))
  BY <1>10
<1>16. /\ k = 0 => pq = <<Whole(n)>>
       /\ k # 0 => pq = <<Remains(n)>>
  BY <1>7, Zenon
<1> HIDE DEF pq
<1> DEFINE rw2 == RawPlus(raw, ss, e, pq)
           ss2 == SessionPlus(ss, e, pq)
<1>17. emplace(D(R), e, pq) = Parts(rw2, io, ss2, ev)
  BY <1>8, PartsNow
<1>18. Captures(rw2, io, ss2, done, n, up, lost')
  <2>1. n \in Nat /\ n # 0
    BY <1>1
  <2>2. CASE k = 0
    BY <1>1, <1>9, <1>11, <1>15, <1>16, <2>1, <2>2, EmplaceCaptures
  <2>3. CASE k # 0
    BY <1>9, <1>15, <1>16, <2>1, <2>3, EmplaceCaptures
  <2>4. QED
    BY <2>2, <2>3
<1> HIDE DEF rw2, ss2
<1>19. CASE UNCHANGED up /\ Callback(emplace(D(R), e, <<pkt>>), e)
  <2>1. Callback(Parts(rw2, io, ss2, ev), e)
    BY <1>17, <1>19 DEF pq
  <2>2. Good(done, n, up, lost', q, down, written)
    BY <1>1, <1>9, <1>18, <2>1, CallbackGood
  <2>3. QED
    BY <1>2, <1>13, <1>19, <2>2 DEF n
<1>20. CASE UNCHANGED up /\ Commit(emplace(D(R), e, <<pkt>>))
  <2>1. Committed(rw2, io, ss2)
    BY <1>17, <1>20, CommitIs DEF pq
  <2>2. Good(done, n, up, lost', q, down, written)
    BY <1>9, <1>18, <2>1 DEF Good, Committed
  <2>3. QED
    BY <1>2, <1>13, <1>20, <2>2 DEF n
<1>21. QED
  BY <1>4, <1>14, <1>19, <1>20

\* tcp::make_packet keeps the invariant, with and without a raw_state.
LEMMA MakePacketInv ==
    ASSUME Inv, NEW e \in Ends, make_packet(e)
    PROVE  Inv'
<1> DEFINE n == arrived + 1
<1>1. arrived' = n /\ UNCHANGED <<rules, q, down, written>>
  BY DEF make_packet
<1>2. CASE e \in DOMAIN raw
  <2> DEFINE pkt == [id |-> n, intact |-> TRUE]
             ev == events + 1
  <2>1. Captured(Event(Now), e, pkt) /\ UNCHANGED <<cbs, up, lost>>
    BY <1>1, <1>2, Zenon DEF make_packet
  <2>2. /\ Captures(raw, ioq, session, done, arrived, up, lost) /\ LeaveKnown(ioq, q, down, written)
        /\ arrived \in Nat /\ q \in Seq(Nat) /\ down \in Seq(Nat) /\ written \in Seq(Nat)
        /\ rules \in Seq(Interceptor) /\ cbs \in [Interceptor -> Nat]
    BY DEF Inv, Others
  <2>3. n \in Nat /\ up \in Seq([ends: Ends, pkt: PacketOf(n)])
    BY UpGrows
  <2>4. pkt \in PacketOf(n) /\ pkt = Whole(n)
    <3>1. n \in Nat \ {0}
      BY <2>2
    <3> HIDE DEF n
    <3>2. pkt = Whole(n)
      BY Zenon DEF Whole
    <3>3. QED
      BY <3>1, <3>2, PacketIs, Zenon
  <2> HIDE DEF pkt
  <2>5. Event(Now) = Parts(raw, ioq, session, ev)
    BY EventNow
  <2> HIDE DEF ev
  <2>6. Captured(Parts(raw, ioq, session, ev), e, pkt)
    BY <2>1, <2>5
  <2>7. Good(done', n, up, lost, q, down, written)
    BY <1>2, <2>2, <2>4, <2>6, CapturedGood
  <2> HIDE DEF n
  <2>8. Others'
    BY <1>1, <2>1, <2>2, <2>3, <2>7 DEF Others, Good
  <2>9. QED
    BY <1>1, <2>1, <2>7, <2>8 DEF Inv, Good
<1>3. CASE e \notin DOMAIN raw
  <2>1. Intercepted(Event(Now), e, arrived') /\ UNCHANGED done
    BY <1>3 DEF make_packet
  <2>2. QED
    BY <1>1, <1>3, <2>1, InterceptedInv
<1>4. QED
  BY <1>2, <1>3

\* What an interceptor does by itself keeps it.
LEMMA InterceptorInv ==
    ASSUME Inv, NEW i \in Interceptor, new_interceptor(i) \/ async_intercept(i)
    PROVE  Inv'
<1>1. /\ Captures(raw, ioq, session, done, arrived, up, lost) /\ LeaveKnown(ioq, q, down, written)
      /\ rules \in Seq(Interceptor) /\ cbs \in [Interceptor -> Nat]
  BY DEF Inv, Others
<1>2. CASE new_interceptor(i)
  <2>1. /\ rules' = Append(rules, i)
        /\ UNCHANGED <<cbs, raw, ioq, q, up, down, session, done, written, lost, arrived, events>>
    BY <1>2 DEF new_interceptor
  <2>2. rules' \in Seq(Interceptor)
    BY <1>1, <2>1, AppendProperties
  <2>3. Others'
    BY <2>1, <2>2 DEF Inv, Others
  <2>4. QED
    BY <1>1, <2>1, <2>3 DEF Inv
<1>3. CASE async_intercept(i)
  <2>1. /\ Commit(Event(Now)) /\ cbs' = [cbs EXCEPT ![i] = @ + 1]
        /\ UNCHANGED <<rules, q, up, down, done, written, lost, arrived>>
    BY <1>3 DEF async_intercept
  <2>2. Commit(Parts(raw, ioq, session, events + 1))
    BY <2>1, PartsNow
  <2>3. Committed(raw, ioq, session)
    BY <2>2, CommitIs
  <2>4. cbs' \in [Interceptor -> Nat]
    BY <1>1, <2>1
  <2>5. Others'
    BY <2>1, <2>3, <2>4 DEF Inv, Others, Committed
  <2>6. QED
    BY <1>1, <2>1, <2>3, <2>5 DEF Inv, Committed
<1>4. QED
  BY <1>2, <1>3

\* Every step keeps the invariant.
LEMMA NextInv ==
    ASSUME Inv, [Next]_vars
    PROVE  Inv'
<1>1. CASE UNCHANGED vars
  <2>1. UNCHANGED <<rules, cbs, raw, ioq, q, up, down, session, done, written, lost, arrived, events>>
    BY <1>1 DEF vars
  <2>2. Others'
    BY <2>1 DEF Inv, Others
  <2>3. QED
    BY <2>1, <2>2 DEF Inv
<1>2. CASE Next
  <2>1. ASSUME NEW e \in Ends, async_read(e) \/ attach(e) \/ detach(e) \/ make_packet(e) PROVE Inv'
    BY <2>1, ReadInv, AttachInv, DetachInv, MakePacketInv
  <2>2. ASSUME NEW i \in Interceptor, new_interceptor(i) \/ async_intercept(i) PROVE Inv'
    BY <2>2, InterceptorInv
  <2>3. CASE async_write \/ process
    BY <2>3, SendInv DEF async_write, process
  <2>4. CASE Run
    BY <2>4, RunReadInv, RunEnqueueInv, RunWrittenInv DEF Run
  <2>5. QED
    BY <1>2, <2>1, <2>2, <2>3, <2>4 DEF Next
<1>3. QED
  BY <1>1, <1>2

\* The invariant holds when nothing has happened.
LEMMA InitInv == Init => Inv
<1> SUFFICES ASSUME Init PROVE Inv
  OBVIOUS
<1>1. /\ rules = <<>> /\ raw = <<>> /\ ioq = <<>> /\ q = <<>> /\ up = <<>> /\ down = <<>> /\ session = <<>>
      /\ done = <<>> /\ written = <<>> /\ lost = {} /\ arrived = 0 /\ events = 0
      /\ cbs = [i \in Interceptor |-> 0]
  BY DEF Init
<1>2. /\ DOMAIN raw = {} /\ DOMAIN ioq = {} /\ DOMAIN session = {} /\ DOMAIN done = {} /\ DOMAIN up = {}
      /\ DOMAIN down = {} /\ DOMAIN q = {} /\ DOMAIN written = {}
  BY <1>1
<1>3. Others
  BY <1>1, EmptySeq, RawTcpConstants DEF Others
<1>4. Core(raw, ioq, session, done, arrived)
  <2>1. PartsTyped(raw, ioq, session, done, arrived)
    BY <1>1, <1>2, EmptySeq DEF PartsTyped
  <2>2. RawKnown(raw, session) /\ GivenFits(ioq, session, done) /\ GivenOnce(ioq, done)
    BY <1>2 DEF RawKnown, GivenFits, GivenOnce, ReadsAt
  <2>3. QED
    BY <2>1, <2>2 DEF Core
<1>5. Placed(raw, session, up, lost, arrived)
  <2>1. (\A p, s, i : ~IsCaptured(session, p, s, i)) /\ \A p, k : ~IsSent(up, p, k)
    BY <1>2 DEF IsCaptured, IsSent
  <2>2. \A id : id \notin 1 .. arrived
    BY <1>1
  <2>3. \A id : Unknown(session, up, lost, id)
    BY <1>1, <2>1, Zenon DEF Unknown, HasRemains
  <2>4. QED
    BY <2>2, <2>3, Zenon DEF Placed
<1>6. LeaveKnown(ioq, q, down, written)
  <2>1. EnqueueAt(ioq) = {} /\ Len(q) = 0
    BY <1>1, <1>2, EmptySeq DEF EnqueueAt
  <2>2. Cardinality(EnqueueAt(ioq)) = 0
    BY <2>1, FS_EmptySet
  <2>3. QED
    BY <1>2, <2>1, <2>2 DEF LeaveKnown
<1>7. QED
  BY <1>3, <1>4, <1>5, <1>6 DEF Inv, Captures

\* The invariant holds of every reachable state.
LEMMA InvHolds == Spec => []Inv
<1>1. Init => Inv
  BY InitInv
<1>2. Inv /\ [Next]_vars => Inv'
  BY NextInv
<1>3. QED
  BY <1>1, <1>2, PTL DEF Spec

-----------------------------------------------------------------------------
(* The theorems *)

\* Of every reachable state: what tcp, its raw_states, its posted handlers and
\* its queues hold is of the declared types, and the session of a raw_state has
\* its two ends.
THEOREM RawTcpTypeOK == Spec => []TypeOK
<1>1. Inv => TypeOK
  <2> SUFFICES ASSUME Inv PROVE TypeOK
    OBVIOUS
  <2>1. Core(raw, ioq, session, done, arrived) /\ Placed(raw, session, up, lost, arrived)
    BY DEF Inv, Captures
  <2>2. PartsTyped(raw, ioq, session, done, arrived) /\ RawKnown(raw, session)
    BY <2>1 DEF Core
  <2>3. lost \subseteq 1 .. arrived
    <3> SUFFICES ASSUME NEW id \in lost PROVE id \in 1 .. arrived
      OBVIOUS
    <3>1. ~Unknown(session, up, lost, id)
      BY Zenon DEF Unknown
    <3>2. QED
      BY <2>1, <3>1, Zenon DEF Placed
  <2>4. Packet = PacketOf(arrived) /\ Read = ReadOf(session)
    BY DEF Packet, PacketOf, Read, ReadOf
  <2>5. /\ session \in Seq([ends: Ends, captured: Seq(Packet), reads: Nat])
        /\ ioq \in Seq([run: {"read"}, read: Read, pkt: Packet] \cup [run: {"enqueue"}]
                        \cup [run: {"written"}, pkt: Nat])
        /\ done \in Seq([read: Read, pkt: Packet])
    BY <2>2, <2>4 DEF PartsTyped, SessionOf, HandlerOf, CompletionOf
  <2>6. \A e \in DOMAIN raw :
            /\ raw[e] \in [sid: DOMAIN session, pq: Seq(Packet), on_data_receive: Seq(Read)]
            /\ session[raw[e].sid].ends = e
    BY <2>2, <2>4 DEF PartsTyped, RawOf, RawKnown, RawIs
  <2>7. up \in Seq([ends: Ends, pkt: Packet]) /\ {q, down, written} \subseteq Seq(Nat)
    BY <2>4 DEF Inv, Others
  <2>8. QED
    BY <2>2, <2>3, <2>5, <2>6, <2>7 DEF TypeOK, Inv, Others, PartsTyped
<1>2. QED
  BY <1>1, InvHolds, PTL

\* The completions that are posted or have run, by their positions.
LEMMA Completions ==
    ASSUME Inv
    PROVE  /\ \A c : c \in Posted <=> \E i \in ReadsAt(ioq) : c = [read |-> ioq[i].read, pkt |-> ioq[i].pkt]
           /\ \A c : c \in Finished <=> \E i \in DOMAIN done : c = done[i]
           /\ \A c \in Posted \cup Finished : c \in CompletionOf(session, arrived)
           /\ \A i \in DOMAIN done : done[i] = [read |-> done[i].read, pkt |-> done[i].pkt]
<1>1. PartsTyped(raw, ioq, session, done, arrived)
  BY DEF Inv, Captures, Core
<1>2. \A i \in DOMAIN done : done[i] \in CompletionOf(session, arrived)
  BY <1>1 DEF PartsTyped
<1>3. \A i \in DOMAIN ioq : ioq[i] \in HandlerOf(session, arrived)
  BY <1>1 DEF PartsTyped
<1>4. \A i \in ReadsAt(ioq) : [read |-> ioq[i].read, pkt |-> ioq[i].pkt] \in CompletionOf(session, arrived)
  BY <1>3 DEF ReadsAt, HandlerOf, CompletionOf
<1>5. \A i \in DOMAIN done : done[i] = [read |-> done[i].read, pkt |-> done[i].pkt]
  BY <1>2 DEF CompletionOf
<1>6. \A c : c \in Posted <=> \E i \in ReadsAt(ioq) : c = [read |-> ioq[i].read, pkt |-> ioq[i].pkt]
  BY DEF Posted, ReadsAt
<1>7. \A c : c \in Finished <=> \E i \in DOMAIN done : c = done[i]
  BY DEF Finished, Range
<1>8. QED
  BY <1>2, <1>4, <1>5, <1>6, <1>7

\* A completion is that of one read, and fits.
LEMMA CompletionFits ==
    ASSUME Inv, NEW c \in Posted \cup Finished
    PROVE  /\ c.read.sid \in DOMAIN session /\ c.read.nr \in Nat \ {0}
           /\ c = [read |-> [sid |-> c.read.sid, nr |-> c.read.nr], pkt |-> c.pkt]
           /\ c.read.nr <= Pairs(session[c.read.sid])
           /\ c.pkt = session[c.read.sid].captured[c.read.nr]
<1>1. GivenFits(ioq, session, done)
  BY DEF Inv, Captures, Core
<1>2. c \in CompletionOf(session, arrived)
  BY Completions
<1>3. /\ c.read.sid \in DOMAIN session /\ c.read.nr \in Nat \ {0}
      /\ c = [read |-> [sid |-> c.read.sid, nr |-> c.read.nr], pkt |-> c.pkt]
  BY <1>2 DEF CompletionOf, ReadOf
<1>4. Fits(c.read, c.pkt, session[c.read.sid])
  <2>1. CASE c \in Posted
    <3>1. PICK i \in ReadsAt(ioq) : c = [read |-> ioq[i].read, pkt |-> ioq[i].pkt]
      BY <2>1, Completions
    <3>2. c.read = ioq[i].read /\ c.pkt = ioq[i].pkt
      BY <3>1
    <3>3. QED
      BY <1>1, <3>2 DEF GivenFits
  <2>2. CASE c \in Finished
    <3>1. PICK i \in DOMAIN done : c = done[i]
      BY <2>2, Completions
    <3>2. QED
      BY <1>1, <3>1 DEF GivenFits
  <2>3. QED
    BY <2>1, <2>2
<1>5. QED
  BY <1>3, <1>4 DEF Fits

\* A read that has its packet is completed or about to be.
LEMMA PairIsGiven ==
    ASSUME Inv, NEW s \in DOMAIN session, NEW m \in 1 .. Pairs(session[s])
    PROVE  \E c \in Posted \cup Finished : c.read = [sid |-> s, nr |-> m]
<1> DEFINE rd == [sid |-> s, nr |-> m]
<1>1. Given(rd, ioq, done)
  BY DEF Inv, Captures, Core, GivenFits
<1> HIDE DEF rd
<1>2. CASE \E i \in ReadsAt(ioq) : ioq[i].read = rd
  <2>1. PICK i \in ReadsAt(ioq) : ioq[i].read = rd
    BY <1>2
  <2>2. [read |-> ioq[i].read, pkt |-> ioq[i].pkt] \in Posted
    BY Completions
  <2>3. QED
    BY <2>1, <2>2 DEF rd
<1>3. CASE \E i \in DOMAIN done : done[i].read = rd
  BY <1>3, Completions DEF rd
<1>4. QED
  BY <1>1, <1>2, <1>3 DEF Given

\* Two completions of one read are the same.
LEMMA CompletionOnce ==
    ASSUME Inv, NEW c \in Posted \cup Finished, NEW d \in Posted \cup Finished, c.read = d.read
    PROVE  c = d
<1>1. c.pkt = d.pkt
  BY CompletionFits
<1>2. QED
  BY <1>1, CompletionFits

\* Every session is of its type, and so are its parts.
LEMMA SessionKnown ==
    ASSUME Inv, NEW s \in DOMAIN session
    PROVE  /\ Len(session[s].captured) \in Nat /\ session[s].reads \in Nat
           /\ DOMAIN session[s].captured = 1 .. Len(session[s].captured)
           /\ Pairs(session[s]) \in Nat /\ Pairs(session[s]) <= session[s].reads
           /\ Pairs(session[s]) <= Len(session[s].captured)
           /\ Pairs(session[s]) = session[s].reads \/ Pairs(session[s]) = Len(session[s].captured)
<1>1. session[s] \in SessionOf(arrived) /\ arrived \in Nat
  BY DEF Inv, Others, Captures, Core, PartsTyped
<1>2. QED
  BY <1>1, SessionParts

\* Nothing is posted or completed twice: there are as many completions as
\* handlers that are posted for reads, and as completed reads.
LEMMA CompletionNumbers ==
    ASSUME Inv
    PROVE  /\ Cardinality(Posted) = Cardinality(ReadsAt(ioq))
           /\ Cardinality(Finished) = Len(done)
           /\ Len(done) \in Nat /\ Cardinality(ReadsAt(ioq)) \in Nat
<1>1. PartsTyped(raw, ioq, session, done, arrived) /\ GivenOnce(ioq, done)
  BY DEF Inv, Captures, Core
<1>2. /\ Len(ioq) \in Nat /\ Len(done) \in Nat
      /\ DOMAIN ioq = 1 .. Len(ioq) /\ DOMAIN done = 1 .. Len(done)
  BY <1>1, LenProperties DEF PartsTyped
<1>3. /\ IsFiniteSet(DOMAIN ioq) /\ IsFiniteSet(DOMAIN done) /\ Cardinality(DOMAIN done) = Len(done)
  <2>1. 1 \in Int /\ Len(ioq) \in Int /\ Len(done) \in Int
    BY <1>2
  <2>2. IsFiniteSet(1 .. Len(ioq)) /\ IsFiniteSet(1 .. Len(done))
        /\ Cardinality(1 .. Len(done)) = IF 1 > Len(done) THEN 0 ELSE Len(done) - 1 + 1
    BY <2>1, FS_Interval
  <2>3. QED
    BY <1>2, <2>2
<1>4. IsFiniteSet(ReadsAt(ioq)) /\ Cardinality(ReadsAt(ioq)) \in Nat
  <2>1. ReadsAt(ioq) \subseteq DOMAIN ioq
    BY DEF ReadsAt
  <2>2. QED
    BY <1>3, <2>1, FS_Subset, FS_CardinalityType
<1>5. Cardinality(Posted) = Cardinality(ReadsAt(ioq))
  <2> DEFINE f == [i \in ReadsAt(ioq) |-> [read |-> ioq[i].read, pkt |-> ioq[i].pkt]]
  <2>1. f \in [ReadsAt(ioq) -> Posted]
    BY Completions
  <2>2. \A i, j \in ReadsAt(ioq) : f[i] = f[j] => i = j
    <3>1. ASSUME NEW i \in ReadsAt(ioq), NEW j \in ReadsAt(ioq), f[i] = f[j], i < j
          PROVE  FALSE
      <4>1. ioq[i].read = ioq[j].read
        BY <3>1
      <4>2. ioq[i].read.nr < ioq[j].read.nr
        BY <1>1, <3>1, <4>1 DEF GivenOnce
      <4>3. ioq[i].read.nr \in Nat
        BY <1>1, GivenTyped DEF Inv, Others, ReadOf
      <4>4. QED
        BY <4>1, <4>2, <4>3
    <3>2. \A i \in ReadsAt(ioq) : i \in Nat
      BY <1>2 DEF ReadsAt
    <3> HIDE DEF f
    <3>3. QED
      BY <3>1, <3>2
  <2>3. \A c \in Posted : \E i \in ReadsAt(ioq) : f[i] = c
    BY Completions
  <2> HIDE DEF f
  <2>4. QED
    BY <1>4, <2>1, <2>2, <2>3, SameNumber
<1>6. Cardinality(Finished) = Cardinality(DOMAIN done)
  <2>1. done \in [DOMAIN done -> Finished]
    BY <1>1, Completions DEF PartsTyped
  <2>2. \A i, j \in DOMAIN done : done[i] = done[j] => i = j
    BY <1>1 DEF GivenOnce
  <2>3. \A c \in Finished : \E i \in DOMAIN done : done[i] = c
    BY Completions
  <2>4. QED
    BY <1>3, <2>1, <2>2, <2>3, SameNumber
<1>7. QED
  BY <1>2, <1>3, <1>4, <1>5, <1>6

\* Reads and packets are paired in the order of the calls and of the arrivals,
\* as soon as both are there, and no pair is made twice: async_wait takes the
\* packet that has waited longest, make_packet serves the read that has waited
\* longest, and detach drops neither.
THEOREM RawTcpReadsPaired == Spec => []ReadsPaired
<1>1. Inv => ReadsPaired
  <2> SUFFICES ASSUME Inv PROVE ReadsPaired
    OBVIOUS
  <2>1. ASSUME NEW s \in DOMAIN session
        PROVE  {c \in Posted \cup Finished : c.read.sid = s}
                 = {[read |-> [sid |-> s, nr |-> i], pkt |-> session[s].captured[i]] :
                      i \in {k \in DOMAIN session[s].captured : k <= session[s].reads}}
    <3> DEFINE K == {k \in DOMAIN session[s].captured : k <= session[s].reads}
               pair(i) == [read |-> [sid |-> s, nr |-> i], pkt |-> session[s].captured[i]]
    <3>1. K = 1 .. Pairs(session[s])
      BY SessionKnown
    <3>2. ASSUME NEW c \in Posted \cup Finished, c.read.sid = s
          PROVE  c.read.nr \in K /\ c = pair(c.read.nr)
      <4>1. /\ c.read.nr \in Nat \ {0} /\ c.read.nr <= Pairs(session[s])
            /\ c = [read |-> [sid |-> s, nr |-> c.read.nr], pkt |-> c.pkt]
            /\ c.pkt = session[s].captured[c.read.nr]
        BY <3>2, CompletionFits
      <4>2. c.read.nr \in 1 .. Pairs(session[s])
        BY <4>1, SessionKnown
      <4>3. c = pair(c.read.nr)
        BY <4>1
      <4>4. QED
        BY <3>1, <4>2, <4>3
    <3>3. ASSUME NEW i \in K
          PROVE  pair(i) \in Posted \cup Finished /\ pair(i).read.sid = s
      <4>1. PICK c \in Posted \cup Finished : c.read = [sid |-> s, nr |-> i]
        BY <3>1, PairIsGiven
      <4>2. c.read.sid = s /\ c.read.nr = i
        BY <4>1
      <4>3. c = pair(i)
        BY <3>2, <4>2
      <4>4. QED
        BY <4>1, <4>2, <4>3
    <3> HIDE DEF K
    <3>4. QED
      BY <3>2, <3>3 DEF K
  <2>2. Cardinality(Posted) + Cardinality(Finished)
            = Len(done) + Cardinality({i \in DOMAIN ioq : ioq[i].run = "read"})
    BY CompletionNumbers DEF ReadsAt
  <2>3. QED
    BY <2>1, <2>2 DEF ReadsPaired
<1>2. QED
  BY <1>1, InvHolds, PTL

\* Where a packet has been captured, or its remains, by where they are found.
LEMMA FoundIsCaptured ==
    ASSUME Inv, NEW p
    PROVE  /\ \A e \in Queued(p) : /\ e \in DOMAIN raw /\ raw[e].sid \in DOMAIN session
                                   /\ \E i : /\ IsCaptured(session, p, raw[e].sid, i)
                                             /\ Pairs(session[raw[e].sid]) < i
           /\ \A c \in GivenTo(p) : /\ IsCaptured(session, p, c.read.sid, c.read.nr)
                                    /\ c.read.nr <= Pairs(session[c.read.sid])
           /\ \A k : k \in Dispatched(p) <=> IsSent(up, p, k)
<1>1. /\ RawKnown(raw, session)
      /\ \A e \in DOMAIN raw : raw[e] \in RawOf(session, arrived)
  BY DEF Inv, Captures, Core, PartsTyped
<1>2. ASSUME NEW e \in Queued(p)
      PROVE  /\ e \in DOMAIN raw /\ raw[e].sid \in DOMAIN session
             /\ \E i : IsCaptured(session, p, raw[e].sid, i) /\ Pairs(session[raw[e].sid]) < i
  <2>1. e \in DOMAIN raw /\ \E j \in DOMAIN raw[e].pq : raw[e].pq[j] = p
    BY Zenon DEF Queued
  <2> DEFINE x == session[raw[e].sid]
             pq == raw[e].pq
  <2>2. PICK j \in DOMAIN pq : pq[j] = p
    BY <2>1
  <2>3. raw[e].sid \in DOMAIN session /\ pq \in Seq(PacketOf(arrived))
    BY <1>1, <2>1 DEF RawOf
  <2>4. /\ Len(pq) = Len(x.captured) - Pairs(x) /\ pq[j] = x.captured[Pairs(x) + j]
    BY <1>1, <2>1 DEF RawKnown, RawIs
  <2>5. j \in 1 .. Len(pq)
    BY <2>3, LenProperties
  <2>6. /\ Len(x.captured) \in Nat /\ Pairs(x) \in Nat
        /\ DOMAIN x.captured = 1 .. Len(x.captured)
    BY <2>3, SessionKnown
  <2> HIDE DEF pq
  <2>7. Pairs(x) + j \in DOMAIN x.captured /\ Pairs(x) < Pairs(x) + j
    <3> HIDE DEF x
    <3>1. Len(pq) = Len(x.captured) - Pairs(x)
      BY <2>4, Zenon
    <3>2. \A a, b \in Nat : \A c : \A i \in 1 .. c : c = a - b => b + i \in 1 .. a /\ b < b + i
      OBVIOUS
    <3>3. QED
      BY ONLY <2>5, <2>6, <3>1, <3>2, Zenon
  <2>8. IsCaptured(session, p, raw[e].sid, Pairs(x) + j)
    BY <2>2, <2>3, <2>4, <2>7, Zenon DEF IsCaptured
  <2>9. QED
    BY <2>1, <2>3, <2>7, <2>8, Zenon
<1>3. ASSUME NEW c \in GivenTo(p)
      PROVE  /\ IsCaptured(session, p, c.read.sid, c.read.nr)
             /\ c.read.nr <= Pairs(session[c.read.sid])
  <2>1. c \in Posted \cup Finished /\ c.pkt = p
    BY Zenon DEF GivenTo
  <2>2. /\ c.read.sid \in DOMAIN session /\ c.read.nr \in Nat \ {0}
        /\ c.read.nr <= Pairs(session[c.read.sid])
        /\ c.pkt = session[c.read.sid].captured[c.read.nr]
    BY <2>1, CompletionFits
  <2>3. c.read.nr \in DOMAIN session[c.read.sid].captured
    BY <2>2, SessionKnown
  <2>4. QED
    BY <2>1, <2>2, <2>3, Zenon DEF IsCaptured
<1>4. \A k : k \in Dispatched(p) <=> IsSent(up, p, k)
  BY Zenon DEF Dispatched, IsSent
<1>5. QED
  BY <1>2, <1>3, <1>4, Zenon

\* What has been captured and has a read is given to that read alone.
LEMMA CapturedGiven ==
    ASSUME Inv, NEW p, NEW s, NEW i, IsCaptured(session, p, s, i), i <= Pairs(session[s])
    PROVE  \E c \in GivenTo(p) : \A d \in GivenTo(p) :
                d.read.sid = s /\ d.read.nr = i => d = c
<1>1. s \in DOMAIN session /\ i \in DOMAIN session[s].captured /\ session[s].captured[i] = p
  BY Zenon DEF IsCaptured
<1>2. i \in 1 .. Pairs(session[s])
  BY <1>1, SessionKnown
<1>3. PICK c \in Posted \cup Finished : c.read = [sid |-> s, nr |-> i]
  BY <1>1, <1>2, PairIsGiven
<1>4. c.read.sid = s /\ c.read.nr = i
  BY <1>3
<1>5. c.pkt = p
  BY <1>1, <1>4, CompletionFits, Zenon
<1>6. ASSUME NEW d \in GivenTo(p), d.read.sid = s, d.read.nr = i PROVE d = c
  <2>1. d \in Posted \cup Finished
    BY DEF GivenTo
  <2>2. d.read = c.read
    BY <1>3, <1>6, <2>1, CompletionFits
  <2>3. QED
    BY <2>1, <2>2, CompletionOnce
<1>7. c \in GivenTo(p)
  BY <1>5, Zenon DEF GivenTo
<1>8. QED
  BY <1>6, <1>7, Zenon

\* What has been captured and has no read is queued as long as its raw_state is
\* there, and for these two ends alone.
LEMMA CapturedQueued ==
    ASSUME Inv, NEW p, NEW s, NEW i, IsCaptured(session, p, s, i), ~(i <= Pairs(session[s])),
           NEW e \in DOMAIN raw, raw[e].sid = s
    PROVE  e \in Queued(p)
<1> DEFINE pq == raw[e].pq
           x == session[s]
           r == Pairs(x)
<1>1. s \in DOMAIN session /\ i \in DOMAIN x.captured /\ x.captured[i] = p
  BY Zenon DEF IsCaptured
<1>2. Len(x.captured) \in Nat /\ DOMAIN x.captured = 1 .. Len(x.captured) /\ r \in Nat
  BY <1>1, SessionKnown
<1>3. /\ Len(pq) = Len(x.captured) - r
      /\ \A j \in DOMAIN pq : pq[j] = x.captured[r + j]
  BY DEF Inv, Captures, Core, RawKnown, RawIs
<1>4. pq \in Seq(PacketOf(arrived))
  BY DEF Inv, Captures, Core, PartsTyped, RawOf
<1>5. DOMAIN pq = 1 .. Len(pq)
  BY <1>4, LenProperties
<1> HIDE DEF pq, r
<1>6. i - r \in DOMAIN pq /\ r + (i - r) = i
  <2>1. ~(i <= r)
    BY DEF r
  <2> HIDE DEF x
  <2>2. QED
    BY <1>1, <1>2, <1>3, <1>5, <2>1
<1>7. pq[i - r] = p
  BY <1>1, <1>3, <1>6, Zenon
<1>8. QED
  BY <1>6, <1>7, Zenon DEF Queued, pq

\* A packet that arrived is as a whole in exactly one place: make_packet
\* dispatches it or captures it once, and what was captured is queued until a
\* read gets it or detach drops it; or it is gone with the callback of an
\* interception that threw without a read.  Its remains are only handed on when
\* it is gone in this way or was read before the callback threw.
THEOREM RawTcpPacketInOnePlace == Spec => []PacketInOnePlace
<1>1. Inv => PacketInOnePlace
  <2> SUFFICES ASSUME Inv, NEW id \in 1 .. arrived
               PROVE  /\ Cardinality(Dispatched(Whole(id))) + Cardinality(Queued(Whole(id)))
                            + Cardinality(GivenTo(Whole(id))) + (IF id \in lost THEN 1 ELSE 0) = 1
                      /\ id \notin lost /\ GivenTo(Whole(id)) = {}
                            => Dispatched(Remains(id)) = {} /\ Queued(Remains(id)) = {} /\ GivenTo(Remains(id)) = {}
    BY Zenon DEF PacketInOnePlace, Whole, Remains
  <2> DEFINE w == Whole(id)
             U == Dispatched(w)
             Q == Queued(w)
             G == GivenTo(w)
  <2>1. Known(raw, session, up, lost, id) /\ RawKnown(raw, session)
    BY DEF Inv, Captures, Core, Placed
  <2>2. /\ \A k, j : IsSent(up, w, k) /\ IsSent(up, w, j) => k = j
        /\ \A s, t, i, j : IsCaptured(session, w, s, i) /\ IsCaptured(session, w, t, j) => s = t /\ i = j
        /\ \A k, s, i : ~(IsSent(up, w, k) /\ IsCaptured(session, w, s, i))
        /\ id \in lost <=> \/ (\A k : ~IsSent(up, w, k)) /\ (\A s, i : ~IsCaptured(session, w, s, i))
                           \/ \E s, i : IsCaptured(session, w, s, i) /\ IsDropped(raw, session, s, i)
    BY <2>1, Zenon DEF Known, OncePlaced
  <2> HIDE DEF w
  <2>3. /\ \A e \in Q : /\ e \in DOMAIN raw /\ raw[e].sid \in DOMAIN session
                        /\ \E i : /\ IsCaptured(session, w, raw[e].sid, i)
                                  /\ Pairs(session[raw[e].sid]) < i
        /\ \A c \in G : /\ IsCaptured(session, w, c.read.sid, c.read.nr)
                        /\ c.read.nr <= Pairs(session[c.read.sid])
        /\ \A k : k \in U <=> IsSent(up, w, k)
    BY FoundIsCaptured
  <2> HIDE DEF U, Q, G
  <2>4. Cardinality({}) = 0 /\ \A x : Cardinality({x}) = 1
    BY FS_EmptySet, FS_Singleton
  <2>5. ASSUME NEW s, NEW i, IsCaptured(session, w, s, i)
        PROVE  /\ s \in DOMAIN session /\ i \in Nat /\ Pairs(session[s]) \in Nat
               /\ i <= Pairs(session[s]) <=> i <= session[s].reads
               /\ i <= session[s].reads <=> ~(session[s].reads < i)
               /\ i <= Pairs(session[s]) <=> ~(Pairs(session[s]) < i)
    <3>1. s \in DOMAIN session /\ i \in DOMAIN session[s].captured
      BY <2>5, Zenon DEF IsCaptured
    <3> DEFINE x == session[s]
               r == Pairs(x)
    <3>2. /\ Len(x.captured) \in Nat /\ x.reads \in Nat
          /\ i \in 1 .. Len(x.captured) /\ r \in Nat /\ r <= x.reads
          /\ r = x.reads \/ r = Len(x.captured)
      BY <3>1, SessionKnown
    <3> HIDE DEF r, x
    <3>3. /\ i \in Nat /\ r \in Nat
          /\ i <= r <=> i <= x.reads
          /\ i <= x.reads <=> ~(x.reads < i)
          /\ i <= r <=> ~(r < i)
      BY <3>2
    <3>4. QED
      BY <3>1, <3>3, Zenon DEF r, x
  <2>6. Cardinality(U) + Cardinality(Q) + Cardinality(G) + (IF id \in lost THEN 1 ELSE 0) = 1
    <3>1. CASE \E k : IsSent(up, w, k)
      <4>1. PICK k : IsSent(up, w, k)
        BY <3>1
      <4>2. \A s, i : ~IsCaptured(session, w, s, i)
        BY <2>2, <4>1, Zenon
      <4>3. U = {k} /\ Q = {} /\ G = {} /\ id \notin lost
        BY <2>2, <2>3, <4>1, <4>2
      <4>4. Cardinality(U) = 1 /\ Cardinality(Q) = 0 /\ Cardinality(G) = 0
        BY <2>4, <4>3, Zenon
      <4>5. QED
        BY ONLY <4>3, <4>4
    <3>2. CASE (\A k : ~IsSent(up, w, k)) /\ \A s, i : ~IsCaptured(session, w, s, i)
      <4>1. U = {} /\ Q = {} /\ G = {} /\ id \in lost
        BY <2>2, <2>3, <3>2
      <4>2. Cardinality(U) = 0 /\ Cardinality(Q) = 0 /\ Cardinality(G) = 0
        BY <2>4, <4>1, Zenon
      <4>3. QED
        BY ONLY <4>1, <4>2
    <3>3. ASSUME NEW s, NEW i, IsCaptured(session, w, s, i)
          PROVE  Cardinality(U) + Cardinality(Q) + Cardinality(G) + (IF id \in lost THEN 1 ELSE 0) = 1
      <4>1. \A t, j : IsCaptured(session, w, t, j) => t = s /\ j = i
        BY <2>2, <3>3, Zenon
      <4>2. U = {}
        BY <2>2, <2>3, <3>3
      <4>3. id \in lost <=> IsDropped(raw, session, s, i)
        BY <2>2, <3>3, <4>1, Zenon
      <4>4. CASE i <= Pairs(session[s])
        <5>1. id \notin lost
          BY <2>5, <3>3, <4>3, <4>4 DEF IsDropped
        <5>2. Q = {}
          BY <2>3, <2>5, <3>3, <4>1, <4>4
        <5>3. PICK c \in G : \A d \in G : d.read.sid = s /\ d.read.nr = i => d = c
          BY <3>3, <4>4, CapturedGiven DEF G
        <5>4. G = {c}
          BY <2>3, <4>1, <5>3
        <5>5. Cardinality(U) = 0 /\ Cardinality(Q) = 0 /\ Cardinality(G) = 1
          BY <2>4, <4>2, <5>2, <5>4, Zenon
        <5>6. QED
          BY ONLY <5>1, <5>5
      <4>5. CASE ~(i <= Pairs(session[s]))
        <5>1. G = {}
          BY <2>3, <4>1, <4>5
        <5>2. CASE \E e \in DOMAIN raw : raw[e].sid = s
          <6>1. PICK e \in DOMAIN raw : raw[e].sid = s
            BY <5>2
          <6>2. id \notin lost
            BY <4>3, <6>1 DEF IsDropped
          <6>3. e \in Q
            BY <3>3, <4>5, <6>1, CapturedQueued DEF Q
          <6>4. \A f \in Q : f \in DOMAIN raw /\ raw[f].sid = s
            BY <2>3, <4>1, Zenon
          <6>5. \A f \in Q : f = e
            BY <2>1, <6>1, <6>4, OwnSession
          <6>6. Q = {e}
            BY <6>3, <6>5
          <6>7. Cardinality(U) = 0 /\ Cardinality(Q) = 1 /\ Cardinality(G) = 0
            BY <2>4, <4>2, <5>1, <6>6, Zenon
          <6>8. QED
            BY ONLY <6>2, <6>7
        <5>3. CASE ~\E e \in DOMAIN raw : raw[e].sid = s
          <6>1. id \in lost
            BY <2>5, <3>3, <4>3, <4>5, <5>3 DEF IsDropped
          <6>2. Q = {}
            BY <2>3, <4>1, <5>3
          <6>3. Cardinality(U) = 0 /\ Cardinality(Q) = 0 /\ Cardinality(G) = 0
            BY <2>4, <4>2, <5>1, <6>2, Zenon
          <6>4. QED
            BY ONLY <6>1, <6>3
        <5>4. QED
          BY <5>2, <5>3
      <4>6. QED
        BY <4>4, <4>5
    <3>4. QED
      BY <3>1, <3>2, <3>3
  <2>7. ASSUME id \notin lost, G = {}
        PROVE  Dispatched(Remains(id)) = {} /\ Queued(Remains(id)) = {} /\ GivenTo(Remains(id)) = {}
    <3>1. ~MovedAway(session, up, id)
      <4> SUFFICES ASSUME MovedAway(session, up, id) PROVE FALSE
        OBVIOUS
      <4>1. /\ \A k : ~IsSent(up, w, k)
            /\ \A s, i : IsCaptured(session, w, s, i) => i <= session[s].reads
        BY Zenon DEF MovedAway, w
      <4>2. PICK s, i : IsCaptured(session, w, s, i)
        BY <2>2, <2>7, <4>1, Zenon
      <4>3. i <= Pairs(session[s])
        BY <2>5, <4>1, <4>2
      <4>4. \E c : c \in G
        BY <4>2, <4>3, CapturedGiven DEF G
      <4>5. QED
        BY <2>7, <4>4
    <3>2. ~HasRemains(session, up, id)
      BY <2>1, <3>1, Zenon DEF Known
    <3> DEFINE v == Remains(id)
    <3>3. (\A k : ~IsSent(up, v, k)) /\ \A s, i : ~IsCaptured(session, v, s, i)
      BY <3>2, Zenon DEF HasRemains
    <3> HIDE DEF v
    <3>4. Dispatched(v) = {} /\ Queued(v) = {} /\ GivenTo(v) = {}
      BY <3>3, FoundIsCaptured
    <3>5. QED
      BY <3>4 DEF v
  <2>8. QED
    BY <2>6, <2>7, Zenon DEF U, Q, G, w
<1>2. QED
  BY <1>1, InvHolds, PTL

\* Packets leave in the order in which they were sent, and a write completes only
\* after its packet has been handed to ipv4: async_write posts its completion
\* behind the handler of enqueue, and every handler of enqueue hands over the
\* packet that has waited longest.
THEOREM RawTcpWritesInOrder == Spec => []WritesInOrder
<1>1. Inv => WritesInOrder
  <2> SUFFICES ASSUME Inv PROVE WritesInOrder
    OBVIOUS
  <2>1. /\ \A i \in DOMAIN down : down[i] = i
        /\ \A i \in DOMAIN q : q[i] = Len(down) + i
        /\ \A i \in DOMAIN written : written[i] \in 1 .. Len(down)
    BY DEF Inv, LeaveKnown
  <2>2. q \in Seq(Nat) /\ down \in Seq(Nat) /\ written \in Seq(Nat)
    BY DEF Inv, Others
  <2>3. /\ Len(q) \in Nat /\ Len(down) \in Nat /\ DOMAIN q = 1 .. Len(q) /\ DOMAIN down = 1 .. Len(down)
    BY <2>2, LenProperties
  <2> DEFINE w == down \o q
             v == [i \in 1 .. Len(down) + Len(q) |-> i]
  <2>4. /\ w \in Seq(Nat) /\ Len(w) = Len(down) + Len(q)
        /\ \A i \in 1 .. Len(down) + Len(q) :
                w[i] = IF i <= Len(down) THEN down[i] ELSE q[i - Len(down)]
    BY <2>2, ConcatProperties
  <2>5. \A i \in 1 .. Len(down) + Len(q) : w[i] = i
    <3> HIDE DEF w
    <3> TAKE i \in 1 .. Len(down) + Len(q)
    <3>1. CASE i <= Len(down)
      <4>1. i \in DOMAIN down
        BY <2>3, <3>1
      <4>2. QED
        BY <2>1, <2>4, <3>1, <4>1
    <3>2. CASE ~(i <= Len(down))
      <4>1. i - Len(down) \in DOMAIN q /\ Len(down) + (i - Len(down)) = i
        BY <2>3, <3>2
      <4>2. QED
        BY <2>1, <2>4, <3>2, <4>1
    <3>3. QED
      BY <3>1, <3>2
  <2>6. w = v
    <3>1. v \in Seq(Nat) /\ Len(v) = Len(down) + Len(q)
      BY <2>3, LenProperties, SeqDef
    <3> HIDE DEF w
    <3>2. \A i \in 1 .. Len(v) : w[i] = v[i]
      BY <2>5, <3>1
    <3> HIDE DEF v
    <3>3. QED
      BY <2>4, <3>1, <3>2, SeqEqual
  <2>7. Range(written) \subseteq Range(down)
    BY <2>1, <2>3 DEF Range
  <2>8. QED
    BY <2>6, <2>7 DEF WritesInOrder
<1>2. QED
  BY <1>1, InvHolds, PTL

\* What the action property says of one new completion.
Overtakes(c) ==
    \A n \in 1 .. c.read.nr - 1 :
        LET earlier == {d \in Posted \cup Finished : d.read = [sid |-> c.read.sid, nr |-> n]}
        IN  earlier # {} /\ (earlier \subseteq Finished \/ c \notin Posted)

\* A handler that has been posted for a read finds every earlier read of the
\* session completed.
LEMMA FrontOvertakesNone ==
    ASSUME Inv, ioq # <<>>, Head(ioq).run = "read"
    PROVE  Overtakes([read |-> Head(ioq).read, pkt |-> Head(ioq).pkt])
<1> DEFINE c == [read |-> Head(ioq).read, pkt |-> Head(ioq).pkt]
<1>1. PartsTyped(raw, ioq, session, done, arrived) /\ GivenOnce(ioq, done)
  BY DEF Inv, Captures, Core
<1>2. ioq[1] = Head(ioq) /\ 1 \in ReadsAt(ioq) /\ \A i \in ReadsAt(ioq) : i \in Nat /\ (i # 1 => 1 < i)
  BY <1>1, HeadTailProperties, LenProperties, EmptySeq DEF PartsTyped, ReadsAt
<1>3. c \in Posted /\ c.read = ioq[1].read
  BY <1>2, Completions
<1> HIDE DEF c
<1>4. c.read.sid \in DOMAIN session /\ c.read.nr \in Nat \ {0} /\ c.read.nr <= Pairs(session[c.read.sid])
      /\ Pairs(session[c.read.sid]) \in Nat
  BY <1>3, CompletionFits, SessionKnown
<1>5. ASSUME NEW n \in 1 .. c.read.nr - 1
      PROVE  LET earlier == {d \in Posted \cup Finished : d.read = [sid |-> c.read.sid, nr |-> n]}
             IN  earlier # {} /\ (earlier \subseteq Finished \/ c \notin Posted)
  <2> DEFINE rd == [sid |-> c.read.sid, nr |-> n]
  <2>1. n \in 1 .. Pairs(session[c.read.sid]) /\ n < c.read.nr
    BY <1>4
  <2>2. \E d \in Posted \cup Finished : d.read = rd
    BY <1>4, <2>1, PairIsGiven
  <2>3. ASSUME NEW d \in Posted, d.read = rd PROVE FALSE
    <3>1. PICK j \in ReadsAt(ioq) : d = [read |-> ioq[j].read, pkt |-> ioq[j].pkt]
      BY Completions
    <3>2. ioq[j].read.sid = ioq[1].read.sid /\ ioq[j].read.nr = n /\ ioq[1].read.nr = c.read.nr
      BY <1>3, <2>3, <3>1
    <3>3. 1 < j
      BY <1>2, <2>1, <3>2
    <3>4. ioq[1].read.nr < ioq[j].read.nr
      BY <1>1, <1>2, <3>2, <3>3 DEF GivenOnce
    <3>5. QED
      BY <1>4, <2>1, <3>2, <3>4
  <2> HIDE DEF rd
  <2>4. QED
    BY <2>2, <2>3 DEF rd
<1>6. QED
  BY <1>5 DEF Overtakes, c

\* A read that waits gets its packet within make_packet, past the posted ones.
LEMMA WaitingOvertakesPosted ==
    ASSUME Inv, NEW e \in DOMAIN raw, raw[e].on_data_receive # <<>>, NEW pkt
    PROVE  Overtakes([read |-> Head(raw[e].on_data_receive), pkt |-> pkt])
<1> DEFINE c == [read |-> Head(raw[e].on_data_receive), pkt |-> pkt]
           s == raw[e].sid
           w == raw[e].on_data_receive
<1>1. s \in DOMAIN session /\ w \in Seq(ReadOf(session))
  BY DEF Inv, Captures, Core, PartsTyped, RawOf
<1>2. Head(w) = w[1] /\ 1 \in DOMAIN w
  BY <1>1, HeadTailProperties, LenProperties, EmptySeq
<1>3. w[1] = [sid |-> s, nr |-> Pairs(session[s]) + 1]
  BY <1>2 DEF Inv, Captures, Core, RawKnown, RawIs
<1>4. c.read.sid = s /\ c.read.nr = Pairs(session[s]) + 1
  BY <1>2, <1>3
<1>5. Pairs(session[s]) \in Nat
  BY <1>1, SessionKnown
<1> HIDE DEF c, s, w
<1>6. c \notin Posted
  <2>1. c \in Posted => c.read.nr <= Pairs(session[s])
    BY <1>4, CompletionFits
  <2>2. QED
    BY <1>4, <1>5, <2>1
<1>7. ASSUME NEW n \in 1 .. c.read.nr - 1
      PROVE  \E d \in Posted \cup Finished : d.read = [sid |-> c.read.sid, nr |-> n]
  <2>1. n \in 1 .. Pairs(session[s])
    BY <1>4, <1>5
  <2>2. QED
    BY <1>1, <1>4, <2>1, PairIsGiven
<1>8. QED
  BY <1>6, <1>7 DEF Overtakes, c

\* What is completed by one step.
LEMMA CompletedNow ==
    ASSUME Inv, NEW rd, NEW pkt, Completed(rd, pkt)
    PROVE  \A c \in Range(done') \ Finished : c = [read |-> rd, pkt |-> pkt]
<1> DEFINE x == [read |-> rd, pkt |-> pkt]
<1>1. done' = Append(done, x)
  BY DEF Completed
<1>2. IsAppend(done, x, Append(done, x))
  BY AppendIs DEF Inv, Captures, Core, PartsTyped
<1> HIDE DEF x
<1>3. IsAppend(done, x, done')
  BY <1>1, <1>2
<1>4. QED
  BY <1>3 DEF Range, Finished, IsAppend, x

\* A read whose packet came first is overtaken by no later read of its session
\* whose packet came first; only a read that waited may run before it, from
\* within make_packet, while the earlier one is posted already.
THEOREM RawTcpOnlyPostedAreOvertaken == Spec => OnlyPostedAreOvertaken
<1> DEFINE Step == \A c \in Range(done') \ Finished : Overtakes(c)
<1>1. ASSUME Inv, [Next]_vars PROVE Step
  <2>1. UNCHANGED done => Step
    BY DEF Finished
  <2>2. CASE RunRead
    <3>1. ioq # <<>> /\ Head(ioq).run = "read" /\ Completed(Head(ioq).read, Head(ioq).pkt)
      BY <2>2 DEF RunRead
    <3>2. Overtakes([read |-> Head(ioq).read, pkt |-> Head(ioq).pkt])
      BY <1>1, <3>1, FrontOvertakesNone
    <3>3. QED
      BY <1>1, <3>1, <3>2, CompletedNow
  <2>3. ASSUME NEW e \in Ends, make_packet(e) PROVE Step
    <3>1. CASE e \in DOMAIN raw
      <4> DEFINE pkt == [id |-> arrived', intact |-> TRUE]
                 k == Event(Now)
      <4>1. Captured(k, e, pkt)
        BY <2>3, <3>1, Zenon DEF make_packet
      <4>2. k.raw = raw
        BY DEF Event, Now
      <4> HIDE DEF k, pkt
      <4>3. \/ raw[e].on_data_receive # <<>> /\ Completed(Head(raw[e].on_data_receive), pkt)
            \/ UNCHANGED done
        BY <4>1, <4>2, Zenon DEF Captured
      <4>4. QED
        BY <1>1, <2>1, <3>1, <4>3, WaitingOvertakesPosted, CompletedNow
    <3>2. CASE e \notin DOMAIN raw
      BY <2>1, <2>3, <3>2, Zenon DEF make_packet
    <3>3. QED
      BY <3>1, <3>2
  <2>4. CASE \E e \in Ends : async_read(e) \/ attach(e) \/ detach(e)
    BY <2>1, <2>4, Zenon DEF async_read, attach, detach
  <2>5. CASE \E i \in Interceptor : new_interceptor(i) \/ async_intercept(i)
    BY <2>1, <2>5, Zenon DEF new_interceptor, async_intercept
  <2>6. CASE async_write \/ process
    BY <2>1, <2>6, Zenon DEF async_write, process, send
  <2>7. CASE RunEnqueue \/ RunWritten
    BY <2>1, <2>7, Zenon DEF RunEnqueue, RunWritten
  <2>8. CASE UNCHANGED vars
    BY <2>1, <2>8, Zenon DEF vars
  <2> HIDE DEF Step
  <2>9. QED
    BY <1>1, <2>2, <2>3, <2>4, <2>5, <2>6, <2>7, <2>8, Zenon DEF Next, Run
<1>2. Inv /\ [Next]_vars =>
        \A c \in Range(done') \ Finished : \A n \in 1 .. c.read.nr - 1 :
            LET earlier == {d \in Posted \cup Finished : d.read = [sid |-> c.read.sid, nr |-> n]}
            IN  earlier # {} /\ (earlier \subseteq Finished \/ c \notin Posted)
  BY <1>1, Zenon DEF Overtakes
<1>3. QED
  BY <1>2, InvHolds, PTL DEF Spec, OnlyPostedAreOvertaken

=============================================================================
