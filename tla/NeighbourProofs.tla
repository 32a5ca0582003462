-------------------------- MODULE NeighbourProofs --------------------------
(***************************************************************************)
(* What holds of the way of a packet out of the host for every set of      *)
(* neighbours and destinations, every routing table and all ARP frames.    *)
(*                                                                         *)
(* The handlers and the queues of ipv4 and arp are described by the        *)
(* positions at which the handlers are posted and by their ranks.  The     *)
(* first part is about what that makes of the four queues together:        *)
(* every step leaves Pipe as it is or adds frames at its end.  The rest    *)
(* follows from that.                                                      *)
(***************************************************************************)
EXTENDS Neighbour, QueueLemmas

-----------------------------------------------------------------------------
(* The frames of ipv4 and arp in the order of their handlers *)

\* The definitions of Neighbour, of any handlers io and queues qq.
PostedIn(io, l) == {i \in DOMAIN io : io[i].run = l}
UpIn(io) == PostedIn(io, "ipv4") \cup PostedIn(io, "arp")
Taken(io, qq, i) == qq[io[i].run][Rank(PostedIn(io, io[i].run), i)]
Matched(io, qq) == \A l \in Layer : Cardinality(PostedIn(io, l)) = Len(qq[l])

Handler == [run: Layer] \cup [run: {"cb"}, frame: Unresolved, mac: STRING]
QueuesTyped(io, qq) == io \in Seq(Handler) /\ qq \in [Layer -> Seq(Frame)]

\* u lists the frames that the handlers of ipv4 and arp will take.
IsUpper(io, qq, u) ==
    /\ u \in Seq(Frame)
    /\ Len(u) = Cardinality(UpIn(io))
    /\ \A i \in UpIn(io) : u[Rank(UpIn(io), i)] = Taken(io, qq, i)

\* Positions of handlers are positions of the queue of handlers.
LEMMA PostedTyped ==
    ASSUME NEW io \in Seq(Handler)
    PROVE  /\ Len(io) \in Nat /\ DOMAIN io = 1 .. Len(io)
           /\ UpIn(io) \in SUBSET (1 .. Len(io)) /\ IsFiniteSet(UpIn(io)) /\ Cardinality(UpIn(io)) \in Nat
           /\ \A l : /\ PostedIn(io, l) \in SUBSET (1 .. Len(io)) /\ IsFiniteSet(PostedIn(io, l))
                     /\ Cardinality(PostedIn(io, l)) \in Nat
<1>1. Len(io) \in Nat /\ DOMAIN io = 1 .. Len(io)
  BY LenProperties
<1>2. UpIn(io) \in SUBSET (1 .. Len(io)) /\ \A l : PostedIn(io, l) \in SUBSET (1 .. Len(io))
  BY <1>1 DEF UpIn, PostedIn
<1>3. IsFiniteSet(1 .. Len(io))
  <2>1. 1 \in Int /\ Len(io) \in Int
    BY <1>1
  <2>2. QED
    BY <2>1, FS_Interval
<1>4. IsFiniteSet(UpIn(io)) /\ \A l : IsFiniteSet(PostedIn(io, l))
  BY <1>2, <1>3, FS_Subset
<1>5. QED
  BY <1>1, <1>2, <1>4, FS_CardinalityType

\* The positions are naturals from one on.
LEMMA PositionsPositive ==
    ASSUME NEW N \in Nat, NEW S \in SUBSET (1 .. N)
    PROVE  S \in SUBSET (Nat \ {0})
OBVIOUS

\* Every handler of ipv4 and arp has its frame.
LEMMA TakenTyped ==
    ASSUME NEW io, NEW qq, QueuesTyped(io, qq), Matched(io, qq), NEW i \in UpIn(io)
    PROVE  Taken(io, qq, i) \in Frame
<1> DEFINE l == io[i].run
           P == PostedIn(io, l)
<1>1. l \in Layer /\ i \in P
  BY DEF UpIn, PostedIn, Layer
<1>2. qq[l] \in Seq(Frame) /\ Cardinality(P) = Len(qq[l])
  BY <1>1 DEF QueuesTyped, Matched
<1>3. P \in SUBSET (Nat \ {0}) /\ IsFiniteSet(P)
  BY PostedTyped, PositionsPositive DEF QueuesTyped
<1> HIDE DEF l, P
<1>4. Rank(P, i) \in 1 .. Len(qq[l])
  BY <1>1, <1>2, <1>3, RankInjective
<1>5. qq[l][Rank(P, i)] \in Frame
  BY <1>2, <1>4, ElementOfSeq
<1>6. QED
  BY <1>5 DEF Taken, l, P

\* There is one such list only.
LEMMA UpperUnique ==
    ASSUME NEW io \in Seq(Handler), NEW qq, NEW u, NEW v, IsUpper(io, qq, u), IsUpper(io, qq, v)
    PROVE  u = v
<1> DEFINE S == UpIn(io)
<1>1. /\ u \in Seq(Frame) /\ v \in Seq(Frame) /\ Len(u) = Cardinality(S) /\ Len(v) = Cardinality(S)
      /\ \A i \in S : u[Rank(S, i)] = v[Rank(S, i)]
  BY DEF IsUpper
<1>2. S \in SUBSET (1 .. Len(io)) /\ Len(io) \in Nat
  BY PostedTyped
<1> HIDE DEF S
<1>3. \A k \in 1 .. Len(u) : u[k] = v[k]
  <2> TAKE k \in 1 .. Len(u)
  <2>1. k \in 1 .. Cardinality(S)
    BY <1>1
  <2>2. \E i \in S : Rank(S, i) = k
    BY <1>2, <2>1, RankNth
  <2>3. QED
    BY <1>1, <2>2
<1>4. QED
  BY <1>1, <1>3, SeqEqual

\* Upper, of any handlers and queues.
UpperOf(io, qq) ==
    LET at == UpIn(io)
    IN  [k \in 1 .. Cardinality(at) |-> Taken(io, qq, CHOOSE i \in at : Rank(at, i) = k)]

\* Upper now and after a step.
LEMMA UpperNow == Upper = UpperOf(ioq, q) /\ Upper' = UpperOf(ioq', q')
BY DEF Upper, UpperAt, FrameOf, Posted, UpperOf, UpIn, Taken, PostedIn

\* It is such a list.
LEMMA UpperIs ==
    ASSUME NEW io, NEW qq, QueuesTyped(io, qq), Matched(io, qq)
    PROVE  IsUpper(io, qq, UpperOf(io, qq))
<1> DEFINE S == UpIn(io)
           n == Cardinality(S)
           at(k) == CHOOSE i \in S : Rank(S, i) = k
           u == UpperOf(io, qq)
<1>1. S \in SUBSET (1 .. Len(io)) /\ Len(io) \in Nat /\ IsFiniteSet(S) /\ n \in Nat
  BY PostedTyped DEF QueuesTyped
<1>2. S \in SUBSET (Nat \ {0})
  BY <1>1, PositionsPositive
<1>3. u = [k \in 1 .. n |-> Taken(io, qq, at(k))]
  BY DEF UpperOf
<1> HIDE DEF S, u
<1>4. \A k \in 1 .. n : at(k) \in S /\ Rank(S, at(k)) = k
  <2> TAKE k \in 1 .. n
  <2>1. \E i \in S : Rank(S, i) = k
    BY <1>1, RankNth
  <2>2. QED
    BY <2>1
<1> HIDE DEF at
<1>5. \A k \in 1 .. n : Taken(io, qq, at(k)) \in Frame
  BY <1>4, TakenTyped DEF S
<1> HIDE DEF n
<1>6. u \in [1 .. n -> Frame]
  BY <1>3, <1>5
<1>7. u \in Seq(Frame) /\ Len(u) = n
  <2>1. u \in Seq(Frame)
    BY <1>1, <1>6, FunctionIsSeq
  <2>2. DOMAIN u = 1 .. n /\ DOMAIN u = 1 .. Len(u) /\ Len(u) \in Nat
    BY <1>6, <2>1, LenProperties
  <2>3. QED
    BY <1>1, <2>1, <2>2
<1>8. ASSUME NEW i \in S PROVE u[Rank(S, i)] = Taken(io, qq, i)
  <2>1. Rank(S, i) \in 1 .. n
    BY <1>1, <1>2, RankInjective DEF n
  <2>2. at(Rank(S, i)) = i
    BY <1>1, <1>2, <1>4, <2>1, RankInjective
  <2>3. QED
    BY <1>3, <2>1, <2>2
<1>9. QED
  BY <1>7, <1>8 DEF IsUpper, S, n, u

\* n handlers that run l have been posted.
PostedBehind(io, l, n, io2) ==
    /\ n \in Nat /\ io \in Seq(Handler) /\ io2 \in Seq(Handler) /\ Len(io2) = Len(io) + n
    /\ \A i \in 1 .. Len(io) : io2[i] = io[i]
    /\ \A i \in Len(io) + 1 .. Len(io) + n : io2[i].run = l

\* Their positions.
LEMMA BehindPosted ==
    ASSUME NEW io, NEW l, NEW n, NEW io2, PostedBehind(io, l, n, io2)
    PROVE  /\ PostedIn(io2, l) = PostedIn(io, l) \cup (Len(io) + 1 .. Len(io) + n)
           /\ \A m : m # l => PostedIn(io2, m) = PostedIn(io, m)
           /\ l \in {"ipv4", "arp"} => UpIn(io2) = UpIn(io) \cup (Len(io) + 1 .. Len(io) + n)
           /\ l \notin {"ipv4", "arp"} => UpIn(io2) = UpIn(io)
<1> DEFINE N == Len(io)
           New == N + 1 .. N + n
<1>1. /\ N \in Nat /\ n \in Nat /\ DOMAIN io = 1 .. N /\ DOMAIN io2 = 1 .. N + n
  BY LenProperties DEF PostedBehind
<1>2. /\ \A i \in DOMAIN io : io2[i] = io[i]
      /\ \A i \in New : io2[i].run = l
  BY <1>1 DEF PostedBehind
<1>3. DOMAIN io2 = DOMAIN io \cup New
  <2> HIDE DEF N
  <2>1. QED
    BY <1>1
<1> HIDE DEF New
<1>4. PostedIn(io2, l) = PostedIn(io, l) \cup New
  BY <1>2, <1>3 DEF PostedIn
<1>5. \A m : m # l => PostedIn(io2, m) = PostedIn(io, m)
  BY <1>2, <1>3 DEF PostedIn
<1>6. l \in {"ipv4", "arp"} => UpIn(io2) = UpIn(io) \cup New
  BY <1>4, <1>5 DEF UpIn
<1>7. l \notin {"ipv4", "arp"} => UpIn(io2) = UpIn(io)
  BY <1>5 DEF UpIn
<1>8. QED
  BY <1>4, <1>5, <1>6, <1>7 DEF New

\* Only the queue of l has changed.
OnlyQueue(l, qq, qq2) ==
    qq2 \in [Layer -> Seq(Frame)] /\ \A m \in Layer : m # l => qq2[m] = qq[m]

\* With as many frames as handlers there is one handler for each frame still.
LEMMA BehindMatched ==
    ASSUME NEW io, NEW qq, QueuesTyped(io, qq), Matched(io, qq),
           NEW l, NEW n, NEW io2, PostedBehind(io, l, n, io2), NEW qq2, OnlyQueue(l, qq, qq2),
           l \in Layer => Len(qq2[l]) = Len(qq[l]) + n
    PROVE  QueuesTyped(io2, qq2) /\ Matched(io2, qq2)
<1>1. QueuesTyped(io2, qq2)
  BY DEF QueuesTyped, PostedBehind, OnlyQueue
<1>2. /\ PostedIn(io2, l) = PostedIn(io, l) \cup (Len(io) + 1 .. Len(io) + n)
      /\ \A m : m # l => PostedIn(io2, m) = PostedIn(io, m)
  BY BehindPosted
<1>3. /\ Len(io) \in Nat /\ n \in Nat /\ PostedIn(io, l) \in SUBSET (1 .. Len(io))
  BY PostedTyped DEF PostedBehind
<1>4. Cardinality(PostedIn(io2, l)) = Cardinality(PostedIn(io, l)) + n
  <2>1. Behind(PostedIn(io, l), Len(io), n, PostedIn(io2, l))
    BY <1>2, <1>3 DEF Behind
  <2>2. QED
    BY <2>1, RankBehind
<1>5. \A m \in Layer : Cardinality(PostedIn(io, m)) = Len(qq[m])
  BY DEF Matched
<1>6. ASSUME NEW m \in Layer PROVE Cardinality(PostedIn(io2, m)) = Len(qq2[m])
  <2>1. CASE m = l
    BY <1>4, <1>5, <2>1
  <2>2. CASE m # l
    BY <1>2, <1>5, <2>2 DEF OnlyQueue
  <2>3. QED
    BY <2>1, <2>2
<1>7. QED
  BY <1>1, <1>6 DEF Matched

\* The frame of a handler is not disturbed by handlers and frames behind it.
LEMMA TakenKept ==
    ASSUME NEW io, NEW qq, QueuesTyped(io, qq), Matched(io, qq),
           NEW l, NEW n, NEW io2, PostedBehind(io, l, n, io2), NEW qq2, OnlyQueue(l, qq, qq2),
           l \in Layer => \A k \in 1 .. Len(qq[l]) : qq2[l][k] = qq[l][k],
           NEW i \in UpIn(io)
    PROVE  Taken(io2, qq2, i) = Taken(io, qq, i)
<1> DEFINE m == io[i].run
           P == PostedIn(io, m)
           P2 == PostedIn(io2, m)
<1>1. Len(io) \in Nat /\ n \in Nat /\ P \in SUBSET (1 .. Len(io)) /\ IsFiniteSet(P) /\ i \in 1 .. Len(io)
  BY PostedTyped DEF PostedBehind
<1>2. m \in Layer /\ i \in P /\ io2[i].run = m
  BY <1>1 DEF UpIn, PostedIn, Layer, PostedBehind
<1>3. Cardinality(P) = Len(qq[m])
  BY <1>2 DEF Matched
<1>4. P \in SUBSET (Nat \ {0})
  BY <1>1, PositionsPositive
<1>5. P2 = P \/ P2 = P \cup (Len(io) + 1 .. Len(io) + n)
  BY BehindPosted
<1> HIDE DEF m, P, P2
<1>6. Rank(P2, i) = Rank(P, i)
  <2>1. CASE P2 = P
    BY <2>1
  <2>2. CASE P2 = P \cup (Len(io) + 1 .. Len(io) + n)
    <3>1. Behind(P, Len(io), n, P2)
      BY <1>1, <2>2 DEF Behind
    <3>2. QED
      BY <1>1, <3>1, RankBehind
  <2>3. QED
    BY <1>5, <2>1, <2>2
<1>7. Rank(P, i) \in 1 .. Len(qq[m])
  BY <1>1, <1>2, <1>3, <1>4, RankInjective
<1>8. qq2[m][Rank(P, i)] = qq[m][Rank(P, i)]
  BY <1>2, <1>7 DEF OnlyQueue
<1>9. qq2[m][Rank(P2, i)] = qq[m][Rank(P, i)]
  BY <1>6, <1>8
<1>10. QED
  BY <1>2, <1>9 DEF Taken, m, P, P2

\* Frames of ipv4 or arp with their handlers are added behind the others.
LEMMA UpperBehind ==
    ASSUME NEW io, NEW qq, QueuesTyped(io, qq), Matched(io, qq), NEW u, IsUpper(io, qq, u),
           NEW l \in {"ipv4", "arp"}, NEW fs \in Seq(Frame),
           NEW io2, PostedBehind(io, l, Len(fs), io2),
           NEW qq2, OnlyQueue(l, qq, qq2), qq2[l] = qq[l] \o fs
    PROVE  QueuesTyped(io2, qq2) /\ Matched(io2, qq2) /\ IsUpper(io2, qq2, u \o fs)
<1> DEFINE n == Len(fs)
           N == Len(io)
           S == UpIn(io)
           S2 == UpIn(io2)
           P == PostedIn(io, l)
           P2 == PostedIn(io2, l)
           w == u \o fs
<1>1. /\ l \in Layer /\ qq[l] \in Seq(Frame) /\ u \in Seq(Frame) /\ Len(u) = Cardinality(S)
      /\ \A i \in S : u[Rank(S, i)] = Taken(io, qq, i)
      /\ Cardinality(P) = Len(qq[l])
  BY DEF Layer, QueuesTyped, IsUpper, Matched
<1>2. /\ Len(qq2[l]) = Len(qq[l]) + n /\ Len(qq[l]) \in Nat /\ n \in Nat
      /\ \A k \in 1 .. Len(qq[l]) : qq2[l][k] = qq[l][k]
      /\ \A k \in 1 .. n : qq2[l][Len(qq[l]) + k] = fs[k]
  <2>1. /\ Len(qq[l]) \in Nat /\ n \in Nat
    BY <1>1, LenProperties
  <2>2. /\ Len(qq2[l]) = Len(qq[l]) + n
        /\ \A k \in 1 .. Len(qq[l]) + n : qq2[l][k] = IF k <= Len(qq[l]) THEN qq[l][k] ELSE fs[k - Len(qq[l])]
    BY <1>1, ConcatProperties
  <2>3. QED
    BY <2>1, <2>2
<1>3. /\ w \in Seq(Frame) /\ Len(w) = Len(u) + n /\ Len(u) \in Nat
      /\ \A k \in 1 .. Len(u) : w[k] = u[k]
      /\ \A k \in 1 .. n : w[Len(u) + k] = fs[k]
  <2>1. /\ Len(u) \in Nat /\ n \in Nat
    BY <1>1, LenProperties
  <2>2. /\ w \in Seq(Frame) /\ Len(w) = Len(u) + n
        /\ \A k \in 1 .. Len(u) + n : w[k] = IF k <= Len(u) THEN u[k] ELSE fs[k - Len(u)]
    BY <1>1, ConcatProperties
  <2>3. QED
    BY <2>1, <2>2
<1>4. QueuesTyped(io2, qq2) /\ Matched(io2, qq2)
  BY <1>2, BehindMatched
<1>5. /\ N \in Nat /\ S \in SUBSET (1 .. N) /\ P \in SUBSET (1 .. N) /\ IsFiniteSet(S)
  BY PostedTyped DEF PostedBehind
<1>6. S2 = S \cup (N + 1 .. N + n) /\ P2 = P \cup (N + 1 .. N + n)
  BY BehindPosted
<1>7. \A i \in S : Taken(io2, qq2, i) = Taken(io, qq, i)
  BY <1>2, TakenKept
<1>8. \A i \in N + 1 .. N + n : Taken(io2, qq2, i) = qq2[l][Rank(P2, i)]
  BY DEF Taken, PostedBehind
<1>9. S \in SUBSET (Nat \ {0})
  BY <1>5, PositionsPositive
<1> HIDE DEF n, N, S, S2, P, P2, w
<1>10. /\ Cardinality(S2) = Cardinality(S) + n
       /\ \A i \in 1 .. N : Rank(S2, i) = Rank(S, i)
       /\ \A k \in 1 .. n : Rank(S2, N + k) = Cardinality(S) + k
  <2>1. Behind(S, N, n, S2)
    BY <1>2, <1>5, <1>6 DEF Behind
  <2>2. QED
    BY <2>1, RankBehind
<1>11. \A k \in 1 .. n : Rank(P2, N + k) = Cardinality(P) + k
  <2>1. Behind(P, N, n, P2)
    BY <1>2, <1>5, <1>6 DEF Behind
  <2>2. QED
    BY <2>1, RankBehind
<1>12. \A i \in S : Rank(S, i) \in 1 .. Len(u)
  BY <1>1, <1>5, <1>9, RankInjective
<1>13. ASSUME NEW i \in S2 PROVE w[Rank(S2, i)] = Taken(io2, qq2, i)
  <2>1. CASE i \in S
    BY <1>1, <1>3, <1>5, <1>7, <1>10, <1>12, <2>1
  <2>2. CASE i \in N + 1 .. N + n
    <3>1. i - N \in 1 .. n /\ N + (i - N) = i
      BY <1>2, <1>5, <2>2
    <3>2. Rank(S2, i) = Len(u) + (i - N) /\ Rank(P2, i) = Len(qq[l]) + (i - N)
      BY <1>1, <1>10, <1>11, <3>1
    <3>3. w[Rank(S2, i)] = fs[i - N] /\ qq2[l][Rank(P2, i)] = fs[i - N]
      BY <1>2, <1>3, <3>1, <3>2
    <3>4. QED
      BY <1>8, <2>2, <3>3
  <2>3. QED
    BY <1>6, <2>1, <2>2
<1>14. Len(w) = Cardinality(S2)
  BY <1>1, <1>3, <1>10
<1>15. QED
  BY <1>3, <1>4, <1>13, <1>14 DEF IsUpper, S2, w

\* A handler of ethernetv2 or a callback behind the others changes nothing there.
LEMMA OtherBehind ==
    ASSUME NEW io, NEW qq, QueuesTyped(io, qq), Matched(io, qq), NEW u, IsUpper(io, qq, u),
           NEW l, l \notin {"ipv4", "arp"}, NEW n, NEW io2, PostedBehind(io, l, n, io2),
           NEW qq2, OnlyQueue(l, qq, qq2), l \in Layer => Len(qq2[l]) = Len(qq[l]) + n
    PROVE  QueuesTyped(io2, qq2) /\ Matched(io2, qq2) /\ IsUpper(io2, qq2, u)
<1>1. QueuesTyped(io2, qq2) /\ Matched(io2, qq2)
  BY BehindMatched
<1>2. UpIn(io2) = UpIn(io) /\ PostedIn(io2, "ipv4") = PostedIn(io, "ipv4")
      /\ PostedIn(io2, "arp") = PostedIn(io, "arp")
  BY BehindPosted
<1>3. ASSUME NEW i \in UpIn(io) PROVE Taken(io2, qq2, i) = Taken(io, qq, i)
  <2>1. i \in 1 .. Len(io)
    BY PostedTyped DEF PostedBehind
  <2>2. io2[i] = io[i] /\ io[i].run \in {"ipv4", "arp"} /\ io[i].run \in Layer
    BY <2>1 DEF PostedBehind, UpIn, PostedIn, Layer
  <2>3. qq2[io[i].run] = qq[io[i].run] /\ PostedIn(io2, io[i].run) = PostedIn(io, io[i].run)
    BY <1>2, <2>2 DEF OnlyQueue
  <2>4. QED
    BY <2>2, <2>3 DEF Taken
<1>4. QED
  BY <1>1, <1>2, <1>3 DEF IsUpper

\* The positions of the handlers behind the front.
LEMMA TailPosted ==
    ASSUME NEW io \in Seq(Handler), io # <<>>
    PROVE  /\ \A m : MovedDown(PostedIn(io, m), PostedIn(Tail(io), m))
           /\ \A m : 1 \in PostedIn(io, m) <=> Head(io).run = m
           /\ MovedDown(UpIn(io), UpIn(Tail(io)))
           /\ 1 \in UpIn(io) <=> Head(io).run \in {"ipv4", "arp"}
           /\ \A i \in UpIn(Tail(io)) : /\ i \in Nat \ {0} /\ i + 1 \in UpIn(io)
                                        /\ Tail(io)[i] = io[i + 1]
           /\ Tail(io) \in Seq(Handler)
<1> DEFINE t == Tail(io)
<1>1. IsTail(io, t) /\ Head(io) = io[1] /\ t \in Seq(Handler)
  BY TailIs
<1>2. \A m : /\ PostedIn(io, m) \in SUBSET (1 .. Len(io)) /\ IsFiniteSet(PostedIn(io, m))
             /\ PostedIn(io, m) \in SUBSET (Nat \ {0})
  BY PostedTyped, PositionsPositive
<1>3. UpIn(io) \in SUBSET (Nat \ {0}) /\ IsFiniteSet(UpIn(io))
  BY PostedTyped, PositionsPositive
<1> HIDE DEF t
<1>4. ASSUME NEW m PROVE MovedDown(PostedIn(io, m), PostedIn(t, m))
  <2>1. \A i : i \in PostedIn(t, m) <=> i \in Nat \ {0} /\ i + 1 \in PostedIn(io, m)
    BY <1>1 DEF IsTail, PostedIn
  <2>2. PostedIn(t, m) = {i \in Nat \ {0} : i + 1 \in PostedIn(io, m)}
    BY <2>1
  <2>3. QED
    BY <1>2, <2>2 DEF MovedDown
<1>5. MovedDown(UpIn(io), UpIn(t))
  <2>1. \A m : PostedIn(t, m) = {i \in Nat \ {0} : i + 1 \in PostedIn(io, m)}
    BY <1>4 DEF MovedDown
  <2>2. UpIn(t) = {i \in Nat \ {0} : i + 1 \in UpIn(io)}
    BY <2>1 DEF UpIn
  <2>3. QED
    BY <1>3, <2>2 DEF MovedDown
<1>6. \A m : 1 \in PostedIn(io, m) <=> Head(io).run = m
  BY <1>1 DEF IsTail, PostedIn
<1>7. 1 \in UpIn(io) <=> Head(io).run \in {"ipv4", "arp"}
  BY <1>6 DEF UpIn
<1>8. \A i \in UpIn(t) : i \in Nat \ {0} /\ i + 1 \in UpIn(io) /\ t[i] = io[i + 1]
  <2>1. \A i \in UpIn(t) : i \in DOMAIN t
    BY DEF UpIn, PostedIn
  <2>2. QED
    BY <1>1, <1>5, <2>1 DEF IsTail, MovedDown
<1>9. QED
  BY <1>1, <1>4, <1>5, <1>6, <1>7, <1>8 DEF t

\* A handler of a layer finds a frame in the queue of the layer.
LEMMA FrontHasFrame ==
    ASSUME NEW io, NEW qq, QueuesTyped(io, qq), Matched(io, qq), io # <<>>, Head(io).run \in Layer
    PROVE  qq[Head(io).run] # <<>>
<1> DEFINE l == Head(io).run
           P == PostedIn(io, l)
<1>1. 1 \in P /\ IsFiniteSet(P)
  BY TailPosted, PostedTyped DEF QueuesTyped
<1>2. Cardinality(P) = Len(qq[l])
  BY DEF Matched
<1> HIDE DEF l, P
<1>3. Cardinality(P) # 0
  BY <1>1, FS_EmptySet
<1>4. Len(<<>>) = 0
  BY EmptySeq
<1>5. qq[l] # <<>>
  BY <1>2, <1>3, <1>4
<1>6. QED
  BY <1>5 DEF l

\* The front handler has taken its frame.
LEMMA FrontMatched ==
    ASSUME NEW io, NEW qq, QueuesTyped(io, qq), Matched(io, qq), io # <<>>,
           NEW qq2, OnlyQueue(Head(io).run, qq, qq2),
           Head(io).run \in Layer => Len(qq2[Head(io).run]) = Len(qq[Head(io).run]) - 1
    PROVE  QueuesTyped(Tail(io), qq2) /\ Matched(Tail(io), qq2)
<1> DEFINE l == Head(io).run
           t == Tail(io)
<1>1. /\ io \in Seq(Handler) /\ t \in Seq(Handler) /\ \A m : MovedDown(PostedIn(io, m), PostedIn(t, m))
      /\ \A m : 1 \in PostedIn(io, m) <=> l = m
  BY TailPosted DEF QueuesTyped
<1>2. \A m \in Layer : Cardinality(PostedIn(io, m)) = Len(qq[m])
  BY DEF Matched
<1>3. QueuesTyped(t, qq2)
  BY <1>1 DEF QueuesTyped, OnlyQueue
<1> HIDE DEF l, t
<1>4. ASSUME NEW m \in Layer PROVE Cardinality(PostedIn(t, m)) = Len(qq2[m])
  <2>1. Cardinality(PostedIn(t, m)) = Cardinality(PostedIn(io, m)) - (IF 1 \in PostedIn(io, m) THEN 1 ELSE 0)
    BY <1>1, RankTail
  <2>2. CASE m = l
    <3>1. Cardinality(PostedIn(t, m)) = Cardinality(PostedIn(io, m)) - 1
      BY <1>1, <2>1, <2>2
    <3>2. QED
      BY <1>2, <2>2, <3>1 DEF l
  <2>3. CASE m # l
    <3>1. Cardinality(PostedIn(t, m)) = Cardinality(PostedIn(io, m)) /\ qq2[m] = qq[m]
      <4>1. Cardinality(PostedIn(io, m)) \in Nat
        BY <1>1, PostedTyped
      <4>2. QED
        BY <1>1, <2>1, <2>3, <4>1 DEF OnlyQueue, l
    <3>2. QED
      BY <1>2, <3>1
  <2>4. QED
    BY <2>2, <2>3
<1>5. QED
  BY <1>3, <1>4 DEF Matched, t

\* The front handler was one of ethernetv2 or a callback.
LEMMA OtherFront ==
    ASSUME NEW io, NEW qq, QueuesTyped(io, qq), Matched(io, qq), NEW u, IsUpper(io, qq, u), io # <<>>,
           Head(io).run \notin {"ipv4", "arp"}, NEW qq2, OnlyQueue(Head(io).run, qq, qq2)
    PROVE  IsUpper(Tail(io), qq2, u)
<1> DEFINE t == Tail(io)
           S == UpIn(io)
           S2 == UpIn(t)
<1>1. /\ MovedDown(S, S2) /\ 1 \notin S
      /\ \A i \in S2 : i \in Nat \ {0} /\ i + 1 \in S /\ t[i] = io[i + 1]
      /\ \A m : MovedDown(PostedIn(io, m), PostedIn(t, m))
      /\ \A m \in {"ipv4", "arp"} : 1 \notin PostedIn(io, m)
      /\ io \in Seq(Handler)
  BY TailPosted DEF QueuesTyped
<1>2. /\ u \in Seq(Frame) /\ Len(u) = Cardinality(S)
      /\ \A i \in S : u[Rank(S, i)] = Taken(io, qq, i)
  BY DEF IsUpper
<1>3. S \in SUBSET Nat /\ IsFiniteSet(S) /\ Cardinality(S) \in Nat
  BY <1>1, FS_CardinalityType DEF MovedDown
<1>4. \A i \in S2 : io[i + 1].run \in {"ipv4", "arp"} /\ i \in PostedIn(t, io[i + 1].run)
  BY <1>1 DEF UpIn, PostedIn
<1> HIDE DEF t, S, S2
<1>5. Cardinality(S2) = Cardinality(S) /\ \A i \in S2 : Rank(S2, i) = Rank(S, i + 1)
  <2>1. /\ Cardinality(S2) = Cardinality(S) - (IF 1 \in S THEN 1 ELSE 0)
        /\ \A i \in S2 : Rank(S2, i) = Rank(S, i + 1) - (IF 1 \in S THEN 1 ELSE 0)
    BY <1>1, RankTail
  <2>2. \A i : Rank(S, i) \in Nat
    BY <1>3, RankType
  <2>3. QED
    BY <1>1, <1>3, <2>1, <2>2
<1>6. ASSUME NEW i \in S2 PROVE Taken(t, qq2, i) = Taken(io, qq, i + 1)
  <2> DEFINE m == io[i + 1].run
             P == PostedIn(io, m)
             P2 == PostedIn(t, m)
  <2>1. m \in {"ipv4", "arp"} /\ m \in Layer /\ i \in P2 /\ t[i].run = m
    BY <1>1, <1>4 DEF Layer
  <2>2. MovedDown(P, P2) /\ 1 \notin P /\ qq2[m] = qq[m]
    BY <1>1, <2>1 DEF OnlyQueue
  <2> HIDE DEF m, P, P2
  <2>3. P \in SUBSET Nat /\ IsFiniteSet(P)
    BY <2>2 DEF MovedDown
  <2>4. Rank(P2, i) = Rank(P, i + 1)
    <3>1. Rank(P2, i) = Rank(P, i + 1) - (IF 1 \in P THEN 1 ELSE 0)
      BY <2>1, <2>2, RankTail
    <3>2. Rank(P, i + 1) \in Nat
      BY <2>3, RankType
    <3>3. QED
      BY <2>2, <3>1, <3>2
  <2>5. qq2[m][Rank(P2, i)] = qq[m][Rank(P, i + 1)]
    BY <2>2, <2>4
  <2>6. QED
    BY <2>1, <2>5 DEF Taken, m, P, P2
<1>7. \A i \in S2 : u[Rank(S2, i)] = Taken(t, qq2, i)
  BY <1>1, <1>2, <1>5, <1>6
<1>8. QED
  BY <1>2, <1>5, <1>7 DEF IsUpper, t, S2

\* The front handler was one of ipv4 or arp: it has taken the first of the frames.
LEMMA UpperFront ==
    ASSUME NEW io, NEW qq, QueuesTyped(io, qq), Matched(io, qq), NEW u, IsUpper(io, qq, u), io # <<>>,
           Head(io).run \in {"ipv4", "arp"}, NEW qq2, OnlyQueue(Head(io).run, qq, qq2),
           qq2[Head(io).run] = Tail(qq[Head(io).run])
    PROVE  /\ u # <<>> /\ Head(u) = Head(qq[Head(io).run])
           /\ IsUpper(Tail(io), qq2, Tail(u))
<1> DEFINE l == Head(io).run
           t == Tail(io)
           S == UpIn(io)
           S2 == UpIn(t)
           v == Tail(u)
<1>1. /\ MovedDown(S, S2) /\ 1 \in S
      /\ \A i \in S2 : i \in Nat \ {0} /\ i + 1 \in S /\ t[i] = io[i + 1]
      /\ \A m : MovedDown(PostedIn(io, m), PostedIn(t, m))
      /\ \A m : 1 \in PostedIn(io, m) <=> l = m
      /\ io \in Seq(Handler) /\ io[1] = Head(io)
  BY TailPosted, TailIs DEF QueuesTyped
<1>2. /\ u \in Seq(Frame) /\ Len(u) = Cardinality(S)
      /\ \A i \in S : u[Rank(S, i)] = Taken(io, qq, i)
  BY DEF IsUpper
<1>3. /\ l \in Layer /\ qq[l] # <<>> /\ qq[l] \in Seq(Frame) /\ Cardinality(PostedIn(io, l)) = Len(qq[l])
  BY FrontHasFrame DEF Layer, QueuesTyped, Matched
<1>4. S \in SUBSET Nat /\ S \in SUBSET (Nat \ {0}) /\ IsFiniteSet(S) /\ Cardinality(S) \in Nat
  BY <1>1, FS_CardinalityType DEF MovedDown
<1>5. \A i \in S2 : io[i + 1].run \in {"ipv4", "arp"} /\ i \in PostedIn(t, io[i + 1].run)
  BY <1>1 DEF UpIn, PostedIn
<1>6. io[1].run = l /\ qq2[l] = Tail(qq[l])
  BY <1>1
<1> HIDE DEF l, t, S, S2
<1>7. u # <<>>
  <2>1. Cardinality(S) # 0
    BY <1>1, <1>4, FS_EmptySet
  <2>2. QED
    BY <1>2, <2>1, EmptySeq
<1>8. /\ IsTail(u, v) /\ Head(u) = u[1] /\ v \in Seq(Frame)
  BY <1>2, <1>7, TailIs
<1>9. Cardinality(S2) = Cardinality(S) - 1 /\ \A i \in S2 : Rank(S2, i) = Rank(S, i + 1) - 1
  <2>1. /\ Cardinality(S2) = Cardinality(S) - (IF 1 \in S THEN 1 ELSE 0)
        /\ \A i \in S2 : Rank(S2, i) = Rank(S, i + 1) - (IF 1 \in S THEN 1 ELSE 0)
    BY <1>1, RankTail
  <2>2. QED
    BY <1>1, <2>1
<1>10. \A T \in SUBSET (Nat \ {0}) : 1 \in T => Rank(T, 1) = 1
  <2> TAKE T \in SUBSET (Nat \ {0})
  <2> HAVE 1 \in T
  <2>1. \A j \in T : j <= 1 <=> j = 1
    OBVIOUS
  <2>2. {j \in T : j <= 1} = {1}
    BY <2>1
  <2>3. QED
    BY <2>2, FS_Singleton DEF Rank
<1>11. Head(u) = Head(qq[l])
  <2> DEFINE P == PostedIn(io, l)
  <2>1. P \in SUBSET (Nat \ {0}) /\ 1 \in P
    BY <1>1 DEF MovedDown
  <2>2. Rank(P, 1) = 1 /\ Rank(S, 1) = 1
    BY <1>1, <1>4, <1>10, <2>1
  <2>3. u[1] = Taken(io, qq, 1)
    BY <1>1, <1>2, <2>2
  <2>4. Taken(io, qq, 1) = qq[l][1]
    BY <1>6, <2>2 DEF Taken
  <2>5. Head(qq[l]) = qq[l][1]
    BY <1>3, TailIs
  <2>6. QED
    BY <1>8, <2>3, <2>4, <2>5
<1>12. ASSUME NEW i \in S2 PROVE Taken(t, qq2, i) = Taken(io, qq, i + 1)
  <2> DEFINE m == io[i + 1].run
             P == PostedIn(io, m)
             P2 == PostedIn(t, m)
  <2>1. m \in {"ipv4", "arp"} /\ m \in Layer /\ i \in P2 /\ t[i].run = m /\ i + 1 \in P /\ i \in Nat \ {0}
    BY <1>1, <1>5 DEF Layer, MovedDown
  <2>2. MovedDown(P, P2) /\ (1 \in P <=> m = l)
    BY <1>1
  <2> HIDE DEF m, P, P2
  <2>3. P \in SUBSET Nat /\ P \in SUBSET (Nat \ {0}) /\ IsFiniteSet(P)
    BY <2>2 DEF MovedDown
  <2>4. Rank(P2, i) = Rank(P, i + 1) - (IF 1 \in P THEN 1 ELSE 0)
    BY <2>1, <2>2, RankTail
  <2>5. Rank(P, i + 1) \in 1 .. Cardinality(P)
    BY <2>1, <2>3, RankInjective
  <2>6. qq2[m][Rank(P2, i)] = qq[m][Rank(P, i + 1)]
    <3>1. CASE m # l
      <4>1. Rank(P2, i) = Rank(P, i + 1)
        BY <2>2, <2>4, <2>5, <3>1
      <4>2. QED
        BY <2>1, <3>1, <4>1 DEF OnlyQueue, l
    <3>2. CASE m = l
      <4>1. Rank(P2, i) = Rank(P, i + 1) - 1 /\ 1 < Rank(P, i + 1) /\ Cardinality(P) = Len(qq[l])
        <5>1. Rank(P, 1) = 1 /\ 1 \in P
          BY <1>10, <2>2, <2>3, <3>2
        <5>2. Rank(P, 1) < Rank(P, i + 1)
          BY <2>1, <2>3, RankGrows
        <5>3. QED
          BY <1>3, <2>4, <3>2, <5>1, <5>2 DEF P
      <4>2. IsTail(qq[l], qq2[l])
        BY <1>3, <1>6, TailIs
      <4>3. DOMAIN qq[l] = 1 .. Len(qq[l])
        BY <1>3, LenProperties
      <4>4. \A r \in 1 .. Len(qq[l]) : r # 1 => qq2[l][r - 1] = qq[l][r]
        BY <4>2, <4>3 DEF IsTail
      <4>5. QED
        BY <2>5, <3>2, <4>1, <4>4
    <3>3. QED
      BY <3>1, <3>2
  <2>7. QED
    BY <2>1, <2>6 DEF Taken, m, P, P2
<1>13. ASSUME NEW i \in S2 PROVE v[Rank(S2, i)] = Taken(t, qq2, i)
  <2>1. i + 1 \in S /\ i \in Nat \ {0}
    BY <1>1
  <2>2. Rank(S, i + 1) \in 1 .. Cardinality(S)
    BY <1>4, <2>1, RankInjective
  <2>3. Rank(S, 1) < Rank(S, i + 1) /\ Rank(S, 1) = 1
    BY <1>1, <1>4, <1>10, <2>1, RankGrows
  <2>4. DOMAIN u = 1 .. Len(u)
    BY <1>2, LenProperties
  <2>5. \A r \in 1 .. Len(u) : r # 1 => v[r - 1] = u[r]
    BY <1>8, <2>4 DEF IsTail
  <2>6. v[Rank(S, i + 1) - 1] = u[Rank(S, i + 1)]
    BY <1>2, <2>2, <2>3, <2>5
  <2>7. QED
    BY <1>2, <1>9, <1>12, <2>1, <2>6
<1>14. Len(v) = Cardinality(S2)
  BY <1>2, <1>8, <1>9 DEF IsTail
<1>15. QED
  BY <1>7, <1>8, <1>11, <1>13, <1>14 DEF IsUpper, l, t, S2

-----------------------------------------------------------------------------
(* The four queues together *)

\* What ipv4 and arp have enqueued and the device has not written.
Chan == out_q \o q["eth"] \o Upper

\* The queues of the layers and of the device: the frame that is being written
\* is the front of the queue of the device.
Queues ==
    /\ QueuesTyped(ioq, q)
    /\ Matched(ioq, q)
    /\ out_q \in Seq(Frame) /\ wire \in Seq(Frame)
    /\ writing = <<>> \/ (out_q # <<>> /\ writing = <<Head(out_q)>>)

\* The front of one sequence moves behind another.
LEMMA MoveFront ==
    ASSUME NEW S, NEW s \in Seq(S), NEW t \in Seq(S), t # <<>>
    PROVE  Append(s, Head(t)) \o Tail(t) = s \o t
<1>1. Head(t) \in S /\ Tail(t) \in Seq(S) /\ t = <<Head(t)>> \o Tail(t)
  <2>1. Head(t) \in S /\ Tail(t) \in Seq(S)
    BY HeadTailProperties
  <2>2. <<Head(t)>> \in Seq(S) /\ Len(<<Head(t)>>) = 1 /\ <<Head(t)>>[1] = Head(t)
    BY <2>1
  <2>3. IsTail(t, Tail(t)) /\ Head(t) = t[1] /\ DOMAIN t = 1 .. Len(t)
    BY TailIs, LenProperties
  <2> DEFINE a == <<Head(t)>>
             w == a \o Tail(t)
             b == Tail(t)
  <2>4. w \in Seq(S) /\ Len(w) = 1 + Len(b)
        /\ \A i \in 1 .. 1 + Len(b) : w[i] = IF i <= 1 THEN a[i] ELSE b[i - 1]
    BY <2>1, <2>2, ConcatProperties
  <2>5. Len(t) \in Nat /\ Len(b) = Len(t) - 1 /\ \A i \in 1 .. Len(t) : i # 1 => b[i - 1] = t[i]
    BY <2>3 DEF IsTail
  <2>6. a[1] = t[1]
    BY <2>2, <2>3
  <2> HIDE DEF w, a, b
  <2>7. Len(w) = Len(t) /\ \A i \in 1 .. Len(t) : w[i] = t[i]
    BY <2>4, <2>5, <2>6
  <2>8. w = t
    BY <2>4, <2>7, SeqEqual
  <2>9. QED
    BY <2>1, <2>8 DEF w, a, b
<1>2. Append(s, Head(t)) = s \o <<Head(t)>> /\ <<Head(t)>> \in Seq(S)
  BY <1>1, AppendIsConcat
<1>3. (s \o <<Head(t)>>) \o Tail(t) = s \o (<<Head(t)>> \o Tail(t))
  BY <1>1, <1>2, ConcatAssociative
<1>4. QED
  BY <1>1, <1>2, <1>3

\* Concatenation of frames may be grouped in any way.
LEMMA FramesGroup ==
    ASSUME NEW r \in Seq(Frame), NEW s \in Seq(Frame), NEW t \in Seq(Frame)
    PROVE  r \o (s \o t) = (r \o s) \o t
<1>1. (r \o s) \o t = r \o (s \o t)
  BY ConcatAssociative
<1>2. QED
  BY <1>1

\* The types of the sequences that make up Chan and Pipe.
LEMMA ChanTyped ==
    ASSUME Queues
    PROVE  /\ IsUpper(ioq, q, Upper) /\ Upper \in Seq(Frame) /\ q["eth"] \in Seq(Frame)
           /\ Chan \in Seq(Frame) /\ Pipe \in Seq(Frame) /\ Pipe = wire \o Chan
<1>1. IsUpper(ioq, q, Upper)
  BY UpperIs, UpperNow DEF Queues
<1>2. Upper \in Seq(Frame) /\ q["eth"] \in Seq(Frame) /\ out_q \in Seq(Frame) /\ wire \in Seq(Frame)
  BY <1>1 DEF IsUpper, Queues, QueuesTyped, Layer
<1> DEFINE e == q["eth"]
           u == Upper
<1> HIDE DEF e, u
<1>3. out_q \o e \in Seq(Frame) /\ wire \o out_q \in Seq(Frame)
  BY <1>2, ConcatProperties DEF e
<1>4. (out_q \o e) \o u \in Seq(Frame)
  BY <1>2, <1>3, ConcatProperties DEF u
<1>5. wire \o ((out_q \o e) \o u) = (wire \o (out_q \o e)) \o u
  BY <1>2, <1>3, FramesGroup, ZenonT(30) DEF e, u
<1>6. wire \o (out_q \o e) = (wire \o out_q) \o e
  BY <1>2, FramesGroup, Zenon DEF e, u
<1>7. wire \o ((out_q \o e) \o u) \in Seq(Frame)
  BY <1>2, <1>4, ConcatProperties
<1>8. QED
  BY <1>1, <1>2, <1>4, <1>5, <1>6, <1>7 DEF Chan, Pipe, e, u

\* Handlers of base_protocol::enqueue.
LEMMA HandlersBehind ==
    ASSUME NEW io \in Seq(Handler), NEW l \in Layer, NEW n \in Nat
    PROVE  PostedBehind(io, l, n, io \o Handlers(l, n))
<1> DEFINE hs == Handlers(l, n)
           w == io \o hs
<1>1. hs \in Seq(Handler) /\ Len(hs) = n /\ \A i \in 1 .. n : hs[i].run = l
  <2>1. [run |-> l] \in Handler /\ [run |-> l].run = l
    BY DEF Handler
  <2>2. hs \in [1 .. n -> Handler] /\ \A i \in 1 .. n : hs[i].run = l
    BY <2>1 DEF Handlers
  <2> HIDE DEF hs
  <2>3. hs \in Seq(Handler)
    BY <2>2, FunctionIsSeq
  <2>4. Len(hs) \in Nat /\ DOMAIN hs = 1 .. Len(hs)
    BY <2>3, LenProperties
  <2>5. QED
    BY <2>2, <2>3, <2>4
<1> HIDE DEF hs
<1>2. /\ w \in Seq(Handler) /\ Len(w) = Len(io) + n
      /\ \A i \in 1 .. Len(io) + n : w[i] = IF i <= Len(io) THEN io[i] ELSE hs[i - Len(io)]
  BY <1>1, ConcatProperties
<1>3. Len(io) \in Nat
  BY LenProperties
<1> HIDE DEF w
<1>4. \A i \in 1 .. Len(io) : w[i] = io[i]
  BY <1>2, <1>3
<1>5. \A i \in Len(io) + 1 .. Len(io) + n : w[i].run = l
  BY <1>1, <1>2, <1>3
<1>6. QED
  BY <1>2, <1>4, <1>5 DEF PostedBehind, w, hs

\* One handler.
LEMMA HandlerBehind ==
    ASSUME NEW io \in Seq(Handler), NEW h \in Handler
    PROVE  PostedBehind(io, h.run, 1, Append(io, h))
<1> DEFINE w == Append(io, h)
<1>1. w \in Seq(Handler) /\ IsAppend(io, h, w) /\ DOMAIN io = 1 .. Len(io) /\ Len(io) \in Nat
  BY AppendProperties, AppendIs, LenProperties
<1> HIDE DEF w
<1>2. QED
  BY <1>1 DEF IsAppend, PostedBehind, w

\* Frames are added to Chan and nothing is written.
Extended(fs) == wire' = wire /\ Chan' = Chan \o fs

\* Frames are added to Upper, and the rest of the queues stays as it is.
LEMMA UpperExtends ==
    ASSUME Queues, NEW fs \in Seq(Frame), UNCHANGED <<wire, out_q, writing>>, q'["eth"] = q["eth"],
           QueuesTyped(ioq', q'), Matched(ioq', q'), IsUpper(ioq', q', Upper \o fs)
    PROVE  Queues' /\ Extended(fs)
<1>1. Queues'
  BY DEF Queues
<1>2. Upper' = Upper \o fs
  BY UpperIs, UpperNow, UpperUnique DEF QueuesTyped
<1>3. /\ out_q \o q["eth"] \in Seq(Frame) /\ Upper \in Seq(Frame)
  BY ChanTyped, ConcatProperties DEF Queues
<1>4. (out_q \o q["eth"]) \o (Upper \o fs) = ((out_q \o q["eth"]) \o Upper) \o fs
  BY <1>3, FramesGroup, Zenon
<1>5. QED
  BY <1>1, <1>2, <1>4 DEF Extended, Chan

\* Nothing is added.
LEMMA UpperStays ==
    ASSUME Queues, UNCHANGED <<wire, out_q, writing>>, q'["eth"] = q["eth"],
           QueuesTyped(ioq', q'), Matched(ioq', q'), IsUpper(ioq', q', Upper)
    PROVE  Queues' /\ Extended(<<>>)
<1>1. Upper \in Seq(Frame) /\ Upper \o <<>> = Upper /\ <<>> \in Seq(Frame)
  BY ChanTyped, ConcatEmptySeq, EmptySeq
<1>2. QED
  BY <1>1, UpperExtends

\* base_protocol::enqueue of ipv4 and arp.
LEMMA EnqueueExtends ==
    ASSUME Queues, NEW l \in {"ipv4", "arp"}, NEW fs \in Seq(Frame), enqueue(l, fs),
           UNCHANGED <<wire, out_q, writing>>
    PROVE  Queues' /\ Extended(fs)
<1>1. QueuesTyped(ioq, q) /\ Matched(ioq, q) /\ IsUpper(ioq, q, Upper) /\ l \in Layer /\ Len(fs) \in Nat
  BY ChanTyped, LenProperties DEF Queues, Layer
<1>2. q \in [Layer -> Seq(Frame)] /\ q[l] \o fs \in Seq(Frame)
  BY <1>1, ConcatProperties DEF QueuesTyped
<1>3. OnlyQueue(l, q, q') /\ q'[l] = q[l] \o fs
  BY <1>1, <1>2 DEF enqueue, OnlyQueue
<1>4. PostedBehind(ioq, l, Len(fs), ioq')
  BY <1>1, HandlersBehind DEF enqueue, QueuesTyped
<1>5. QueuesTyped(ioq', q') /\ Matched(ioq', q') /\ IsUpper(ioq', q', Upper \o fs)
  BY <1>1, <1>3, <1>4, UpperBehind
<1>6. q'["eth"] = q["eth"]
  BY <1>3 DEF OnlyQueue, Layer
<1>7. QED
  BY <1>5, <1>6, UpperExtends

\* The callback of a resolution is posted.
LEMMA CbExtends ==
    ASSUME Queues, NEW h \in Handler, h.run = "cb", ioq' = Append(ioq, h), UNCHANGED <<q, wire, out_q, writing>>
    PROVE  Queues' /\ Extended(<<>>)
<1>1. QueuesTyped(ioq, q) /\ Matched(ioq, q) /\ IsUpper(ioq, q, Upper)
  BY ChanTyped DEF Queues
<1>2. OnlyQueue("cb", q, q') /\ "cb" \notin Layer
  BY <1>1 DEF OnlyQueue, QueuesTyped, Layer
<1>3. PostedBehind(ioq, "cb", 1, ioq')
  BY <1>1, HandlerBehind DEF QueuesTyped
<1>4. QueuesTyped(ioq', q') /\ Matched(ioq', q') /\ IsUpper(ioq', q', Upper)
  BY <1>1, <1>2, <1>3, OtherBehind
<1>5. QED
  BY <1>4, UpperStays

\* A sequence of one frame.
LEMMA OneFrame ==
    ASSUME NEW f \in Frame
    PROVE  /\ <<f>> \in Seq(Frame) /\ Len(<<f>>) = 1
           /\ \A s \in Seq(Frame) : Append(s, f) = s \o <<f>> /\ Append(s, f) \in Seq(Frame)
<1>1. <<f>> \in Seq(Frame) /\ Len(<<f>>) = 1
  OBVIOUS
<1>2. \A s \in Seq(Frame) : Append(s, f) = s \o <<f>>
  BY AppendIsConcat
<1>3. \A s \in Seq(Frame) : Append(s, f) \in Seq(Frame)
  BY AppendProperties
<1>4. QED
  BY <1>1, <1>2, <1>3

\* The posted callback of a resolution adds its frame.
LEMMA RunCbExtends ==
    ASSUME Queues, RunCb, resolved(Head(ioq).frame, Head(ioq).mac) \in Frame
    PROVE  Queues' /\ Extended(<<resolved(Head(ioq).frame, Head(ioq).mac)>>)
<1> DEFINE f == resolved(Head(ioq).frame, Head(ioq).mac)
           t == Tail(ioq)
           fs == <<f>>
<1>1. /\ ioq # <<>> /\ Head(ioq).run = "cb" /\ q' = [q EXCEPT !["ipv4"] = Append(@, f)]
      /\ ioq' = Append(t, [run |-> "ipv4"]) /\ UNCHANGED <<wire, out_q, writing>>
  BY DEF RunCb
<1> HIDE DEF f
<1>2. f \in Frame /\ fs \in Seq(Frame) /\ Len(fs) = 1
  BY OneFrame DEF f
<1>3. QueuesTyped(ioq, q) /\ Matched(ioq, q) /\ IsUpper(ioq, q, Upper)
  BY ChanTyped DEF Queues
<1>4. OnlyQueue("cb", q, q) /\ "cb" \notin Layer
  BY <1>3 DEF OnlyQueue, QueuesTyped, Layer
<1>5. QueuesTyped(t, q) /\ Matched(t, q) /\ IsUpper(t, q, Upper)
  BY <1>1, <1>3, <1>4, FrontMatched, OtherFront
<1> HIDE DEF t, fs
<1>6. /\ q["ipv4"] \in Seq(Frame) /\ Append(q["ipv4"], f) = q["ipv4"] \o fs /\ Append(q["ipv4"], f) \in Seq(Frame)
  <2>1. q["ipv4"] \in Seq(Frame)
    BY <1>3 DEF QueuesTyped, Layer
  <2>2. QED
    BY <1>2, <2>1, OneFrame DEF fs
<1>7. OnlyQueue("ipv4", q, q') /\ q'["ipv4"] = q["ipv4"] \o fs /\ q'["eth"] = q["eth"]
  BY <1>1, <1>3, <1>6 DEF OnlyQueue, QueuesTyped, Layer
<1>8. PostedBehind(t, "ipv4", Len(fs), ioq')
  <2>1. [run |-> "ipv4"] \in Handler /\ [run |-> "ipv4"].run = "ipv4"
    BY DEF Handler, Layer
  <2>2. t \in Seq(Handler)
    BY <1>5 DEF QueuesTyped
  <2>3. PostedBehind(t, [run |-> "ipv4"].run, 1, Append(t, [run |-> "ipv4"]))
    BY <2>1, <2>2, HandlerBehind
  <2>4. QED
    BY <1>1, <1>2, <2>1, <2>3
<1>9. QueuesTyped(ioq', q') /\ Matched(ioq', q') /\ IsUpper(ioq', q', Upper \o fs)
  BY <1>2, <1>5, <1>7, <1>8, UpperBehind
<1>10. QED
  BY <1>1, <1>2, <1>7, <1>9, UpperExtends DEF fs, f

\* The handler of enqueue in ipv4 and arp hands the first of the frames on.
LEMMA RunUpperExtends ==
    ASSUME Queues, NEW l \in {"ipv4", "arp"}, RunUpper(l)
    PROVE  Queues' /\ Extended(<<>>)
<1> DEFINE t == Tail(ioq)
           q1 == [q EXCEPT ![l] = Tail(@)]
           e == q["eth"]
           u == Upper
           f == Head(q[l])
<1>1. /\ ioq # <<>> /\ Head(ioq).run = l /\ q' = [q EXCEPT ![l] = Tail(@), !["eth"] = Append(@, f)]
      /\ ioq' = Append(t, [run |-> "eth"]) /\ UNCHANGED <<wire, out_q, writing>>
  BY DEF RunUpper
<1>2. QueuesTyped(ioq, q) /\ Matched(ioq, q) /\ IsUpper(ioq, q, u) /\ l \in Layer
      /\ u \in Seq(Frame) /\ e \in Seq(Frame) /\ out_q \in Seq(Frame)
  BY ChanTyped DEF Queues, Layer
<1>3. q[l] # <<>> /\ q[l] \in Seq(Frame) /\ q \in [Layer -> Seq(Frame)]
  BY <1>1, <1>2, FrontHasFrame DEF QueuesTyped
<1>4. /\ f \in Frame /\ Tail(q[l]) \in Seq(Frame) /\ Len(Tail(q[l])) = Len(q[l]) - 1
  BY <1>3, TailIs DEF IsTail
<1>5. OnlyQueue(l, q, q1) /\ q1[l] = Tail(q[l])
  BY <1>2, <1>3, <1>4 DEF OnlyQueue
<1>6. q1["eth"] = e
  BY <1>3 DEF Layer
<1>7. Append(e, f) \in Seq(Frame) /\ Len(Append(e, f)) = Len(e) + 1
  BY <1>2, <1>4, AppendProperties
<1>8. q' = [q1 EXCEPT !["eth"] = Append(e, f)]
  BY <1>1, <1>3 DEF Layer
<1> HIDE DEF t, q1
<1>9. u # <<>> /\ Head(u) = f /\ IsUpper(t, q1, Tail(u)) /\ QueuesTyped(t, q1) /\ Matched(t, q1)
  <2>1. u # <<>> /\ Head(u) = f /\ IsUpper(t, q1, Tail(u))
    BY <1>1, <1>2, <1>5, UpperFront DEF t
  <2>2. QueuesTyped(t, q1) /\ Matched(t, q1)
    BY <1>1, <1>2, <1>4, <1>5, FrontMatched DEF t
  <2>3. QED
    BY <2>1, <2>2
<1> HIDE DEF e, u, f
<1>10. OnlyQueue("eth", q1, q') /\ q'["eth"] = Append(e, f) /\ Len(q'["eth"]) = Len(q1["eth"]) + 1
  BY <1>5, <1>6, <1>7, <1>8 DEF OnlyQueue, Layer
<1>11. PostedBehind(t, "eth", 1, ioq')
  <2>1. [run |-> "eth"] \in Handler /\ [run |-> "eth"].run = "eth"
    BY DEF Handler, Layer
  <2>2. t \in Seq(Handler)
    BY <1>9 DEF QueuesTyped
  <2>3. PostedBehind(t, [run |-> "eth"].run, 1, Append(t, [run |-> "eth"]))
    BY <2>1, <2>2, HandlerBehind
  <2>4. QED
    BY <1>1, <2>1, <2>3
<1>12. QueuesTyped(ioq', q') /\ Matched(ioq', q') /\ IsUpper(ioq', q', Tail(u))
  BY <1>9, <1>10, <1>11, OtherBehind
<1>13. Upper' = Tail(u)
  BY <1>12, UpperIs, UpperNow, UpperUnique DEF QueuesTyped
<1>14. Queues'
  BY <1>1, <1>12 DEF Queues
<1>15. (out_q \o Append(e, f)) \o Tail(u) = (out_q \o e) \o u
  <2>1. Append(e, f) \o Tail(u) = e \o u /\ Tail(u) \in Seq(Frame)
    BY <1>2, <1>9, MoveFront, TailIs
  <2>2. out_q \o (Append(e, f) \o Tail(u)) = (out_q \o Append(e, f)) \o Tail(u)
    BY <1>2, <1>7, <2>1, FramesGroup, Zenon
  <2>3. out_q \o (e \o u) = (out_q \o e) \o u
    BY <1>2, FramesGroup, Zenon
  <2>4. QED
    BY <2>1, <2>2, <2>3
<1>16. Chan' = Chan /\ wire' = wire
  BY <1>1, <1>10, <1>13, <1>15 DEF Chan, e, u
<1>17. Chan \o <<>> = Chan
  BY ChanTyped, ConcatEmptySeq
<1>18. QED
  BY <1>14, <1>16, <1>17 DEF Extended

\* The handler of enqueue in ethernetv2 hands the front on to the device.
LEMMA RunEthExtends ==
    ASSUME Queues, RunEth
    PROVE  Queues' /\ Extended(<<>>)
<1> DEFINE t == Tail(ioq)
           e == q["eth"]
           u == Upper
           f == Head(e)
<1>1. /\ ioq # <<>> /\ Head(ioq).run = "eth" /\ q' = [q EXCEPT !["eth"] = Tail(@)]
      /\ ioq' = t /\ wire' = wire
      /\ out_q' = Append(out_q, f) /\ writing' = IF Len(out_q') = 1 THEN <<f>> ELSE writing
  BY DEF RunEth, device_process
<1>2. QueuesTyped(ioq, q) /\ Matched(ioq, q) /\ IsUpper(ioq, q, u) /\ "eth" \in Layer
      /\ u \in Seq(Frame) /\ e \in Seq(Frame) /\ out_q \in Seq(Frame) /\ wire \in Seq(Frame)
      /\ (writing = <<>> \/ (out_q # <<>> /\ writing = <<Head(out_q)>>))
  BY ChanTyped DEF Queues, Layer
<1>3. e # <<>> /\ q \in [Layer -> Seq(Frame)]
  BY <1>1, <1>2, FrontHasFrame DEF QueuesTyped
<1>4. /\ f \in Frame /\ Tail(e) \in Seq(Frame) /\ Len(Tail(e)) = Len(e) - 1
  BY <1>2, <1>3, TailIs DEF IsTail
<1>5. OnlyQueue("eth", q, q') /\ q'["eth"] = Tail(e)
  BY <1>1, <1>2, <1>3, <1>4 DEF OnlyQueue
<1>6. IsUpper(t, q', u) /\ QueuesTyped(t, q') /\ Matched(t, q')
  <2>1. IsUpper(t, q', u)
    BY <1>1, <1>2, <1>5, OtherFront
  <2>2. QueuesTyped(t, q') /\ Matched(t, q')
    BY <1>1, <1>2, <1>4, <1>5, FrontMatched
  <2>3. QED
    BY <2>1, <2>2
<1> HIDE DEF t, u
<1>7. Upper' = u
  BY <1>1, <1>6, UpperIs, UpperNow, UpperUnique DEF QueuesTyped
<1>8. Append(out_q, f) \o Tail(e) = out_q \o e
  BY <1>2, <1>3, MoveFront
<1> HIDE DEF f
<1>9. Append(out_q, f) \in Seq(Frame) /\ Append(out_q, f) # <<>> /\ Len(Append(out_q, f)) = Len(out_q) + 1
      /\ Head(Append(out_q, f)) = (IF out_q = <<>> THEN f ELSE Head(out_q))
  BY <1>2, <1>4, AppendProperties, HeadTailAppend
<1>10. writing' = <<>> \/ writing' = <<Head(out_q')>>
  <2>1. CASE out_q = <<>>
    <3>1. Len(out_q') = 1 /\ Head(out_q') = f
      BY <1>1, <1>9, <2>1, EmptySeq
    <3>2. QED
      BY <1>1, <3>1
  <2>2. CASE out_q # <<>>
    <3>1. Len(out_q) \in Nat \ {0}
      BY <1>2, <2>2, EmptySeq
    <3>2. Len(out_q') # 1
      BY <1>1, <1>9, <3>1
    <3>3. QED
      BY <1>1, <1>2, <1>9, <2>2, <3>2
  <2>3. QED
    BY <2>1, <2>2
<1>11. Queues'
  BY <1>1, <1>2, <1>6, <1>9, <1>10 DEF Queues
<1>12. Chan' = Chan
  BY <1>1, <1>5, <1>7, <1>8 DEF Chan, e, u
<1>13. Chan \o <<>> = Chan
  BY ChanTyped, ConcatEmptySeq
<1>14. QED
  BY <1>1, <1>11, <1>12, <1>13 DEF Extended

\* The front and the rest of two sequences are those of the first.
LEMMA FrontOfConcat ==
    ASSUME NEW S, NEW s \in Seq(S), NEW t \in Seq(S), s # <<>>
    PROVE  s \o t # <<>> /\ Head(s \o t) = Head(s) /\ Tail(s \o t) = Tail(s) \o t
<1> DEFINE w == s \o t
           v == Tail(s)
           x == v \o t
           y == Tail(w)
<1>1. /\ IsTail(s, v) /\ Head(s) = s[1] /\ v \in Seq(S) /\ Len(t) \in Nat
  BY TailIs, LenProperties
<1>2. /\ w \in Seq(S) /\ Len(w) = Len(s) + Len(t)
      /\ \A i \in 1 .. Len(s) + Len(t) : w[i] = IF i <= Len(s) THEN s[i] ELSE t[i - Len(s)]
  BY ConcatProperties
<1>3. /\ x \in Seq(S) /\ Len(x) = Len(v) + Len(t)
      /\ \A i \in 1 .. Len(v) + Len(t) : x[i] = IF i <= Len(v) THEN v[i] ELSE t[i - Len(v)]
  BY <1>1, ConcatProperties
<1>4. Len(s) \in Nat \ {0} /\ Len(v) = Len(s) - 1 /\ DOMAIN v = 1 .. Len(v)
      /\ \A i \in 1 .. Len(v) : v[i] = s[i + 1]
  BY <1>1, LenProperties DEF IsTail
<1> HIDE DEF w, v, x
<1>5. w # <<>>
  BY <1>1, <1>2, <1>4, EmptySeq
<1>6. IsTail(w, y) /\ Head(w) = w[1] /\ y \in Seq(S)
  BY <1>2, <1>5, TailIs
<1> HIDE DEF y
<1>7. Len(y) = Len(w) - 1 /\ DOMAIN y = 1 .. Len(y) /\ \A i \in 1 .. Len(y) : y[i] = w[i + 1]
  BY <1>6, LenProperties DEF IsTail
<1>8. Head(w) = Head(s)
  BY <1>1, <1>2, <1>4, <1>6
<1>9. Len(y) = Len(x)
  BY <1>1, <1>2, <1>3, <1>4, <1>7
<1>10. ASSUME NEW i \in 1 .. Len(y) PROVE y[i] = x[i]
  <2>1. i + 1 \in 1 .. Len(s) + Len(t) /\ i \in 1 .. Len(v) + Len(t) /\ i \in Nat
    BY <1>1, <1>2, <1>3, <1>4, <1>7, <1>9
  <2>2. CASE i <= Len(v)
    <3>1. i + 1 <= Len(s) /\ i \in 1 .. Len(v)
      BY <1>4, <2>1, <2>2
    <3>2. QED
      BY <1>2, <1>3, <1>4, <1>7, <2>1, <2>2, <3>1
  <2>3. CASE ~(i <= Len(v))
    <3>1. ~(i + 1 <= Len(s)) /\ i - Len(v) = (i + 1) - Len(s)
      BY <1>4, <2>1, <2>3
    <3>2. QED
      BY <1>2, <1>3, <1>7, <2>1, <2>3, <3>1
  <2>4. QED
    BY <2>2, <2>3
<1>11. y = x
  BY <1>3, <1>6, <1>9, <1>10, SeqEqual
<1>12. QED
  BY <1>5, <1>8, <1>11 DEF w, v, x, y

\* A completed write has taken the front of Chan.
Delivered ==
    /\ Chan # <<>>
    /\ wire' = Append(wire, Head(Chan))
    /\ Chan' = Tail(Chan)

\* async_write of send_front_pkt_out has completed.
LEMMA WriteDoneDelivers ==
    ASSUME Queues, WriteDone
    PROVE  Queues' /\ Delivered
<1> DEFINE e == q["eth"]
           u == Upper
           r == e \o u
           o == Tail(out_q)
<1>1. /\ writing # <<>> /\ wire' = Append(wire, Head(writing)) /\ out_q' = o
      /\ writing' = IF out_q' = <<>> THEN <<>> ELSE <<Head(out_q')>>
      /\ UNCHANGED <<ioq, q>>
  BY DEF WriteDone
<1>2. /\ out_q # <<>> /\ Head(writing) = Head(out_q) /\ u \in Seq(Frame) /\ e \in Seq(Frame)
      /\ out_q \in Seq(Frame) /\ wire \in Seq(Frame)
  BY <1>1, ChanTyped DEF Queues
<1>3. Upper' = u
  BY <1>1, UpperNow
<1>4. o \in Seq(Frame) /\ Head(out_q) \in Frame
  BY <1>2, TailIs
<1>5. wire' \in Seq(Frame)
  BY <1>1, <1>2, <1>4, AppendProperties
<1>6. Queues'
  BY <1>1, <1>4, <1>5 DEF Queues
<1> HIDE DEF e, u
<1>7. r \in Seq(Frame)
  BY <1>2, ConcatProperties
<1>8. (out_q \o e) \o u = out_q \o r /\ (o \o e) \o u = o \o r
  <2>1. out_q \o (e \o u) = (out_q \o e) \o u
    BY <1>2, FramesGroup, Zenon
  <2>2. o \o (e \o u) = (o \o e) \o u
    BY <1>2, <1>4, FramesGroup, ZenonT(30)
  <2>3. QED
    BY <2>1, <2>2
<1> HIDE DEF r, o
<1>9. out_q \o r # <<>> /\ Head(out_q \o r) = Head(out_q) /\ Tail(out_q \o r) = o \o r
  BY <1>2, <1>7, FrontOfConcat DEF o
<1>10. Chan = out_q \o r /\ Chan' = o \o r
  BY <1>1, <1>3, <1>8 DEF Chan, e, u
<1>11. QED
  BY <1>1, <1>2, <1>6, <1>9, <1>10 DEF Delivered

\* What leaves the queues alone.
LEMMA SameExtends ==
    ASSUME Queues, UNCHANGED <<ioq, q, out_q, wire>>, writing' = writing \/ writing' = <<>>
    PROVE  Queues' /\ Extended(<<>>)
<1>1. Queues'
  BY DEF Queues
<1>2. Upper' = Upper
  BY UpperNow
<1>3. Chan \o <<>> = Chan
  BY ChanTyped, ConcatEmptySeq
<1>4. QED
  BY <1>1, <1>2, <1>3 DEF Extended, Chan

-----------------------------------------------------------------------------
(* The inductive invariant of the packets *)

(***************************************************************************)
(* It is stated of the parts p (Pipe), io (ioq), w (on_replies), c (the    *)
(* addresses in the cache), st (sent) and hd (heard), because a handler    *)
(* changes several of them one after the other.                            *)
(***************************************************************************)

\* Where the packets and the callbacks are, and the frame a callback will make.
IpAt(p) == {k \in DOMAIN p : p[k].proto = "ipv4"}
CbAt(io) == PostedIn(io, "cb")
CbFrame(io, i) == resolved(io[i].frame, io[i].mac)

\* The packet f has been sent to a hop, from the own address to one that the hop
\* has announced.
Right(f, st, hd) ==
    /\ f.src = MyMac
    /\ f.id \in Nat /\ f.id + 1 \in DOMAIN st /\ st[f.id + 1] \in Hop
    /\ <<st[f.id + 1], f.dst>> \in hd

\* The packet f has been sent to the hop a.
Waits(f, a, st) ==
    /\ f.src = MyMac
    /\ f.id \in Nat /\ f.id + 1 \in DOMAIN st /\ a \in Hop /\ st[f.id + 1] = a

FlowTyped(p, io, w, st) ==
    /\ p \in Seq(Frame) /\ io \in Seq(Handler)
    /\ w \in [Addr -> Seq(Unresolved)] /\ st \in Seq(Hop \cup {NoHop})

FlowRight(p, io, w, st, hd) ==
    /\ \A k \in IpAt(p) : Right(p[k], st, hd)
    /\ \A i \in CbAt(io) : Right(CbFrame(io, i), st, hd)
    /\ \A a \in Addr : \A j \in DOMAIN w[a] : Waits(w[a][j], a, st)

SameHop(f, g, st) == st[f.id + 1] = st[g.id + 1]

\* Of the packets to one hop the callbacks are posted in the order of the
\* packets, behind all that have been enqueued and all that wait; and as long as
\* the hop is not in the cache, none has a callback and those that wait were sent
\* behind all that have been enqueued.
FlowOrder(p, io, w, c, st) ==
    /\ \A i, j \in CbAt(io) :
        i < j /\ SameHop(CbFrame(io, i), CbFrame(io, j), st) => CbFrame(io, i).id < CbFrame(io, j).id
    /\ \A k \in IpAt(p), i \in CbAt(io) : SameHop(p[k], CbFrame(io, i), st) => p[k].id < CbFrame(io, i).id
    /\ \A a \in Addr : \A i, j \in DOMAIN w[a] : i < j => w[a][i].id < w[a][j].id
    /\ \A i \in CbAt(io), a \in Addr : \A j \in DOMAIN w[a] :
        SameHop(w[a][j], CbFrame(io, i), st) => w[a][j].id < CbFrame(io, i).id
    /\ \A a \in Hop : a \notin c =>
        /\ \A i \in CbAt(io) : st[CbFrame(io, i).id + 1] # a
        /\ \A k \in IpAt(p), j \in DOMAIN w[a] : st[p[k].id + 1] = a => p[k].id < w[a][j].id

\* No packet is enqueued twice or enqueued while it waits, and every packet to a
\* hop is enqueued, has its callback posted, or waits.
FlowOnce(p, io, w, st) ==
    /\ \A k, m \in IpAt(p) : p[k].id = p[m].id => k = m
    /\ \A k \in IpAt(p), a \in Addr : \A j \in DOMAIN w[a] : p[k].id # w[a][j].id
    /\ \A n \in DOMAIN st : st[n] \in Hop =>
        \/ \E k \in IpAt(p) : p[k].id + 1 = n
        \/ \E i \in CbAt(io) : CbFrame(io, i).id + 1 = n
        \/ \E j \in DOMAIN w[st[n]] : w[st[n]][j].id + 1 = n

Flow(p, io, w, c, st, hd) ==
    /\ FlowTyped(p, io, w, st)
    /\ FlowRight(p, io, w, st, hd)
    /\ FlowOrder(p, io, w, c, st)
    /\ FlowOnce(p, io, w, st)

\* The fields of a resolved frame.
LEMMA ResolvedFields ==
    ASSUME NEW f, NEW m
    PROVE  /\ resolved(f, m).proto = "ipv4" /\ resolved(f, m).id = f.id
           /\ resolved(f, m).src = f.src /\ resolved(f, m).dst = m
BY DEF resolved

\* p2 has the packets of p.
SamePackets(p, p2) ==
    p2 \in Seq(Frame) /\ IpAt(p2) = IpAt(p) /\ \A k \in IpAt(p) : p2[k] = p[k]

\* io2 has the callbacks of io from the (d+1)-st handler on.
CbsFrom(io, d, io2) ==
    /\ io2 \in Seq(Handler) /\ d \in Nat
    /\ CbAt(io2) \in SUBSET Nat /\ CbAt(io) \in SUBSET Nat
    /\ \A i \in CbAt(io2) : i + d \in CbAt(io) /\ io2[i] = io[i + d]
    /\ \A i \in CbAt(io) : i > d => \E j \in CbAt(io2) : i = j + d

\* The callbacks are posted as before, the front of the handlers may have been
\* another one.
SameCbs(io, io2) == \E d \in {0, 1} : CbsFrom(io, d, io2) /\ \A i \in CbAt(io) : i > d

\* A step that leaves the packets alone; addresses may be added.
LEMMA FlowSame ==
    ASSUME NEW p, NEW io, NEW w, NEW c, NEW st, NEW hd, Flow(p, io, w, c, st, hd),
           NEW p2, SamePackets(p, p2), NEW io2, SameCbs(io, io2),
           NEW c2, c \subseteq c2, NEW hd2, hd \subseteq hd2
    PROVE  Flow(p2, io2, w, c2, st, hd2)
<1> PICK d \in {0, 1} : CbsFrom(io, d, io2) /\ \A i \in CbAt(io) : i > d
  BY DEF SameCbs
<1>1. /\ p2 \in Seq(Frame) /\ IpAt(p2) = IpAt(p) /\ \A k \in IpAt(p) : p2[k] = p[k]
  BY DEF SamePackets
<1>2. /\ io2 \in Seq(Handler) /\ d \in Nat /\ CbAt(io2) \in SUBSET Nat
      /\ \A i \in CbAt(io2) : i + d \in CbAt(io) /\ CbFrame(io2, i) = CbFrame(io, i + d)
      /\ \A i \in CbAt(io) : \E j \in CbAt(io2) : i = j + d
  BY DEF CbsFrom, CbFrame
<1>3. FlowTyped(p2, io2, w, st)
  BY <1>1, <1>2 DEF Flow, FlowTyped
<1>4. FlowRight(p2, io2, w, st, hd2)
  <2>1. \A f : Right(f, st, hd) => Right(f, st, hd2)
    BY DEF Right
  <2>2. QED
    BY <1>1, <1>2, <2>1 DEF Flow, FlowRight
<1>5. \A i, j \in CbAt(io2) : i < j => i + d < j + d
  BY <1>2
<1>6. FlowOrder(p2, io2, w, c2, st)
  BY <1>1, <1>2, <1>5 DEF Flow, FlowOrder
<1>7. FlowOnce(p2, io2, w, st)
  BY <1>1, <1>2 DEF Flow, FlowOnce
<1>8. QED
  BY <1>3, <1>4, <1>6, <1>7 DEF Flow

\* The front callback has added its frame at n, behind all others.
CbMoved(p, io, p2, n, io2) ==
    /\ CbsFrom(io, 1, io2) /\ 1 \in CbAt(io)
    /\ p2 \in Seq(Frame) /\ n \notin IpAt(p) /\ IpAt(p2) = IpAt(p) \cup {n}
    /\ \A k \in IpAt(p) : p2[k] = p[k]
    /\ p2[n] = CbFrame(io, 1)

\* The callback of a cached address runs.
LEMMA FlowRunCb ==
    ASSUME NEW p, NEW io, NEW w, NEW c, NEW st, NEW hd, Flow(p, io, w, c, st, hd),
           NEW p2, NEW n, NEW io2, CbMoved(p, io, p2, n, io2)
    PROVE  Flow(p2, io2, w, c, st, hd)
<1>1. /\ p2 \in Seq(Frame) /\ n \notin IpAt(p) /\ IpAt(p2) = IpAt(p) \cup {n}
      /\ \A k \in IpAt(p) : p2[k] = p[k]
      /\ p2[n] = CbFrame(io, 1) /\ 1 \in CbAt(io)
  BY DEF CbMoved
<1>2. /\ io2 \in Seq(Handler) /\ CbAt(io2) \in SUBSET Nat /\ CbAt(io) \in SUBSET Nat
      /\ \A i \in CbAt(io2) : i + 1 \in CbAt(io) /\ CbFrame(io2, i) = CbFrame(io, i + 1)
      /\ \A i \in CbAt(io) : i > 1 => \E j \in CbAt(io2) : i = j + 1
  BY DEF CbMoved, CbsFrom, CbFrame
<1>3. 0 \notin CbAt(io2) /\ 0 \notin CbAt(io)
  BY LenProperties, <1>2 DEF CbAt, PostedIn, Flow, FlowTyped
<1>4. /\ \A i \in CbAt(io) : i = 1 \/ i > 1
      /\ \A i \in CbAt(io2) : 1 < i + 1
      /\ \A i, j \in CbAt(io2) : i < j => i + 1 < j + 1
  BY <1>2, <1>3
<1>5. FlowTyped(p2, io2, w, st)
  BY <1>1, <1>2 DEF Flow, FlowTyped
<1>6. FlowRight(p2, io2, w, st, hd)
  BY <1>1, <1>2 DEF Flow, FlowRight
<1>7. FlowOrder(p2, io2, w, c, st)
  <2>1. \A i, j \in CbAt(io2) :
           i < j /\ SameHop(CbFrame(io2, i), CbFrame(io2, j), st) => CbFrame(io2, i).id < CbFrame(io2, j).id
    BY <1>2, <1>4 DEF Flow, FlowOrder
  <2>2. \A k \in IpAt(p2), i \in CbAt(io2) :
           SameHop(p2[k], CbFrame(io2, i), st) => p2[k].id < CbFrame(io2, i).id
    <3> TAKE k \in IpAt(p2), i \in CbAt(io2)
    <3>1. CASE k \in IpAt(p)
      BY <1>1, <1>2, <3>1 DEF Flow, FlowOrder
    <3>2. CASE k = n
      BY <1>1, <1>2, <1>4, <3>2 DEF Flow, FlowOrder
    <3>3. QED
      BY <1>1, <3>1, <3>2
  <2>3. \A i \in CbAt(io2), a \in Addr : \A j \in DOMAIN w[a] :
           SameHop(w[a][j], CbFrame(io2, i), st) => w[a][j].id < CbFrame(io2, i).id
    BY <1>2 DEF Flow, FlowOrder
  <2>4. ASSUME NEW a \in Hop, a \notin c
        PROVE  /\ \A i \in CbAt(io2) : st[CbFrame(io2, i).id + 1] # a
               /\ \A k \in IpAt(p2), j \in DOMAIN w[a] : st[p2[k].id + 1] = a => p2[k].id < w[a][j].id
    <3>1. \A i \in CbAt(io) : st[CbFrame(io, i).id + 1] # a
      BY <2>4 DEF Flow, FlowOrder
    <3>2. \A k \in IpAt(p), j \in DOMAIN w[a] : st[p[k].id + 1] = a => p[k].id < w[a][j].id
      BY <2>4 DEF Flow, FlowOrder
    <3>3. QED
      BY <1>1, <1>2, <3>1, <3>2
  <2>5. \A a \in Addr : \A i, j \in DOMAIN w[a] : i < j => w[a][i].id < w[a][j].id
    BY DEF Flow, FlowOrder
  <2>6. QED
    BY <2>1, <2>2, <2>3, <2>4, <2>5 DEF FlowOrder
<1>8. FlowOnce(p2, io2, w, st)
  <2>1. CbFrame(io, 1).id \in Nat
    BY <1>1 DEF Flow, FlowRight, Right
  <2>2. \A k \in IpAt(p) : p[k].id \in Nat /\ p[k].id # CbFrame(io, 1).id
    <3> TAKE k \in IpAt(p)
    <3>1. p[k].id \in Nat
      BY DEF Flow, FlowRight, Right
    <3>2. SameHop(p[k], CbFrame(io, 1), st) => p[k].id < CbFrame(io, 1).id
      BY <1>1 DEF Flow, FlowOrder
    <3>3. QED
      BY <2>1, <3>1, <3>2 DEF SameHop
  <2>3. \A k, m \in IpAt(p2) : p2[k].id = p2[m].id => k = m
    BY <1>1, <2>2 DEF Flow, FlowOnce
  <2>4. \A k \in IpAt(p2), a \in Addr : \A j \in DOMAIN w[a] : p2[k].id # w[a][j].id
    <3> TAKE k \in IpAt(p2), a \in Addr
    <3> TAKE j \in DOMAIN w[a]
    <3>1. CASE k \in IpAt(p)
      BY <1>1, <3>1 DEF Flow, FlowOnce
    <3>2. CASE k = n
      <4>1. SameHop(w[a][j], CbFrame(io, 1), st) => w[a][j].id < CbFrame(io, 1).id
        BY <1>1 DEF Flow, FlowOrder
      <4>2. w[a][j].id \in Nat
        BY DEF Flow, FlowRight, Waits
      <4>3. QED
        BY <1>1, <2>1, <3>2, <4>1, <4>2 DEF SameHop
    <3>3. QED
      BY <1>1, <3>1, <3>2
  <2>5. ASSUME NEW m \in DOMAIN st, st[m] \in Hop
        PROVE  \/ \E k \in IpAt(p2) : p2[k].id + 1 = m
               \/ \E i \in CbAt(io2) : CbFrame(io2, i).id + 1 = m
               \/ \E j \in DOMAIN w[st[m]] : w[st[m]][j].id + 1 = m
    <3>1. \/ \E k \in IpAt(p) : p[k].id + 1 = m
          \/ \E i \in CbAt(io) : CbFrame(io, i).id + 1 = m
          \/ \E j \in DOMAIN w[st[m]] : w[st[m]][j].id + 1 = m
      BY <2>5 DEF Flow, FlowOnce
    <3>2. ASSUME NEW i \in CbAt(io), CbFrame(io, i).id + 1 = m, i # 1
          PROVE \E j \in CbAt(io2) : CbFrame(io2, j).id + 1 = m
      BY <1>2, <1>4, <3>2
    <3>3. QED
      BY <1>1, <3>1, <3>2
  <2>6. QED
    BY <2>3, <2>4, <2>5 DEF FlowOnce
<1>9. QED
  BY <1>5, <1>6, <1>7, <1>8 DEF Flow

\* Those that waited for a have added their frames behind all others, with the
\* address mac.
WaitingMoved(p, w, a, mac, p2, w2) ==
    /\ p \in Seq(Frame) /\ p2 \in Seq(Frame) /\ w2 \in [Addr -> Seq(Unresolved)]
    /\ Len(p) \in Nat /\ \A k \in DOMAIN p : k \in Nat /\ k <= Len(p)
    /\ DOMAIN w[a] \in SUBSET (Nat \ {0})
    /\ IpAt(p2) = IpAt(p) \cup {Len(p) + j : j \in DOMAIN w[a]}
    /\ \A k \in IpAt(p) : p2[k] = p[k]
    /\ \A j \in DOMAIN w[a] : p2[Len(p) + j] = resolved(w[a][j], mac)
    /\ DOMAIN w2[a] = {}
    /\ \A b \in Addr : b # a => w2[b] = w[b]

\* A reply completes the resolutions that wait for its sender.
LEMMA FlowReply ==
    ASSUME NEW p, NEW io, NEW w, NEW c, NEW st, NEW hd, Flow(p, io, w, c, st, hd),
           NEW a \in Addr, NEW mac, <<a, mac>> \in hd,
           NEW p2, NEW w2, WaitingMoved(p, w, a, mac, p2, w2)
    PROVE  Flow(p2, io, w2, c, st, hd)
<1> DEFINE N == Len(p)
           J == DOMAIN w[a]
<1>1. /\ p2 \in Seq(Frame) /\ w2 \in [Addr -> Seq(Unresolved)] /\ N \in Nat /\ J \in SUBSET (Nat \ {0})
      /\ \A k \in IpAt(p) : k \in Nat /\ k <= N /\ p2[k] = p[k]
      /\ IpAt(p2) = IpAt(p) \cup {N + j : j \in J}
      /\ DOMAIN w2[a] = {} /\ \A b \in Addr : b # a => w2[b] = w[b]
  BY DEF WaitingMoved, IpAt
<1>2. ASSUME NEW j \in J
      PROVE  /\ p2[N + j].id = w[a][j].id /\ p2[N + j].src = w[a][j].src /\ p2[N + j].dst = mac
             /\ w[a][j].src = MyMac /\ w[a][j].id \in Nat /\ w[a][j].id + 1 \in DOMAIN st
             /\ a \in Hop /\ st[w[a][j].id + 1] = a
  <2>1. p2[N + j] = resolved(w[a][j], mac)
    BY DEF WaitingMoved
  <2>2. Waits(w[a][j], a, st)
    BY DEF Flow, FlowRight
  <2>3. QED
    BY <2>1, <2>2, ResolvedFields DEF Waits
<1>3. \A j \in J : N + j > N /\ N + j \in Nat
  BY <1>1
<1> HIDE DEF N, J
<1>4. FlowTyped(p2, io, w2, st)
  BY <1>1 DEF Flow, FlowTyped
<1>5. \A b \in Addr : \A j \in DOMAIN w2[b] : b # a /\ j \in DOMAIN w[b] /\ w2[b][j] = w[b][j]
  BY <1>1
<1>6. ASSUME NEW k \in IpAt(p2)
      PROVE  (k \in IpAt(p) /\ p2[k] = p[k]) \/ \E j \in J : k = N + j
  BY <1>1
<1>7. FlowRight(p2, io, w2, st, hd)
  <2>1. ASSUME NEW k \in IpAt(p2) PROVE Right(p2[k], st, hd)
    <3>1. CASE k \in IpAt(p) /\ p2[k] = p[k]
      BY <3>1 DEF Flow, FlowRight
    <3>2. ASSUME NEW j \in J, k = N + j PROVE Right(p2[k], st, hd)
      BY <1>2, <3>2 DEF Right
    <3>3. QED
      BY <1>6, <3>1, <3>2
  <2>2. QED
    BY <1>5, <2>1 DEF Flow, FlowRight
<1>8. FlowOrder(p2, io, w2, c, st)
  <2>1. ASSUME NEW k \in IpAt(p2), NEW i \in CbAt(io), SameHop(p2[k], CbFrame(io, i), st)
        PROVE  p2[k].id < CbFrame(io, i).id
    <3>1. CASE k \in IpAt(p) /\ p2[k] = p[k]
      BY <2>1, <3>1 DEF Flow, FlowOrder
    <3>2. ASSUME NEW j \in J, k = N + j PROVE p2[k].id < CbFrame(io, i).id
      <4>1. SameHop(w[a][j], CbFrame(io, i), st) => w[a][j].id < CbFrame(io, i).id
        BY DEF Flow, FlowOrder, J
      <4>2. QED
        BY <1>2, <2>1, <3>2, <4>1 DEF SameHop
    <3>3. QED
      BY <1>6, <3>1, <3>2
  <2>2. /\ \A i, j \in CbAt(io) : i < j /\ SameHop(CbFrame(io, i), CbFrame(io, j), st)
                                  => CbFrame(io, i).id < CbFrame(io, j).id
        /\ \A b \in Addr : \A i, j \in DOMAIN w2[b] : i < j => w2[b][i].id < w2[b][j].id
        /\ \A i \in CbAt(io), b \in Addr : \A j \in DOMAIN w2[b] :
              SameHop(w2[b][j], CbFrame(io, i), st) => w2[b][j].id < CbFrame(io, i).id
    BY <1>5 DEF Flow, FlowOrder
  <2>3. ASSUME NEW b \in Hop, b \notin c
        PROVE  /\ \A i \in CbAt(io) : st[CbFrame(io, i).id + 1] # b
               /\ \A k \in IpAt(p2), j \in DOMAIN w2[b] : st[p2[k].id + 1] = b => p2[k].id < w2[b][j].id
    <3>1. /\ \A i \in CbAt(io) : st[CbFrame(io, i).id + 1] # b
          /\ \A k \in IpAt(p), j \in DOMAIN w[b] : st[p[k].id + 1] = b => p[k].id < w[b][j].id
      BY <2>3 DEF Flow, FlowOrder
    <3>2. ASSUME NEW k \in IpAt(p2), NEW j \in DOMAIN w2[b], st[p2[k].id + 1] = b
          PROVE  p2[k].id < w2[b][j].id
      <4>1. b \in Addr /\ b # a /\ j \in DOMAIN w[b] /\ w2[b][j] = w[b][j]
        BY <1>5 DEF Addr
      <4>2. \A i \in J : k # N + i
        BY <1>2, <3>2, <4>1
      <4>3. QED
        BY <1>6, <3>1, <3>2, <4>1, <4>2
    <3>3. QED
      BY <3>1, <3>2
  <2>4. QED
    BY <2>1, <2>2, <2>3 DEF FlowOrder
<1>9. FlowOnce(p2, io, w2, st)
  <2>1. ASSUME NEW i \in J, NEW j \in J, w[a][i].id = w[a][j].id PROVE i = j
    <3>1. \A x, y \in J : x < y => w[a][x].id < w[a][y].id
      BY DEF Flow, FlowOrder, J
    <3>2. ~(i < j) /\ ~(j < i)
      BY <1>2, <2>1, <3>1
    <3>3. QED
      BY <1>1, <3>2
  <2>2. ASSUME NEW k \in IpAt(p), NEW j \in J PROVE p[k].id # w[a][j].id
    BY DEF Flow, FlowOnce, J
  <2>3. \A k, m \in IpAt(p) : p[k].id = p[m].id => k = m
    BY DEF Flow, FlowOnce
  <2>4. ASSUME NEW k \in IpAt(p2), NEW m \in IpAt(p2), p2[k].id = p2[m].id PROVE k = m
    <3>1. CASE k \in IpAt(p) /\ p2[k] = p[k] /\ m \in IpAt(p) /\ p2[m] = p[m]
      BY <2>3, <2>4, <3>1
    <3>2. ASSUME NEW j \in J, m = N + j, k \in IpAt(p) /\ p2[k] = p[k] PROVE FALSE
      BY <1>2, <2>2, <2>4, <3>2
    <3>3. ASSUME NEW j \in J, k = N + j, m \in IpAt(p) /\ p2[m] = p[m] PROVE FALSE
      BY <1>2, <2>2, <2>4, <3>3
    <3>4. ASSUME NEW i \in J, NEW j \in J, k = N + i, m = N + j PROVE k = m
      BY <1>2, <2>1, <2>4, <3>4
    <3>5. QED
      BY <1>6, <3>1, <3>2, <3>3, <3>4
  <2>5. ASSUME NEW k \in IpAt(p2), NEW b \in Addr, NEW j \in DOMAIN w2[b] PROVE p2[k].id # w2[b][j].id
    <3>1. b # a /\ j \in DOMAIN w[b] /\ w2[b][j] = w[b][j]
      BY <1>5
    <3>2. CASE k \in IpAt(p) /\ p2[k] = p[k]
      BY <3>1, <3>2 DEF Flow, FlowOnce
    <3>3. ASSUME NEW i \in J, k = N + i PROVE p2[k].id # w2[b][j].id
      <4>1. Waits(w[b][j], b, st)
        BY <3>1 DEF Flow, FlowRight
      <4>2. QED
        BY <1>2, <3>1, <3>3, <4>1 DEF Waits
    <3>4. QED
      BY <1>6, <3>2, <3>3
  <2>6. ASSUME NEW m \in DOMAIN st, st[m] \in Hop
        PROVE  \/ \E k \in IpAt(p2) : p2[k].id + 1 = m
               \/ \E i \in CbAt(io) : CbFrame(io, i).id + 1 = m
               \/ \E j \in DOMAIN w2[st[m]] : w2[st[m]][j].id + 1 = m
    <3>1. \/ \E k \in IpAt(p) : p[k].id + 1 = m
          \/ \E i \in CbAt(io) : CbFrame(io, i).id + 1 = m
          \/ \E j \in DOMAIN w[st[m]] : w[st[m]][j].id + 1 = m
      BY <2>6 DEF Flow, FlowOnce
    <3>2. ASSUME NEW k \in IpAt(p), p[k].id + 1 = m PROVE \E x \in IpAt(p2) : p2[x].id + 1 = m
      BY <1>1, <3>2
    <3>3. ASSUME NEW j \in DOMAIN w[st[m]], w[st[m]][j].id + 1 = m
          PROVE  \/ \E k \in IpAt(p2) : p2[k].id + 1 = m
                 \/ \E x \in DOMAIN w2[st[m]] : w2[st[m]][x].id + 1 = m
      <4>1. CASE st[m] = a
        <5>1. j \in J /\ N + j \in IpAt(p2)
          BY <1>1, <4>1 DEF J
        <5>2. QED
          BY <1>2, <3>3, <4>1, <5>1
      <4>2. CASE st[m] # a
        BY <1>1, <2>6, <3>3, <4>2 DEF Addr
      <4>3. QED
        BY <4>1, <4>2
    <3>4. QED
      BY <3>1, <3>2, <3>3
  <2>7. QED
    BY <2>4, <2>5, <2>6 DEF FlowOnce
<1>10. QED
  BY <1>4, <1>7, <1>8, <1>9 DEF Flow

\* One more packet has been sent, to h.
OneMore(st, h, st2) == st2 \in Seq(Hop \cup {NoHop}) /\ IsAppend(st, h, st2)

\* The packets of p, of the callbacks and of those that wait have numbers below N.
Below(p, io, w, N) ==
    /\ \A k \in IpAt(p) : p[k].id \in Nat /\ p[k].id < N
    /\ \A i \in CbAt(io) : CbFrame(io, i).id \in Nat /\ CbFrame(io, i).id < N
    /\ \A a \in Addr : \A j \in DOMAIN w[a] : w[a][j].id \in Nat /\ w[a][j].id < N

\* What is known of the packets that were sent before stays true.
LEMMA FlowEarlier ==
    ASSUME NEW p, NEW io, NEW w, NEW c, NEW st, NEW hd, Flow(p, io, w, c, st, hd),
           NEW h, NEW st2, OneMore(st, h, st2)
    PROVE  /\ FlowTyped(p, io, w, st2) /\ FlowRight(p, io, w, st2, hd) /\ FlowOrder(p, io, w, c, st2)
           /\ Below(p, io, w, Len(st))
<1>1. /\ st2 \in Seq(Hop \cup {NoHop}) /\ Len(st) \in Nat /\ st2[Len(st) + 1] = h
      /\ DOMAIN st2 = DOMAIN st \cup {Len(st) + 1}
      /\ \A n \in DOMAIN st : n \in Nat /\ n < Len(st) + 1 /\ st2[n] = st[n]
  BY DEF OneMore, IsAppend
<1>2. \A k \in IpAt(p) : p[k].id \in Nat /\ p[k].id + 1 \in DOMAIN st
  BY DEF Flow, FlowRight, Right
<1>3. \A i \in CbAt(io) : CbFrame(io, i).id \in Nat /\ CbFrame(io, i).id + 1 \in DOMAIN st
  BY DEF Flow, FlowRight, Right
<1>4. \A a \in Addr : \A j \in DOMAIN w[a] : w[a][j].id \in Nat /\ w[a][j].id + 1 \in DOMAIN st
  BY DEF Flow, FlowRight, Waits
<1>5. \A x \in Nat : x + 1 \in DOMAIN st => x < Len(st)
  BY <1>1
<1>6. FlowTyped(p, io, w, st2)
  BY <1>1 DEF Flow, FlowTyped
<1>7. FlowRight(p, io, w, st2, hd)
  <2>1. \A f : Right(f, st, hd) => Right(f, st2, hd)
    BY <1>1 DEF Right
  <2>2. \A f, a : Waits(f, a, st) => Waits(f, a, st2)
    BY <1>1 DEF Waits
  <2>3. QED
    BY <2>1, <2>2 DEF Flow, FlowRight
<1>8. FlowOrder(p, io, w, c, st2)
  <2>1. \A k \in IpAt(p) : st2[p[k].id + 1] = st[p[k].id + 1]
    BY <1>1, <1>2
  <2>2. \A i \in CbAt(io) : st2[CbFrame(io, i).id + 1] = st[CbFrame(io, i).id + 1]
    BY <1>1, <1>3
  <2>3. \A a \in Addr : \A j \in DOMAIN w[a] : st2[w[a][j].id + 1] = st[w[a][j].id + 1]
    BY <1>1, <1>4
  <2>4. QED
    BY <2>1, <2>2, <2>3 DEF Flow, FlowOrder, SameHop
<1>9. QED
  BY <1>2, <1>3, <1>4, <1>5, <1>6, <1>7, <1>8 DEF Below

\* A packet without a route is dropped.
LEMMA FlowDropped ==
    ASSUME NEW p, NEW io, NEW w, NEW c, NEW st, NEW hd, Flow(p, io, w, c, st, hd),
           NEW st2, OneMore(st, NoHop, st2)
    PROVE  Flow(p, io, w, c, st2, hd)
<1>1. /\ FlowTyped(p, io, w, st2) /\ FlowRight(p, io, w, st2, hd) /\ FlowOrder(p, io, w, c, st2)
  BY FlowEarlier
<1>2. FlowOnce(p, io, w, st2)
  <2>1. /\ st2[Len(st) + 1] = NoHop /\ DOMAIN st2 = DOMAIN st \cup {Len(st) + 1}
        /\ \A n \in DOMAIN st : st2[n] = st[n]
    BY DEF OneMore, IsAppend
  <2>2. QED
    BY <2>1, NeighbourConstants DEF Flow, FlowOnce
<1>3. QED
  BY <1>1, <1>2 DEF Flow

\* The callback of packet number n has been posted, with the address mac.
CbPosted(io, n, mac, io2) ==
    /\ io2 \in Seq(Handler)
    /\ \E k \in Nat :
        /\ CbAt(io) \in SUBSET Nat /\ \A i \in CbAt(io) : i < k
        /\ CbAt(io2) = CbAt(io) \cup {k}
        /\ \A i \in CbAt(io) : io2[i] = io[i]
        /\ CbFrame(io2, k).id = n /\ CbFrame(io2, k).src = MyMac /\ CbFrame(io2, k).dst = mac

\* A packet to a hop whose address is in the cache.
LEMMA FlowPosted ==
    ASSUME NEW p, NEW io, NEW w, NEW c, NEW st, NEW hd, Flow(p, io, w, c, st, hd),
           NEW h \in Hop, h \in c, NEW mac, <<h, mac>> \in hd,
           NEW st2, OneMore(st, h, st2), NEW io2, CbPosted(io, Len(st), mac, io2)
    PROVE  Flow(p, io2, w, c, st2, hd)
<1> DEFINE N == Len(st)
<1>1. /\ FlowTyped(p, io, w, st2) /\ FlowRight(p, io, w, st2, hd) /\ FlowOrder(p, io, w, c, st2)
      /\ \A k \in IpAt(p) : p[k].id \in Nat /\ p[k].id < N
      /\ \A i \in CbAt(io) : CbFrame(io, i).id \in Nat /\ CbFrame(io, i).id < N
      /\ \A a \in Addr : \A j \in DOMAIN w[a] : w[a][j].id \in Nat /\ w[a][j].id < N
      /\ N \in Nat /\ st2[N + 1] = h /\ DOMAIN st2 = DOMAIN st \cup {N + 1}
      /\ \A n \in DOMAIN st : st2[n] = st[n]
  <2>1. /\ FlowTyped(p, io, w, st2) /\ FlowRight(p, io, w, st2, hd) /\ FlowOrder(p, io, w, c, st2)
        /\ Below(p, io, w, Len(st))
    BY FlowEarlier
  <2>2. QED
    BY <2>1 DEF Below, OneMore, IsAppend
<1> PICK k \in Nat :
        /\ CbAt(io) \in SUBSET Nat /\ \A i \in CbAt(io) : i < k
        /\ CbAt(io2) = CbAt(io) \cup {k}
        /\ \A i \in CbAt(io) : io2[i] = io[i]
        /\ CbFrame(io2, k).id = N /\ CbFrame(io2, k).src = MyMac /\ CbFrame(io2, k).dst = mac
  BY DEF CbPosted
<1>2. \A i \in CbAt(io) : CbFrame(io2, i) = CbFrame(io, i)
  BY DEF CbFrame
<1> HIDE DEF N
<1>3. FlowTyped(p, io2, w, st2)
  BY <1>1 DEF FlowTyped, CbPosted
<1>4. FlowRight(p, io2, w, st2, hd)
  <2>1. Right(CbFrame(io2, k), st2, hd)
    BY <1>1 DEF Right
  <2>2. \A i \in CbAt(io2) : Right(CbFrame(io2, i), st2, hd)
    BY <1>1, <1>2, <2>1 DEF FlowRight
  <2>3. QED
    BY <1>1, <2>2 DEF FlowRight
<1>5. FlowOrder(p, io2, w, c, st2)
  <2>1. ASSUME NEW i \in CbAt(io2), NEW j \in CbAt(io2), i < j, SameHop(CbFrame(io2, i), CbFrame(io2, j), st2)
        PROVE  CbFrame(io2, i).id < CbFrame(io2, j).id
    <3>1. CASE j \in CbAt(io)
      <4>1. i \in CbAt(io)
        BY <2>1, <3>1
      <4>2. QED
        BY <1>1, <1>2, <2>1, <3>1, <4>1 DEF FlowOrder
    <3>2. CASE j = k
      <4>1. i \in CbAt(io)
        BY <2>1, <3>2
      <4>2. QED
        BY <1>1, <1>2, <3>2, <4>1
    <3>3. QED
      BY <3>1, <3>2
  <2>2. \A m \in IpAt(p), i \in CbAt(io2) : SameHop(p[m], CbFrame(io2, i), st2) => p[m].id < CbFrame(io2, i).id
    BY <1>1, <1>2 DEF FlowOrder
  <2>3. \A i \in CbAt(io2), a \in Addr : \A j \in DOMAIN w[a] :
           SameHop(w[a][j], CbFrame(io2, i), st2) => w[a][j].id < CbFrame(io2, i).id
    BY <1>1, <1>2 DEF FlowOrder
  <2>4. ASSUME NEW a \in Hop, a \notin c
        PROVE  /\ \A i \in CbAt(io2) : st2[CbFrame(io2, i).id + 1] # a
               /\ \A m \in IpAt(p), j \in DOMAIN w[a] : st2[p[m].id + 1] = a => p[m].id < w[a][j].id
    <3>1. /\ \A i \in CbAt(io) : st2[CbFrame(io, i).id + 1] # a
          /\ \A m \in IpAt(p), j \in DOMAIN w[a] : st2[p[m].id + 1] = a => p[m].id < w[a][j].id
      BY <1>1, <2>4 DEF FlowOrder
    <3>2. QED
      BY <1>1, <1>2, <2>4, <3>1
  <2>5. \A a \in Addr : \A i, j \in DOMAIN w[a] : i < j => w[a][i].id < w[a][j].id
    BY <1>1 DEF FlowOrder
  <2>6. QED
    BY <2>1, <2>2, <2>3, <2>4, <2>5 DEF FlowOrder
<1>6. FlowOnce(p, io2, w, st2)
  <2>1. ASSUME NEW m \in DOMAIN st2, st2[m] \in Hop
        PROVE  \/ \E x \in IpAt(p) : p[x].id + 1 = m
               \/ \E i \in CbAt(io2) : CbFrame(io2, i).id + 1 = m
               \/ \E j \in DOMAIN w[st2[m]] : w[st2[m]][j].id + 1 = m
    <3>1. CASE m \in DOMAIN st
      <4>1. st2[m] = st[m]
        BY <1>1, <3>1
      <4>2. \/ \E x \in IpAt(p) : p[x].id + 1 = m
            \/ \E i \in CbAt(io) : CbFrame(io, i).id + 1 = m
            \/ \E j \in DOMAIN w[st[m]] : w[st[m]][j].id + 1 = m
        BY <2>1, <3>1, <4>1 DEF Flow, FlowOnce
      <4>3. QED
        BY <1>2, <4>1, <4>2
    <3>2. CASE m = N + 1
      BY <3>2
    <3>3. QED
      BY <1>1, <3>1, <3>2
  <2>2. QED
    BY <2>1 DEF Flow, FlowOnce
<1>7. QED
  BY <1>3, <1>4, <1>5, <1>6 DEF Flow

\* The packet number n has been added to those that wait for h.
OneWaits(w, h, n, w2) ==
    /\ w2 \in [Addr -> Seq(Unresolved)]
    /\ \A a \in Addr : a # h => w2[a] = w[a]
    /\ \E f : f.id = n /\ f.src = MyMac /\ IsAppend(w[h], f, w2[h])

\* A packet to a hop whose address is not in the cache.
LEMMA FlowWaits ==
    ASSUME NEW p, NEW io, NEW w, NEW c, NEW st, NEW hd, Flow(p, io, w, c, st, hd),
           NEW h \in Hop, h \notin c, NEW st2, OneMore(st, h, st2), NEW w2, OneWaits(w, h, Len(st), w2)
    PROVE  Flow(p, io, w2, c, st2, hd)
<1> DEFINE N == Len(st)
           K == Len(w[h]) + 1
<1>1. /\ FlowTyped(p, io, w, st2) /\ FlowRight(p, io, w, st2, hd) /\ FlowOrder(p, io, w, c, st2)
      /\ \A k \in IpAt(p) : p[k].id \in Nat /\ p[k].id < N
      /\ \A i \in CbAt(io) : CbFrame(io, i).id \in Nat /\ CbFrame(io, i).id < N
      /\ \A a \in Addr : \A j \in DOMAIN w[a] : w[a][j].id \in Nat /\ w[a][j].id < N
      /\ N \in Nat /\ st2[N + 1] = h /\ DOMAIN st2 = DOMAIN st \cup {N + 1}
      /\ \A n \in DOMAIN st : st2[n] = st[n]
  <2>1. /\ FlowTyped(p, io, w, st2) /\ FlowRight(p, io, w, st2, hd) /\ FlowOrder(p, io, w, c, st2)
        /\ Below(p, io, w, Len(st))
    BY FlowEarlier
  <2>2. QED
    BY <2>1 DEF Below, OneMore, IsAppend
<1> PICK f : f.id = N /\ f.src = MyMac /\ IsAppend(w[h], f, w2[h])
  BY DEF OneWaits
<1>2. /\ K \in Nat /\ DOMAIN w2[h] = DOMAIN w[h] \cup {K} /\ w2[h][K] = f
      /\ \A j \in DOMAIN w[h] : j \in Nat /\ j < K /\ w2[h][j] = w[h][j]
  BY DEF IsAppend
<1>3. w2 \in [Addr -> Seq(Unresolved)] /\ (\A a \in Addr : a # h => w2[a] = w[a]) /\ h \in Addr
  BY DEF OneWaits, Addr
<1> HIDE DEF N, K
<1>4. ASSUME NEW a \in Addr, NEW j \in DOMAIN w2[a]
      PROVE  \/ j \in DOMAIN w[a] /\ w2[a][j] = w[a][j]
             \/ a = h /\ j = K /\ w2[a][j].id = N /\ w2[a][j].src = MyMac
  BY <1>2, <1>3
<1>5. FlowTyped(p, io, w2, st2)
  BY <1>1, <1>3 DEF FlowTyped
<1>6. FlowRight(p, io, w2, st2, hd)
  <2>1. ASSUME NEW a \in Addr, NEW j \in DOMAIN w2[a] PROVE Waits(w2[a][j], a, st2)
    <3>1. CASE j \in DOMAIN w[a] /\ w2[a][j] = w[a][j]
      BY <1>1, <3>1 DEF FlowRight
    <3>2. CASE a = h /\ j = K /\ w2[a][j].id = N /\ w2[a][j].src = MyMac
      BY <1>1, <3>2 DEF Waits
    <3>3. QED
      BY <1>4, <3>1, <3>2
  <2>2. QED
    BY <1>1, <2>1 DEF FlowRight
<1>7. \A i \in CbAt(io) : st2[CbFrame(io, i).id + 1] # h
  BY <1>1 DEF FlowOrder
<1>8. FlowOrder(p, io, w2, c, st2)
  <2>1. ASSUME NEW a \in Addr, NEW i \in DOMAIN w2[a], NEW j \in DOMAIN w2[a], i < j
        PROVE  w2[a][i].id < w2[a][j].id
    <3>1. CASE a # h
      BY <1>1, <1>3, <2>1, <3>1 DEF FlowOrder
    <3>2. CASE a = h /\ j = K
      <4>1. i \in DOMAIN w[h] /\ w2[h][i] = w[h][i]
        BY <1>2, <2>1, <3>2
      <4>2. QED
        BY <1>1, <1>2, <1>3, <3>2, <4>1
    <3>3. CASE a = h /\ j # K
      <4>1. j \in DOMAIN w[h] /\ i \in DOMAIN w[h] /\ w2[h][i] = w[h][i] /\ w2[h][j] = w[h][j]
        BY <1>2, <2>1, <3>3
      <4>2. QED
        BY <1>1, <1>3, <2>1, <3>3, <4>1 DEF FlowOrder
    <3>4. QED
      BY <3>1, <3>2, <3>3
  <2>2. ASSUME NEW i \in CbAt(io), NEW a \in Addr, NEW j \in DOMAIN w2[a], SameHop(w2[a][j], CbFrame(io, i), st2)
        PROVE  w2[a][j].id < CbFrame(io, i).id
    <3>1. CASE j \in DOMAIN w[a] /\ w2[a][j] = w[a][j]
      BY <1>1, <2>2, <3>1 DEF FlowOrder
    <3>2. CASE w2[a][j].id = N
      BY <1>1, <1>7, <2>2, <3>2 DEF SameHop
    <3>3. QED
      BY <1>4, <3>1, <3>2
  <2>3. ASSUME NEW a \in Hop, a \notin c
        PROVE  /\ \A i \in CbAt(io) : st2[CbFrame(io, i).id + 1] # a
               /\ \A k \in IpAt(p), j \in DOMAIN w2[a] : st2[p[k].id + 1] = a => p[k].id < w2[a][j].id
    <3>1. /\ \A i \in CbAt(io) : st2[CbFrame(io, i).id + 1] # a
          /\ \A k \in IpAt(p), j \in DOMAIN w[a] : st2[p[k].id + 1] = a => p[k].id < w[a][j].id
      BY <1>1, <2>3 DEF FlowOrder
    <3>2. ASSUME NEW k \in IpAt(p), NEW j \in DOMAIN w2[a], st2[p[k].id + 1] = a
          PROVE  p[k].id < w2[a][j].id
      <4>1. a \in Addr
        BY DEF Addr
      <4>2. CASE j \in DOMAIN w[a] /\ w2[a][j] = w[a][j]
        BY <3>1, <3>2, <4>2
      <4>3. CASE w2[a][j].id = N
        BY <1>1, <4>3
      <4>4. QED
        BY <1>4, <4>1, <4>2, <4>3
    <3>3. QED
      BY <3>1, <3>2
  <2>4. QED
    BY <1>1, <2>1, <2>2, <2>3 DEF FlowOrder
<1>9. FlowOnce(p, io, w2, st2)
  <2>1. ASSUME NEW k \in IpAt(p), NEW a \in Addr, NEW j \in DOMAIN w2[a] PROVE p[k].id # w2[a][j].id
    <3>1. CASE j \in DOMAIN w[a] /\ w2[a][j] = w[a][j]
      BY <3>1 DEF Flow, FlowOnce
    <3>2. CASE w2[a][j].id = N
      BY <1>1, <3>2
    <3>3. QED
      BY <1>4, <3>1, <3>2
  <2>2. ASSUME NEW m \in DOMAIN st2, st2[m] \in Hop
        PROVE  \/ \E x \in IpAt(p) : p[x].id + 1 = m
               \/ \E i \in CbAt(io) : CbFrame(io, i).id + 1 = m
               \/ \E j \in DOMAIN w2[st2[m]] : w2[st2[m]][j].id + 1 = m
    <3>1. CASE m \in DOMAIN st
      <4>1. st2[m] = st[m] /\ st[m] \in Addr
        BY <1>1, <2>2, <3>1 DEF Addr
      <4>2. \/ \E x \in IpAt(p) : p[x].id + 1 = m
            \/ \E i \in CbAt(io) : CbFrame(io, i).id + 1 = m
            \/ \E j \in DOMAIN w[st[m]] : w[st[m]][j].id + 1 = m
        BY <2>2, <3>1, <4>1 DEF Flow, FlowOnce
      <4>3. \A j \in DOMAIN w[st[m]] : j \in DOMAIN w2[st[m]] /\ w2[st[m]][j] = w[st[m]][j]
        BY <1>2, <1>3, <4>1
      <4>4. QED
        BY <4>1, <4>2, <4>3
    <3>2. CASE m = N + 1
      BY <1>1, <1>2, <3>2
    <3>3. QED
      BY <1>1, <3>1, <3>2
  <2>3. QED
    BY <2>1, <2>2 DEF Flow, FlowOnce
<1>10. QED
  BY <1>5, <1>6, <1>8, <1>9 DEF Flow

-----------------------------------------------------------------------------
(* The steps of the handlers on packets and callbacks *)

\* The packets of two sequences.
LEMMA ConcatPackets ==
    ASSUME NEW p \in Seq(Frame), NEW fs \in Seq(Frame)
    PROVE  /\ p \o fs \in Seq(Frame) /\ Len(p) \in Nat
           /\ \A k \in DOMAIN p : k \in Nat /\ k <= Len(p)
           /\ \A j \in DOMAIN fs : j \in Nat \ {0}
           /\ IpAt(p) \subseteq DOMAIN p /\ IpAt(fs) \subseteq DOMAIN fs
           /\ IpAt(p \o fs) = IpAt(p) \cup {Len(p) + j : j \in IpAt(fs)}
           /\ \A k \in DOMAIN p : (p \o fs)[k] = p[k]
           /\ \A j \in DOMAIN fs : (p \o fs)[Len(p) + j] = fs[j]
<1> DEFINE w == p \o fs
           N == Len(p)
           M == Len(fs)
<1>1. /\ w \in Seq(Frame) /\ Len(w) = N + M
      /\ \A i \in 1 .. N + M : w[i] = IF i <= N THEN p[i] ELSE fs[i - N]
      /\ N \in Nat /\ DOMAIN p = 1 .. N /\ M \in Nat /\ DOMAIN fs = 1 .. M /\ DOMAIN w = 1 .. N + M
  BY ConcatProperties, LenProperties
<1> HIDE DEF w, N, M
<1>2. \A k \in DOMAIN p : k \in Nat /\ k <= N /\ k \in DOMAIN w /\ w[k] = p[k]
  BY <1>1
<1>3. ASSUME NEW j \in DOMAIN fs PROVE j \in Nat \ {0} /\ N + j \in DOMAIN w /\ w[N + j] = fs[j]
  <2>1. j \in Nat \ {0} /\ N + j \in 1 .. N + M /\ ~(N + j <= N) /\ (N + j) - N = j
    BY <1>1
  <2>2. QED
    BY <1>1, <2>1
<1>4. ASSUME NEW k \in DOMAIN w PROVE k \in DOMAIN p \/ \E j \in DOMAIN fs : k = N + j
  <2>1. CASE k <= N
    BY <1>1, <2>1
  <2>2. CASE ~(k <= N)
    <3>1. k - N \in DOMAIN fs /\ k = N + (k - N)
      BY <1>1, <2>2
    <3>2. QED
      BY <3>1
  <2>3. QED
    BY <2>1, <2>2
<1>5. IpAt(w) = IpAt(p) \cup {N + j : j \in IpAt(fs)}
  <2>1. ASSUME NEW k \in IpAt(w) PROVE k \in IpAt(p) \/ \E j \in IpAt(fs) : k = N + j
    <3>1. CASE k \in DOMAIN p
      BY <1>2, <3>1 DEF IpAt
    <3>2. ASSUME NEW j \in DOMAIN fs, k = N + j PROVE \E x \in IpAt(fs) : k = N + x
      BY <1>3, <3>2 DEF IpAt
    <3>3. QED
      BY <1>4, <3>1, <3>2 DEF IpAt
  <2>2. ASSUME NEW k \in IpAt(p) PROVE k \in IpAt(w)
    BY <1>2 DEF IpAt
  <2>3. ASSUME NEW j \in IpAt(fs) PROVE N + j \in IpAt(w)
    BY <1>3 DEF IpAt
  <2>4. QED
    BY <2>1, <2>2, <2>3
<1>6. IpAt(p) \subseteq DOMAIN p /\ IpAt(fs) \subseteq DOMAIN fs
  BY DEF IpAt
<1>7. QED
  BY <1>1, <1>2, <1>3, <1>5, <1>6 DEF w, N

\* No packets are added by ARP frames.
LEMMA ArpPackets ==
    ASSUME NEW p \in Seq(Frame), NEW fs \in Seq(Frame), IpAt(fs) = {}
    PROVE  SamePackets(p, p \o fs)
<1> DEFINE w == p \o fs
<1>1. /\ w \in Seq(Frame) /\ IpAt(p) \subseteq DOMAIN p /\ IpAt(w) = IpAt(p) \cup {Len(p) + j : j \in IpAt(fs)}
      /\ \A k \in DOMAIN p : w[k] = p[k]
  BY ConcatPackets
<1> HIDE DEF w
<1>2. IpAt(w) = IpAt(p)
  BY <1>1
<1>3. QED
  BY <1>1, <1>2 DEF SamePackets, w

\* Frames without a packet: none at all, and one of arp.
LEMMA NoPackets ==
    /\ IpAt(<<>>) = {}
    /\ \A f : f.proto = "arp" => IpAt(<<f>>) = {}
<1>1. DOMAIN <<>> = {}
  OBVIOUS
<1>2. ASSUME NEW f, f.proto = "arp" PROVE \A k \in DOMAIN <<f>> : <<f>>[k].proto # "ipv4"
  BY <1>2
<1>3. QED
  BY <1>1, <1>2 DEF IpAt

\* One packet.
LEMMA OnePacket ==
    ASSUME NEW f, f.proto = "ipv4"
    PROVE  IpAt(<<f>>) = {1} /\ DOMAIN <<f>> = {1} /\ <<f>>[1] = f
<1>1. DOMAIN <<f>> = {1} /\ <<f>>[1] = f
  OBVIOUS
<1>2. QED
  BY <1>1 DEF IpAt

\* Positions of callbacks.
LEMMA CbPositions ==
    ASSUME NEW io \in Seq(Handler)
    PROVE  CbAt(io) \in SUBSET Nat /\ CbAt(io) \subseteq DOMAIN io /\ \A i \in CbAt(io) : i > 0
<1>1. DOMAIN io = 1 .. Len(io) /\ Len(io) \in Nat
  BY LenProperties
<1>2. \A i \in DOMAIN io : i \in Nat /\ i > 0
  BY <1>1
<1>3. QED
  BY <1>2 DEF CbAt, PostedIn

\* Handlers of the layers behind the others.
LEMMA CbsBehind ==
    ASSUME NEW io, NEW l \in Layer, NEW n, NEW io2, PostedBehind(io, l, n, io2)
    PROVE  CbsFrom(io, 0, io2) /\ SameCbs(io, io2)
<1>1. CbAt(io2) = CbAt(io)
  <2>1. "cb" # l
    BY DEF Layer
  <2>2. QED
    BY <2>1, BehindPosted DEF CbAt
<1>2. /\ io \in Seq(Handler) /\ io2 \in Seq(Handler)
      /\ \A i \in 1 .. Len(io) : io2[i] = io[i]
  BY DEF PostedBehind
<1>3. CbAt(io) \in SUBSET Nat /\ \A i \in CbAt(io) : i \in 1 .. Len(io) /\ i > 0 /\ i + 0 = i
  <2>1. DOMAIN io = 1 .. Len(io)
    BY <1>2, LenProperties
  <2>2. QED
    BY <1>2, <2>1, CbPositions
<1>4. CbsFrom(io, 0, io2)
  <2>1. \A i \in CbAt(io2) : i + 0 \in CbAt(io) /\ io2[i] = io[i + 0]
    BY <1>1, <1>2, <1>3
  <2>2. \A i \in CbAt(io) : \E j \in CbAt(io2) : i = j + 0
    BY <1>1, <1>3
  <2>3. QED
    BY <1>1, <1>2, <1>3, <2>1, <2>2 DEF CbsFrom
<1>5. QED
  BY <1>3, <1>4 DEF SameCbs

\* The front of the handlers is taken.
LEMMA CbsTail ==
    ASSUME NEW io \in Seq(Handler), io # <<>>
    PROVE  /\ CbsFrom(io, 1, Tail(io)) /\ (1 \in CbAt(io) <=> Head(io).run = "cb")
           /\ Head(io).run # "cb" => \A i \in CbAt(io) : i > 1
<1> DEFINE t == Tail(io)
<1>1. IsTail(io, t) /\ Head(io) = io[1] /\ t \in Seq(Handler)
  BY TailIs
<1>2. CbAt(io) \in SUBSET Nat /\ (\A i \in CbAt(io) : i > 0) /\ CbAt(t) \in SUBSET Nat
  BY <1>1, CbPositions
<1> HIDE DEF t
<1>3. 1 \in CbAt(io) <=> Head(io).run = "cb"
  BY <1>1 DEF IsTail, CbAt, PostedIn
<1>4. \A i \in CbAt(t) : i + 1 \in CbAt(io) /\ t[i] = io[i + 1]
  BY <1>1 DEF IsTail, CbAt, PostedIn
<1>5. ASSUME NEW i \in CbAt(io), i > 1 PROVE \E j \in CbAt(t) : i = j + 1
  <2>1. i - 1 \in CbAt(t)
    BY <1>1, <1>5 DEF IsTail, CbAt, PostedIn
  <2>2. i = (i - 1) + 1
    BY <1>2
  <2>3. QED
    BY <2>1, <2>2
<1>6. CbsFrom(io, 1, t)
  BY <1>1, <1>2, <1>4, <1>5 DEF CbsFrom
<1>7. Head(io).run # "cb" => \A i \in CbAt(io) : i > 1
  BY <1>2, <1>3
<1>8. QED
  BY <1>3, <1>6, <1>7 DEF t

\* And a handler of a layer is posted.
LEMMA CbsThen ==
    ASSUME NEW io, NEW d, NEW io1, NEW io2, CbsFrom(io, d, io1), CbsFrom(io1, 0, io2)
    PROVE  CbsFrom(io, d, io2)
<1>1. /\ d \in Nat /\ CbAt(io1) \in SUBSET Nat /\ CbAt(io) \in SUBSET Nat
      /\ \A i \in CbAt(io1) : i + d \in CbAt(io) /\ io1[i] = io[i + d]
      /\ \A i \in CbAt(io) : i > d => \E j \in CbAt(io1) : i = j + d
  BY DEF CbsFrom
<1>2. /\ io2 \in Seq(Handler) /\ CbAt(io2) \in SUBSET Nat
      /\ \A i \in CbAt(io2) : i + 0 \in CbAt(io1) /\ io2[i] = io1[i + 0]
      /\ \A i \in CbAt(io1) : i > 0 => \E j \in CbAt(io2) : i = j + 0
      /\ CbAt(io1) \in SUBSET Nat
  BY DEF CbsFrom
<1>3. \A i \in CbAt(io2) : i \in CbAt(io1) /\ io2[i] = io1[i]
  BY <1>2
<1>4. \A i \in CbAt(io1) : i > 0 => i \in CbAt(io2)
  BY <1>2
<1>5. QED
  BY <1>1, <1>2, <1>3, <1>4 DEF CbsFrom

-----------------------------------------------------------------------------
(* The inductive invariant and what a step does *)

\* The neighbour cache: the own entry is never replaced, and every other one has
\* been announced by its neighbour.
Addresses ==
    /\ rt \in Tables
    /\ Me \in DOMAIN cache /\ DOMAIN cache \subseteq Addr
    /\ \A a \in DOMAIN cache : cache[a] \in STRING \ NoMac
    /\ cache[Me] = MyMac
    /\ \A a \in DOMAIN cache : a # Me => <<a, cache[a]>> \in heard
    /\ reading \in BOOLEAN /\ failed \in BOOLEAN
    /\ Len(sent) <= MaxPackets

FlowNow == Flow(Pipe, ioq, on_replies, DOMAIN cache, sent, heard)

Inv == Queues /\ Addresses /\ FlowNow

\* The packets to h in fs are behind those in p, and in their order.
InOrder(p, fs, st, h) ==
    /\ \A k \in IpAt(p), j \in IpAt(fs) :
        st[p[k].id + 1] = h /\ st[fs[j].id + 1] = h => p[k].id < fs[j].id
    /\ \A i, j \in IpAt(fs) :
        i < j /\ st[fs[i].id + 1] = h /\ st[fs[j].id + 1] = h => fs[i].id < fs[j].id

\* What every step does to the frames on their way: the front is written, or
\* frames are added, which overtake only packets that are stranded.
Adds(fs) ==
    /\ fs \in Seq(Frame) /\ Extended(fs)
    /\ \A n \in DOMAIN sent : sent'[n] = sent[n]
    /\ \A h \in Hop : Stranded(h) \/ InOrder(Pipe, fs, sent', h)

Moves == (Delivered /\ sent' = sent) \/ \E fs : Adds(fs)

\* Pipe and Chan, after a step.
LEMMA PipeNext ==
    ASSUME Queues'
    PROVE  Pipe' = wire' \o Chan' /\ Pipe' \in Seq(Frame)
<1>1. IsUpper(ioq', q', Upper')
  BY UpperIs, UpperNow DEF Queues
<1>2. Upper' \in Seq(Frame) /\ q'["eth"] \in Seq(Frame) /\ out_q' \in Seq(Frame) /\ wire' \in Seq(Frame)
  BY <1>1 DEF IsUpper, Queues, QueuesTyped, Layer
<1>3. ASSUME NEW w \in Seq(Frame), NEW o \in Seq(Frame), NEW e \in Seq(Frame), NEW u \in Seq(Frame)
      PROVE  ((w \o o) \o e) \o u = w \o ((o \o e) \o u) /\ w \o ((o \o e) \o u) \in Seq(Frame)
  <2>1. o \o e \in Seq(Frame)
    BY <1>3, ConcatProperties
  <2>2. (o \o e) \o u \in Seq(Frame)
    BY <1>3, <2>1, ConcatProperties
  <2> DEFINE oe == o \o e
  <2>3. w \o ((o \o e) \o u) = (w \o (o \o e)) \o u
    <3>1. oe \in Seq(Frame)
      BY <2>1
    <3> HIDE DEF oe
    <3>2. w \o (oe \o u) = (w \o oe) \o u
      BY <1>3, <3>1, FramesGroup, ZenonT(30)
    <3>3. QED
      BY <3>2 DEF oe
  <2>4. w \o (o \o e) = (w \o o) \o e
    BY <1>3, FramesGroup, Zenon
  <2>5. w \o ((o \o e) \o u) \in Seq(Frame)
    BY <1>3, <2>2, ConcatProperties
  <2>6. QED
    BY <2>3, <2>4, <2>5
<1> DEFINE e == q'["eth"]
           u == Upper'
<1>4. Pipe' = ((wire' \o out_q') \o e) \o u /\ Chan' = (out_q' \o e) \o u
  BY DEF Pipe, Chan
<1> HIDE DEF e, u
<1>5. /\ ((wire' \o out_q') \o e) \o u = wire' \o ((out_q' \o e) \o u)
      /\ wire' \o ((out_q' \o e) \o u) \in Seq(Frame)
  BY <1>2, <1>3, Zenon DEF e, u
<1>6. QED
  BY <1>4, <1>5

\* Frames are added.
LEMMA PipeGrows ==
    ASSUME Queues, Queues', NEW fs \in Seq(Frame), Extended(fs)
    PROVE  Pipe' = Pipe \o fs /\ Pipe \in Seq(Frame) /\ Pipe' \in Seq(Frame)
<1>1. /\ Pipe = wire \o Chan /\ Pipe \in Seq(Frame) /\ Chan \in Seq(Frame) /\ wire \in Seq(Frame)
  BY ChanTyped DEF Queues
<1>2. wire' = wire /\ Chan' = Chan \o fs
  BY DEF Extended
<1>3. Pipe' = wire' \o Chan' /\ Pipe' \in Seq(Frame)
  BY PipeNext
<1>4. wire \o (Chan \o fs) = (wire \o Chan) \o fs
  BY <1>1, FramesGroup, Zenon
<1>5. QED
  BY <1>1, <1>2, <1>3, <1>4

\* A write leaves it as it is.
LEMMA PipeDelivered ==
    ASSUME Queues, Queues', Delivered
    PROVE  Pipe' = Pipe /\ Pipe \in Seq(Frame)
<1>1. /\ Pipe = wire \o Chan /\ Pipe \in Seq(Frame) /\ Chan \in Seq(Frame) /\ wire \in Seq(Frame)
  BY ChanTyped DEF Queues
<1>2. Chan # <<>> /\ wire' = Append(wire, Head(Chan)) /\ Chan' = Tail(Chan)
  BY DEF Delivered
<1>3. Pipe' = wire' \o Chan'
  BY PipeNext
<1>4. Append(wire, Head(Chan)) \o Tail(Chan) = wire \o Chan
  BY <1>1, <1>2, MoveFront
<1>5. QED
  BY <1>1, <1>2, <1>3, <1>4

\* Frames without packets overtake nothing.
LEMMA AddsNothing ==
    ASSUME NEW fs \in Seq(Frame), IpAt(fs) = {}, Extended(fs), \A n \in DOMAIN sent : sent'[n] = sent[n]
    PROVE  Moves
BY DEF Moves, Adds, InOrder

\* A step that adds no packets and takes no callback.
LEMMA SameFlow ==
    ASSUME Inv, Queues', NEW fs \in Seq(Frame), IpAt(fs) = {}, Extended(fs),
           SameCbs(ioq, ioq'), DOMAIN cache \subseteq DOMAIN cache', heard \subseteq heard',
           UNCHANGED <<on_replies, sent>>
    PROVE  FlowNow' /\ Moves
<1>1. Flow(Pipe, ioq, on_replies, DOMAIN cache, sent, heard) /\ Queues
  BY DEF Inv, FlowNow
<1>2. Pipe' = Pipe \o fs /\ Pipe \in Seq(Frame)
  BY <1>1, PipeGrows
<1>3. SamePackets(Pipe, Pipe')
  BY <1>2, ArpPackets
<1>4. Flow(Pipe', ioq', on_replies, DOMAIN cache', sent, heard')
  BY <1>1, <1>3, FlowSame
<1>5. QED
  BY <1>4, AddsNothing DEF FlowNow

\* The empty sequence of frames.
LEMMA NoFrames == <<>> \in Seq(Frame) /\ IpAt(<<>>) = {}
BY NoPackets, EmptySeq

\* The same handlers.
LEMMA SameHandlers ==
    ASSUME NEW io \in Seq(Handler)
    PROVE  SameCbs(io, io)
<1>1. CbAt(io) \in SUBSET Nat /\ \A i \in CbAt(io) : i > 0 /\ i + 0 = i
  BY CbPositions
<1>2. CbsFrom(io, 0, io)
  BY <1>1 DEF CbsFrom
<1>3. QED
  BY <1>1, <1>2 DEF SameCbs

\* The handlers of enqueue in the three layers.
LEMMA RunLayerInv ==
    ASSUME Inv, RunUpper("ipv4") \/ RunUpper("arp") \/ RunEth
    PROVE  Inv' /\ Moves
<1>1. Queues /\ Addresses /\ ioq \in Seq(Handler)
  BY DEF Inv, Queues, QueuesTyped
<1>2. Queues' /\ Extended(<<>>)
  BY <1>1, RunUpperExtends, RunEthExtends
<1>3. /\ ioq # <<>> /\ Head(ioq).run \in Layer
      /\ UNCHANGED <<rt, cache, on_replies, reading, sent, heard, failed>>
      /\ ioq' = Tail(ioq) \/ ioq' = Append(Tail(ioq), [run |-> "eth"])
  BY DEF RunUpper, RunEth, Layer
<1> DEFINE t == Tail(ioq)
<1>4. CbsFrom(ioq, 1, t) /\ \A i \in CbAt(ioq) : i > 1
  <2>1. Head(ioq).run # "cb"
    BY <1>3 DEF Layer
  <2>2. QED
    BY <1>1, <1>3, <2>1, CbsTail
<1>5. t \in Seq(Handler)
  BY <1>1, <1>3, TailIs
<1> HIDE DEF t
<1>6. CbsFrom(t, 0, Append(t, [run |-> "eth"]))
  <2>1. [run |-> "eth"] \in Handler /\ [run |-> "eth"].run = "eth" /\ "eth" \in Layer
    BY DEF Handler, Layer
  <2>2. PostedBehind(t, [run |-> "eth"].run, 1, Append(t, [run |-> "eth"]))
    BY <1>5, <2>1, HandlerBehind
  <2>3. QED
    BY <2>1, <2>2, CbsBehind
<1>7. CbsFrom(ioq, 1, ioq')
  <2>1. CbsFrom(ioq, 1, Append(t, [run |-> "eth"]))
    BY <1>4, <1>6, CbsThen
  <2>2. QED
    BY <1>3, <1>4, <2>1 DEF t
<1>8. SameCbs(ioq, ioq')
  BY <1>4, <1>7 DEF SameCbs
<1>9. FlowNow' /\ Moves
  BY <1>2, <1>3, <1>8, NoFrames, SameFlow
<1>10. Addresses'
  BY <1>1, <1>3 DEF Addresses
<1>11. QED
  BY <1>2, <1>9, <1>10 DEF Inv

\* A read or a write fails.
LEMMA FailInv ==
    ASSUME Inv, ReadFail \/ WriteFail
    PROVE  Inv' /\ Moves
<1>1. Queues /\ Addresses /\ ioq \in Seq(Handler)
  BY DEF Inv, Queues, QueuesTyped
<1>2. /\ UNCHANGED <<rt, cache, on_replies, ioq, q, out_q, wire, sent, heard>>
      /\ writing' = writing \/ writing' = <<>>
  BY DEF ReadFail, WriteFail
<1>3. Queues' /\ Extended(<<>>)
  BY <1>1, <1>2, SameExtends
<1>4. SameCbs(ioq, ioq')
  BY <1>1, <1>2, SameHandlers
<1>5. FlowNow' /\ Moves
  BY <1>2, <1>3, <1>4, NoFrames, SameFlow
<1>6. reading' \in BOOLEAN /\ failed' \in BOOLEAN
  BY <1>1, Zenon DEF ReadFail, WriteFail, Addresses
<1>7. Addresses'
  BY <1>1, <1>2, <1>6 DEF Addresses
<1>8. QED
  BY <1>3, <1>5, <1>7 DEF Inv

\* A write completes.
LEMMA WriteDoneInv ==
    ASSUME Inv, WriteDone
    PROVE  Inv' /\ Moves
<1>1. Queues /\ Addresses /\ FlowNow
  BY DEF Inv
<1>2. Queues' /\ Delivered
  BY <1>1, WriteDoneDelivers
<1>3. UNCHANGED <<rt, cache, on_replies, ioq, reading, sent, heard, failed>>
  BY DEF WriteDone
<1>4. Pipe' = Pipe
  BY <1>1, <1>2, PipeDelivered
<1>5. FlowNow' /\ Addresses'
  BY <1>1, <1>3, <1>4 DEF FlowNow, Addresses
<1>6. QED
  BY <1>2, <1>3, <1>5 DEF Inv, Moves

\* The frame of a packet with its destination.
LEMMA ResolvedTyped ==
    ASSUME NEW f \in Unresolved, NEW m \in STRING
    PROVE  resolved(f, m) \in Frame
<1>1. f.id \in 0 .. (MaxPackets - 1) /\ f.src \in STRING
  BY DEF Unresolved
<1>2. QED
  BY <1>1 DEF resolved, Frame, IpFrame

\* The callback of a cached address runs.
LEMMA RunCbInv ==
    ASSUME Inv, RunCb
    PROVE  Inv' /\ Moves
<1> DEFINE t == Tail(ioq)
           f == CbFrame(ioq, 1)
           fs == <<f>>
           n == Len(Pipe) + 1
<1>1. Queues /\ Addresses /\ ioq \in Seq(Handler) /\ Flow(Pipe, ioq, on_replies, DOMAIN cache, sent, heard)
  BY DEF Inv, Queues, QueuesTyped, FlowNow
<1>2. /\ ioq # <<>> /\ Head(ioq).run = "cb" /\ ioq' = Append(t, [run |-> "ipv4"])
      /\ UNCHANGED <<rt, cache, on_replies, reading, sent, heard, failed>>
  BY DEF RunCb
<1>3. /\ Head(ioq) \in Handler /\ Head(ioq) = ioq[1] /\ t \in Seq(Handler)
  BY <1>1, <1>2, TailIs
<1>4. f = resolved(Head(ioq).frame, Head(ioq).mac)
  BY <1>3 DEF CbFrame
<1> HIDE DEF f
<1>5. f \in Frame /\ f.proto = "ipv4"
  <2>1. Head(ioq).frame \in Unresolved /\ Head(ioq).mac \in STRING
    BY <1>2, <1>3 DEF Handler, Layer
  <2>2. QED
    BY <1>4, <2>1, ResolvedTyped, ResolvedFields
<1>6. Queues' /\ Extended(fs)
  BY <1>1, <1>4, <1>5, RunCbExtends
<1>7. CbsFrom(ioq, 1, t) /\ 1 \in CbAt(ioq)
  BY <1>1, <1>2, CbsTail
<1> HIDE DEF t
<1>8. CbsFrom(t, 0, ioq')
  <2>1. [run |-> "ipv4"] \in Handler /\ [run |-> "ipv4"].run = "ipv4" /\ "ipv4" \in Layer
    BY DEF Handler, Layer
  <2>2. PostedBehind(t, [run |-> "ipv4"].run, 1, Append(t, [run |-> "ipv4"]))
    BY <1>3, <2>1, HandlerBehind DEF t
  <2>3. QED
    BY <1>2, <2>1, <2>2, CbsBehind
<1>9. CbsFrom(ioq, 1, ioq')
  BY <1>7, <1>8, CbsThen
<1>10. fs \in Seq(Frame) /\ IpAt(fs) = {1} /\ DOMAIN fs = {1} /\ fs[1] = f
  BY <1>5, OneFrame, OnePacket
<1> HIDE DEF fs
<1>11. Pipe' = Pipe \o fs /\ Pipe \in Seq(Frame) /\ Pipe' \in Seq(Frame)
  BY <1>1, <1>6, <1>10, PipeGrows
<1>12. /\ n \notin IpAt(Pipe) /\ IpAt(Pipe') = IpAt(Pipe) \cup {n}
       /\ \A k \in IpAt(Pipe) : Pipe'[k] = Pipe[k]
       /\ Pipe'[n] = f
  <2>1. /\ Len(Pipe) \in Nat /\ \A k \in DOMAIN Pipe : k \in Nat /\ k <= Len(Pipe)
        /\ IpAt(Pipe') = IpAt(Pipe) \cup {Len(Pipe) + j : j \in IpAt(fs)}
        /\ IpAt(Pipe) \subseteq DOMAIN Pipe
        /\ \A k \in DOMAIN Pipe : Pipe'[k] = Pipe[k]
        /\ \A j \in DOMAIN fs : Pipe'[Len(Pipe) + j] = fs[j]
    <3>1. fs \in Seq(Frame)
      BY <1>10
    <3>2. QED
      BY <1>11, <3>1, ConcatPackets
  <2>2. {Len(Pipe) + j : j \in IpAt(fs)} = {n}
    BY <1>10
  <2>3. n \notin DOMAIN Pipe
    BY <2>1
  <2>4. QED
    BY <1>10, <2>1, <2>2, <2>3
<1>13. CbMoved(Pipe, ioq, Pipe', n, ioq')
  <2> HIDE DEF n
  <2>1. QED
    BY <1>7, <1>9, <1>11, <1>12 DEF CbMoved, f
<1>14. FlowNow'
  BY <1>1, <1>2, <1>13, FlowRunCb DEF FlowNow
<1>15. \A h \in Hop : InOrder(Pipe, fs, sent, h)
  <2>1. \A k \in IpAt(Pipe) : SameHop(Pipe[k], f, sent) => Pipe[k].id < f.id
    BY <1>1, <1>7 DEF Flow, FlowOrder, f
  <2>2. QED
    BY <1>10, <2>1 DEF InOrder, SameHop
<1>16. Moves
  BY <1>2, <1>6, <1>10, <1>15 DEF Moves, Adds
<1>17. Addresses'
  BY <1>1, <1>2 DEF Addresses
<1>18. QED
  BY <1>6, <1>14, <1>16, <1>17 DEF Inv

\* arp::update keeps the addresses right.
LEMMA UpdateAddresses ==
    ASSUME Addresses, NEW a, a.sha \in STRING, a.spa \in Addr, update(a),
           heard' = heard \cup {<<a.spa, a.sha>>}, UNCHANGED <<rt, reading, sent, failed>>
    PROVE  Addresses' /\ DOMAIN cache \subseteq DOMAIN cache'
<1> DEFINE i == insert(a.spa, a.sha)
<1>1. /\ DOMAIN i = DOMAIN cache \cup {a.spa}
      /\ \A x \in DOMAIN cache : i[x] = cache[x]
      /\ a.spa \notin DOMAIN cache => i[a.spa] = a.sha
  BY DEF insert
<1>2. cache' = cache \/ (cache' = i /\ a.sha \notin NoMac)
  BY DEF update
<1> HIDE DEF i
<1>3. CASE cache' = cache
  BY <1>3 DEF Addresses
<1>4. CASE cache' = i /\ a.sha \notin NoMac
  <2>1. Me \in DOMAIN cache' /\ DOMAIN cache' \subseteq Addr /\ cache'[Me] = MyMac
    BY <1>1, <1>4 DEF Addresses
  <2>2. \A x \in DOMAIN cache' : cache'[x] \in STRING \ NoMac
    BY <1>1, <1>4 DEF Addresses
  <2>3. \A x \in DOMAIN cache' : x # Me => <<x, cache'[x]>> \in heard'
    BY <1>1, <1>4 DEF Addresses
  <2>4. QED
    BY <1>1, <1>4, <2>1, <2>2, <2>3 DEF Addresses
<1>5. QED
  BY <1>2, <1>3, <1>4

\* arp::process_request.
LEMMA RequestInv ==
    ASSUME Inv, NEW a, a.sha \in STRING, a.spa \in Addr, Received(a), process_request(a)
    PROVE  Inv' /\ Moves
<1>1. Queues /\ Addresses /\ ioq \in Seq(Handler)
  BY DEF Inv, Queues, QueuesTyped
<1>2. /\ heard' = heard \cup {<<a.spa, a.sha>>} /\ update(a)
      /\ UNCHANGED <<rt, out_q, writing, reading, wire, sent, failed, on_replies>>
  BY DEF Received, process_request
<1>3. Addresses' /\ DOMAIN cache \subseteq DOMAIN cache'
  BY <1>1, <1>2, UpdateAddresses
<1>4. CASE a.tpa \in DOMAIN cache'
  <2> DEFINE f == [proto |-> "arp", oper |-> "reply", src |-> cache'[a.tpa], dst |-> a.sha,
                   spa |-> a.tpa, tpa |-> a.spa]
             fs == <<f>>
  <2>1. enqueue("arp", fs)
    BY <1>4 DEF process_request, async_reply
  <2>2. f \in Frame /\ f.proto = "arp"
    <3>1. cache'[a.tpa] \in STRING /\ a.tpa \in Addr
      BY <1>3, <1>4 DEF Addresses
    <3>2. QED
      BY <3>1 DEF Frame, ArpFrame
  <2> HIDE DEF f
  <2>3. fs \in Seq(Frame) /\ IpAt(fs) = {} /\ Len(fs) \in Nat
    BY <2>2, OneFrame, NoPackets
  <2> HIDE DEF fs
  <2>4. Queues' /\ Extended(fs)
    BY <1>1, <1>2, <2>1, <2>3, EnqueueExtends
  <2>5. SameCbs(ioq, ioq')
    <3>1. "arp" \in Layer
      BY DEF Layer
    <3>2. PostedBehind(ioq, "arp", Len(fs), ioq')
      BY <1>1, <2>1, <2>3, <3>1, HandlersBehind DEF enqueue
    <3>3. QED
      BY <3>1, <3>2, CbsBehind
  <2>6. FlowNow' /\ Moves
    BY <1>2, <1>3, <2>3, <2>4, <2>5, SameFlow
  <2>7. QED
    BY <1>3, <2>4, <2>6 DEF Inv
<1>5. CASE a.tpa \notin DOMAIN cache'
  <2>1. UNCHANGED <<q, ioq>>
    BY <1>5 DEF process_request
  <2>2. Queues' /\ Extended(<<>>)
    BY <1>1, <1>2, <2>1, SameExtends
  <2>3. SameCbs(ioq, ioq')
    BY <1>1, <2>1, SameHandlers
  <2>4. FlowNow' /\ Moves
    BY <1>2, <1>3, <2>2, <2>3, NoFrames, SameFlow
  <2>5. QED
    BY <1>3, <2>2, <2>4 DEF Inv
<1>6. QED
  BY <1>4, <1>5

\* The frames of all that wait for one reply.
AllResolved(us, m) == [i \in DOMAIN us |-> resolved(us[i], m)]

\* They are packets.
LEMMA ResolvedFrames ==
    ASSUME NEW us \in Seq(Unresolved), NEW m \in STRING, NEW fs, fs = AllResolved(us, m)
    PROVE  /\ fs \in Seq(Frame) /\ DOMAIN fs = DOMAIN us /\ IpAt(fs) = DOMAIN us
           /\ \A j \in DOMAIN us : fs[j] = resolved(us[j], m)
           /\ Len(fs) \in Nat
<1>1. DOMAIN us = 1 .. Len(us) /\ Len(us) \in Nat /\ \A i \in DOMAIN us : us[i] \in Unresolved
  BY LenProperties, ElementOfSeq
<1>2. \A i \in DOMAIN us : resolved(us[i], m) \in Frame /\ resolved(us[i], m).proto = "ipv4"
  BY <1>1, ResolvedTyped, ResolvedFields
<1>3. DOMAIN fs = DOMAIN us /\ (\A j \in DOMAIN us : fs[j] = resolved(us[j], m)) /\ fs \in [1 .. Len(us) -> Frame]
  BY <1>1, <1>2 DEF AllResolved
<1>4. fs \in Seq(Frame)
  <2>1. Len(us) \in Nat /\ fs \in [1 .. Len(us) -> Frame]
    BY <1>1, <1>3
  <2>2. QED
    BY <2>1, FunctionIsSeq
<1>5. IpAt(fs) = DOMAIN us
  BY <1>2, <1>3 DEF IpAt
<1>6. Len(fs) \in Nat
  BY <1>4, LenProperties
<1>7. QED
  BY <1>3, <1>4, <1>5, <1>6

\* arp::process_reply.
LEMMA ReplyInv ==
    ASSUME Inv, NEW a, a.sha \in STRING, a.spa \in Addr, Received(a), process_reply(a)
    PROVE  Inv' /\ Moves
<1> DEFINE b == a.spa
           mac == a.sha
           us == on_replies[b]
           fs == AllResolved(us, mac)
<1>1. Queues /\ Addresses /\ ioq \in Seq(Handler) /\ Flow(Pipe, ioq, on_replies, DOMAIN cache, sent, heard)
  BY DEF Inv, Queues, QueuesTyped, FlowNow
<1>2. /\ heard' = heard \cup {<<b, mac>>} /\ update(a)
      /\ UNCHANGED <<rt, out_q, writing, reading, wire, sent, failed>>
      /\ on_replies' = [on_replies EXCEPT ![b] = <<>>] /\ enqueue("ipv4", fs)
  BY DEF Received, process_reply, AllResolved
<1>3. Addresses' /\ DOMAIN cache \subseteq DOMAIN cache'
  BY <1>1, <1>2, UpdateAddresses
<1>4. /\ on_replies \in [Addr -> Seq(Unresolved)] /\ us \in Seq(Unresolved)
      /\ on_replies' \in [Addr -> Seq(Unresolved)]
      /\ DOMAIN on_replies'[b] = {} /\ \A c \in Addr : c # b => on_replies'[c] = on_replies[c]
  <2>1. on_replies \in [Addr -> Seq(Unresolved)] /\ us \in Seq(Unresolved)
    BY <1>1 DEF Flow, FlowTyped
  <2>2. <<>> \in Seq(Unresolved) /\ DOMAIN <<>> = {}
    OBVIOUS
  <2>3. QED
    BY <1>2, <2>1, <2>2
<1>5. b \in Addr /\ mac \in STRING
  OBVIOUS
<1> HIDE DEF b, mac, us
<1>6. /\ fs \in Seq(Frame) /\ DOMAIN fs = DOMAIN us /\ IpAt(fs) = DOMAIN us
      /\ \A j \in DOMAIN us : fs[j] = resolved(us[j], mac)
      /\ Len(fs) \in Nat
  BY <1>4, <1>5, ResolvedFrames
<1> HIDE DEF fs
<1>7. Queues' /\ Extended(fs)
  BY <1>1, <1>2, <1>6, EnqueueExtends
<1>8. Pipe' = Pipe \o fs /\ Pipe \in Seq(Frame) /\ Pipe' \in Seq(Frame)
  BY <1>1, <1>6, <1>7, PipeGrows
<1>9. SameCbs(ioq, ioq')
  <2>1. "ipv4" \in Layer
    BY DEF Layer
  <2>2. PostedBehind(ioq, "ipv4", Len(fs), ioq')
    BY <1>1, <1>2, <1>6, <2>1, HandlersBehind DEF enqueue
  <2>3. QED
    BY <2>1, <2>2, CbsBehind
<1>10. Flow(Pipe, ioq', on_replies, DOMAIN cache', sent, heard')
  <2>1. SamePackets(Pipe, Pipe)
    BY <1>8 DEF SamePackets
  <2>2. heard \subseteq heard'
    BY <1>2
  <2>3. QED
    BY <1>1, <1>3, <1>9, <2>1, <2>2, FlowSame
<1>11. WaitingMoved(Pipe, on_replies, b, mac, Pipe', on_replies')
  <2>1. /\ Len(Pipe) \in Nat /\ \A k \in DOMAIN Pipe : k \in Nat /\ k <= Len(Pipe)
        /\ DOMAIN us \in SUBSET (Nat \ {0})
        /\ IpAt(Pipe') = IpAt(Pipe) \cup {Len(Pipe) + j : j \in DOMAIN us}
        /\ \A k \in IpAt(Pipe) : Pipe'[k] = Pipe[k]
        /\ \A j \in DOMAIN us : Pipe'[Len(Pipe) + j] = resolved(us[j], mac)
    BY <1>6, <1>8, ConcatPackets
  <2>2. QED
    BY <1>4, <1>8, <2>1 DEF WaitingMoved, us
<1>12. FlowNow'
  <2>1. <<b, mac>> \in heard'
    BY <1>2
  <2>2. Flow(Pipe', ioq', on_replies', DOMAIN cache', sent, heard')
    BY <1>5, <1>10, <1>11, <2>1, FlowReply
  <2>3. QED
    BY <1>2, <2>2 DEF FlowNow
<1>13. ASSUME NEW h \in Hop, ~Stranded(h) PROVE InOrder(Pipe, fs, sent, h)
  <2>1. \A j \in DOMAIN us : fs[j].id = us[j].id /\ sent[us[j].id + 1] = b /\ b \in Hop
    <3>1. \A j \in DOMAIN us : Waits(us[j], b, sent)
      BY <1>1, <1>5 DEF Flow, FlowRight, us
    <3>2. QED
      BY <1>6, <3>1, ResolvedFields DEF Waits
  <2>2. CASE h # b
    BY <1>6, <2>1, <2>2 DEF InOrder
  <2>3. CASE us = <<>>
    <3>1. DOMAIN us = {}
      BY <2>3
    <3>2. QED
      BY <1>6, <3>1 DEF InOrder
  <2>4. CASE h = b /\ us # <<>>
    <3>1. h \notin DOMAIN cache
      BY <1>13, <2>4 DEF Stranded, us
    <3>2. \A k \in IpAt(Pipe), j \in DOMAIN us : sent[Pipe[k].id + 1] = h => Pipe[k].id < us[j].id
      BY <1>1, <2>4, <3>1 DEF Flow, FlowOrder, us
    <3>3. \A i, j \in DOMAIN us : i < j => us[i].id < us[j].id
      BY <1>1, <1>5 DEF Flow, FlowOrder, us
    <3>4. QED
      BY <1>6, <2>1, <3>2, <3>3 DEF InOrder
  <2>5. QED
    BY <2>2, <2>3, <2>4
<1>14. Moves
  BY <1>2, <1>6, <1>7, <1>13 DEF Moves, Adds
<1>15. QED
  BY <1>3, <1>7, <1>12, <1>14 DEF Inv

\* ipv4::process.
LEMMA ProcessInv ==
    ASSUME Inv, NEW d \in Dst, process(d)
    PROVE  Inv' /\ Moves
<1> DEFINE h == next_hop(d)
           f == [proto |-> "ipv4", src |-> cache[Me], id |-> Len(sent)]
<1>1. Queues /\ Addresses /\ ioq \in Seq(Handler) /\ Flow(Pipe, ioq, on_replies, DOMAIN cache, sent, heard)
  BY DEF Inv, Queues, QueuesTyped, FlowNow
<1>2. /\ Len(sent) < MaxPackets /\ sent' = Append(sent, h)
      /\ UNCHANGED <<rt, cache, out_q, writing, reading, wire, heard, failed>>
      /\ IF h = NoHop THEN UNCHANGED <<on_replies, q, ioq>> ELSE async_resolve(h, f)
  BY DEF process
<1>3. h \in Hop \cup {NoHop}
  BY <1>1, NeighbourConstants DEF next_hop, Addresses
<1>4. sent \in Seq(Hop \cup {NoHop}) /\ on_replies \in [Addr -> Seq(Unresolved)]
  BY <1>1 DEF Flow, FlowTyped
<1>5. f \in Unresolved /\ f.src = MyMac /\ f.id = Len(sent)
  <2>1. Len(sent) \in 0 .. (MaxPackets - 1)
    <3>1. Len(sent) \in Nat /\ MaxPackets \in Nat
      BY <1>4, LenProperties, NeighbourConstants
    <3>2. QED
      BY <1>2, <3>1
  <2>2. cache[Me] \in STRING /\ cache[Me] = MyMac
    BY <1>1 DEF Addresses
  <2>3. QED
    BY <2>1, <2>2 DEF Unresolved
<1> HIDE DEF h, f
<1>6. OneMore(sent, h, sent')
  <2>1. sent' \in Seq(Hop \cup {NoHop}) /\ IsAppend(sent, h, Append(sent, h))
    BY <1>2, <1>3, <1>4, AppendProperties, AppendIs
  <2>2. QED
    BY <1>2, <2>1 DEF OneMore
<1>7. \A n \in DOMAIN sent : sent'[n] = sent[n]
  BY <1>6 DEF OneMore, IsAppend
<1>8. Addresses'
  <2>1. Len(sent') = Len(sent) + 1 /\ Len(sent) \in Nat /\ MaxPackets \in Nat
    BY <1>6, NeighbourConstants DEF OneMore, IsAppend
  <2>2. Len(sent') <= MaxPackets
    BY <1>2, <2>1
  <2>3. QED
    BY <1>1, <1>2, <2>2 DEF Addresses
<1>9. SamePackets(Pipe, Pipe) /\ Pipe \in Seq(Frame)
  BY <1>1, ChanTyped DEF SamePackets
<1>10. CASE h = NoHop
  <2>1. UNCHANGED <<on_replies, q, ioq>>
    BY <1>2, <1>10
  <2>2. Queues' /\ Extended(<<>>)
    BY <1>1, <1>2, <2>1, SameExtends
  <2>3. Pipe' = Pipe \o <<>> /\ Pipe \o <<>> = Pipe
    BY <1>1, <1>9, <2>2, PipeGrows, NoFrames, ConcatEmptySeq
  <2>4. Flow(Pipe, ioq, on_replies, DOMAIN cache, sent', heard)
    BY <1>1, <1>6, <1>10, FlowDropped
  <2>5. FlowNow'
    BY <1>2, <2>1, <2>3, <2>4 DEF FlowNow
  <2>6. Moves
    BY <1>7, <2>2, NoFrames, AddsNothing
  <2>7. QED
    BY <1>8, <2>2, <2>5, <2>6 DEF Inv
<1>11. CASE h # NoHop /\ h \in DOMAIN cache
  <2> DEFINE cb == [run |-> "cb", frame |-> f, mac |-> cache[h]]
             K == Len(ioq) + 1
  <2>1. ioq' = Append(ioq, cb) /\ UNCHANGED <<on_replies, q>>
    BY <1>2, <1>11 DEF async_resolve
  <2>2. h \in Hop /\ h # Me /\ cache[h] \in STRING /\ <<h, cache[h]>> \in heard
    BY <1>1, <1>3, <1>11, NeighbourConstants DEF Addresses
  <2>3. cb \in Handler /\ cb.run = "cb" /\ cb.frame = f /\ cb.mac = cache[h]
    BY <1>5, <2>2 DEF Handler
  <2> HIDE DEF cb
  <2>4. Queues' /\ Extended(<<>>)
    BY <1>1, <1>2, <2>1, <2>3, CbExtends
  <2>5. Pipe' = Pipe \o <<>> /\ Pipe \o <<>> = Pipe
    BY <1>1, <1>9, <2>4, PipeGrows, NoFrames, ConcatEmptySeq
  <2>6. IsAppend(ioq, cb, ioq') /\ ioq' \in Seq(Handler) /\ CbAt(ioq) \in SUBSET Nat /\ CbAt(ioq) \subseteq DOMAIN ioq
    BY <1>1, <2>1, <2>3, AppendIs, AppendProperties, CbPositions
  <2>7. /\ K \in Nat /\ DOMAIN ioq' = DOMAIN ioq \cup {K} /\ ioq'[K] = cb
        /\ \A i \in DOMAIN ioq : i < K /\ ioq'[i] = ioq[i]
    BY <2>6 DEF IsAppend
  <2> HIDE DEF K
  <2>8. CbAt(ioq') = CbAt(ioq) \cup {K}
    BY <2>3, <2>7 DEF CbAt, PostedIn
  <2>9. CbFrame(ioq', K).id = Len(sent) /\ CbFrame(ioq', K).src = MyMac /\ CbFrame(ioq', K).dst = cache[h]
    BY <1>5, <2>3, <2>7, ResolvedFields DEF CbFrame
  <2>10. CbPosted(ioq, Len(sent), cache[h], ioq')
    BY <2>6, <2>7, <2>8, <2>9 DEF CbPosted
  <2>11. Flow(Pipe, ioq', on_replies, DOMAIN cache, sent', heard)
    BY <1>1, <1>6, <1>11, <2>2, <2>10, FlowPosted
  <2>12. FlowNow'
    BY <1>2, <2>1, <2>5, <2>11 DEF FlowNow
  <2>13. Moves
    BY <1>7, <2>4, NoFrames, AddsNothing
  <2>14. QED
    BY <1>8, <2>4, <2>12, <2>13 DEF Inv
<1>12. CASE h # NoHop /\ h \notin DOMAIN cache
  <2> DEFINE g == [proto |-> "arp", oper |-> "request", src |-> cache[Me], dst |-> "broadcast",
                   spa |-> Me, tpa |-> h]
             fs == <<g>>
  <2>1. on_replies' = [on_replies EXCEPT ![h] = Append(@, f)] /\ enqueue("arp", fs)
    BY <1>2, <1>12 DEF async_resolve, async_request
  <2>2. h \in Hop /\ h \in Addr
    BY <1>3, <1>12 DEF Addr
  <2>3. g \in Frame /\ g.proto = "arp"
    <3>1. cache[Me] \in STRING /\ Me \in Addr
      BY <1>1 DEF Addresses
    <3>2. "broadcast" \in STRING
      BY NeighbourConstants
    <3>3. g \in ArpFrame
      BY <2>2, <3>1, <3>2 DEF ArpFrame
    <3>4. QED
      BY <3>3 DEF Frame
  <2> HIDE DEF g
  <2>4. fs \in Seq(Frame) /\ IpAt(fs) = {} /\ Len(fs) \in Nat
    BY <2>3, OneFrame, NoPackets
  <2> HIDE DEF fs
  <2>5. Queues' /\ Extended(fs)
    BY <1>1, <1>2, <2>1, <2>4, EnqueueExtends
  <2>6. SameCbs(ioq, ioq')
    <3>1. "arp" \in Layer
      BY DEF Layer
    <3>2. PostedBehind(ioq, "arp", Len(fs), ioq')
      BY <1>1, <2>1, <2>4, <3>1, HandlersBehind DEF enqueue
    <3>3. QED
      BY <3>1, <3>2, CbsBehind
  <2>7. OneWaits(on_replies, h, Len(sent), on_replies')
    <3>1. on_replies[h] \in Seq(Unresolved)
      BY <1>4, <2>2
    <3>2. Append(on_replies[h], f) \in Seq(Unresolved) /\ IsAppend(on_replies[h], f, Append(on_replies[h], f))
      BY <1>5, <3>1, AppendProperties, AppendIs
    <3>3. on_replies'[h] = Append(on_replies[h], f)
      BY <1>4, <2>1, <2>2
    <3>4. on_replies' \in [Addr -> Seq(Unresolved)] /\ \A a \in Addr : a # h => on_replies'[a] = on_replies[a]
      BY <1>4, <2>1, <2>2, <3>2
    <3>5. QED
      BY <1>5, <3>2, <3>3, <3>4 DEF OneWaits
  <2>8. Flow(Pipe, ioq, on_replies', DOMAIN cache, sent', heard)
    BY <1>1, <1>6, <1>12, <2>2, <2>7, FlowWaits
  <2>9. Pipe' = Pipe \o fs
    BY <1>1, <2>4, <2>5, PipeGrows
  <2>10. SamePackets(Pipe, Pipe')
    BY <1>9, <2>4, <2>9, ArpPackets
  <2>11. Flow(Pipe', ioq', on_replies', DOMAIN cache, sent', heard)
    BY <2>6, <2>8, <2>10, FlowSame
  <2>12. FlowNow'
    BY <1>2, <2>11 DEF FlowNow
  <2>13. Moves
    BY <1>7, <2>4, <2>5, AddsNothing
  <2>14. QED
    BY <1>8, <2>5, <2>12, <2>13 DEF Inv
<1>13. QED
  BY <1>10, <1>11, <1>12

\* At the start nothing is on its way.
LEMMA InitInv == Init => Inv
<1> SUFFICES ASSUME Init PROVE Inv
  OBVIOUS
<1>1. /\ ioq = <<>> /\ q = [l \in Layer |-> <<>>] /\ out_q = <<>> /\ wire = <<>> /\ writing = <<>>
  BY DEF Init
<1>2. <<>> \in Seq(Frame) /\ <<>> \in Seq(Handler) /\ <<>> \in Seq(Unresolved)
      /\ <<>> \in Seq(Hop \cup {NoHop}) /\ DOMAIN <<>> = {} /\ Len(<<>>) = 0
  OBVIOUS
<1>3. QueuesTyped(ioq, q)
  BY <1>1, <1>2 DEF QueuesTyped
<1>4. Matched(ioq, q)
  <2>1. \A l : PostedIn(ioq, l) = {}
    BY <1>1, <1>2 DEF PostedIn
  <2>2. QED
    BY <1>1, <1>2, <2>1, FS_EmptySet DEF Matched
<1>5. Queues
  BY <1>1, <1>2, <1>3, <1>4 DEF Queues
<1>6. Pipe = <<>>
  <2>1. Upper \in Seq(Frame) /\ Len(Upper) = 0
    <3>1. UpIn(ioq) = {}
      BY <1>1, <1>2 DEF UpIn, PostedIn
    <3>2. QED
      BY <1>5, <3>1, ChanTyped, FS_EmptySet DEF IsUpper
  <2>2. Upper = <<>>
    BY <2>1, EmptySeq
  <2>3. q["eth"] = <<>>
    BY <1>1 DEF Layer
  <2>4. <<>> \o <<>> = <<>>
    BY <1>2, ConcatEmptySeq
  <2>5. QED
    BY <1>1, <2>2, <2>3, <2>4 DEF Pipe
<1>7. Addresses
  <2>1. Len(sent) <= MaxPackets
    BY <1>2, NeighbourConstants DEF Init
  <2>2. DOMAIN cache = {Me} /\ cache[Me] = MyMac
    BY DEF Init
  <2>3. QED
    BY <2>1, <2>2, NeighbourConstants DEF Init, Addresses, Addr
<1>8. Flow(<<>>, <<>>, on_replies, DOMAIN cache, <<>>, heard)
  <2>1. on_replies \in [Addr -> Seq(Unresolved)] /\ \A a \in Addr : on_replies[a] = <<>> /\ DOMAIN on_replies[a] = {}
    BY <1>2 DEF Init
  <2>2. IpAt(<<>>) = {} /\ CbAt(<<>>) = {}
    BY <1>2 DEF IpAt, CbAt, PostedIn
  <2>3. FlowTyped(<<>>, <<>>, on_replies, <<>>)
    BY <1>2, <2>1 DEF FlowTyped
  <2>4. FlowRight(<<>>, <<>>, on_replies, <<>>, heard)
    BY <2>1, <2>2 DEF FlowRight
  <2>5. FlowOrder(<<>>, <<>>, on_replies, DOMAIN cache, <<>>)
    BY <2>1, <2>2 DEF FlowOrder
  <2>6. FlowOnce(<<>>, <<>>, on_replies, <<>>)
    BY <1>2, <2>1, <2>2 DEF FlowOnce
  <2>7. QED
    BY <2>3, <2>4, <2>5, <2>6 DEF Flow
<1>9. FlowNow
  <2>1. sent = <<>>
    BY DEF Init
  <2>2. QED
    BY <1>1, <1>6, <1>8, <2>1 DEF FlowNow
<1>10. QED
  BY <1>5, <1>7, <1>9 DEF Inv

\* Every step keeps the invariant and moves frames as said.
LEMMA NextInv == Inv /\ Next => Inv' /\ Moves
<1> SUFFICES ASSUME Inv, Next PROVE Inv' /\ Moves
  OBVIOUS
<1>1. ASSUME NEW d \in Dst, process(d) PROVE Inv' /\ Moves
  BY <1>1, ProcessInv
<1>2. ASSUME NEW a \in ArpFrames, Receive(a) PROVE Inv' /\ Moves
  <2>1. a.sha \in STRING /\ a.spa \in Addr /\ Received(a) /\ (process_request(a) \/ process_reply(a))
    BY <1>2, NeighbourConstants DEF Receive, Addr
  <2>2. QED
    BY <2>1, RequestInv, ReplyInv
<1>3. ASSUME NEW h \in Hop, Answer(h) PROVE Inv' /\ Moves
  <2> DEFINE a == [oper |-> "reply", sha |-> MacOf[h], spa |-> h, tpa |-> Me]
  <2>1. a.sha \in STRING /\ a.spa \in Addr
    BY NeighbourConstants DEF Addr
  <2>2. Received(a) /\ process_reply(a)
    BY <1>3 DEF Answer
  <2> HIDE DEF a
  <2>3. QED
    BY <2>1, <2>2, ReplyInv
<1>4. CASE Run
  BY <1>4, RunCbInv, RunLayerInv DEF Run
<1>5. CASE WriteDone
  BY <1>5, WriteDoneInv
<1>6. CASE WriteFail \/ ReadFail
  BY <1>6, FailInv
<1>7. QED
  BY <1>1, <1>2, <1>3, <1>4, <1>5, <1>6 DEF Next

\* So does a step that leaves everything as it is.
LEMMA StepInv == Inv /\ [Next]_vars => Inv' /\ (Moves \/ UNCHANGED vars)
<1> SUFFICES ASSUME Inv, [Next]_vars PROVE Inv' /\ (Moves \/ UNCHANGED vars)
  OBVIOUS
<1>1. CASE Next
  BY <1>1, NextInv
<1>2. CASE UNCHANGED vars
  <2>1. Queues' /\ Addresses'
    BY <1>2 DEF Inv, Queues, Addresses, vars
  <2>2. Upper' = Upper
    BY <1>2, UpperNow DEF vars
  <2>3. Pipe' = Pipe
    BY <1>2, <2>2 DEF Pipe, vars
  <2>4. FlowNow'
    BY <1>2, <2>3 DEF Inv, FlowNow, vars
  <2>5. QED
    BY <1>2, <2>1, <2>4 DEF Inv
<1>3. QED
  BY <1>1, <1>2

\* The invariant holds in every state.
LEMMA InvHolds == Spec => []Inv
<1>1. Inv /\ [Next]_vars => Inv'
  BY StepInv
<1>2. QED
  BY <1>1, InitInv, PTL DEF Spec

-----------------------------------------------------------------------------
(* The theorems *)

\* The queues, the cache and the handlers of ipv4, arp, ethernetv2 and the device
\* have their types; at most one write is outstanding, and the cache holds
\* neither a zero nor a broadcast address.
THEOREM NeighbourTypeOK == Spec => []TypeOK
<1>1. Inv => TypeOK
  <2> SUFFICES ASSUME Inv PROVE TypeOK
    OBVIOUS
  <2>1. /\ QueuesTyped(ioq, q) /\ out_q \in Seq(Frame) /\ wire \in Seq(Frame)
        /\ (writing = <<>> \/ (out_q # <<>> /\ writing = <<Head(out_q)>>))
    BY DEF Inv, Queues
  <2>2. writing \in Seq(Frame) /\ Len(writing) <= 1
    <3>1. CASE writing = <<>>
      BY <3>1
    <3>2. CASE out_q # <<>> /\ writing = <<Head(out_q)>>
      <4>1. Head(out_q) \in Frame
        BY <2>1, <3>2, TailIs
      <4>2. Len(<<Head(out_q)>>) <= 1 /\ <<Head(out_q)>> \in Seq(Frame)
        BY <4>1, OneFrame
      <4>3. QED
        BY <3>2, <4>2
    <3>3. QED
      BY <2>1, <3>1, <3>2
  <2>3. on_replies \in [Addr -> Seq(Unresolved)] /\ sent \in Seq(Hop \cup {NoHop})
    BY DEF Inv, FlowNow, Flow, FlowTyped
  <2>4. ioq \in Seq(Handler) /\ q \in [Layer -> Seq(Frame)]
    BY <2>1 DEF QueuesTyped
  <2>5. Addresses
    BY DEF Inv
  <2>6. QED
    BY <2>1, <2>2, <2>3, <2>4, <2>5 DEF TypeOK, Handler, Addresses
<1>2. QED
  BY <1>1, InvHolds, PTL

\* Every queue of base_protocol has one posted handler for each of its frames.
THEOREM NeighbourHandlersMatchQueues == Spec => []HandlersMatchQueues
<1>1. Inv => HandlersMatchQueues
  BY DEF Inv, Queues, Matched, PostedIn, HandlersMatchQueues, Posted
<1>2. QED
  BY <1>1, InvHolds, PTL

\* Every packet that ipv4 has handed down carries the own MAC address and one
\* that its next hop has announced.
THEOREM NeighbourRightAddress == Spec => []RightAddress
<1>1. Inv => RightAddress
  <2> SUFFICES ASSUME Inv PROVE RightAddress
    OBVIOUS
  <2>1. \A k \in IpAt(Pipe) : Right(Pipe[k], sent, heard)
    BY DEF Inv, FlowNow, Flow, FlowRight
  <2>2. QED
    BY <2>1 DEF RightAddress, IpAt, Right
<1>2. QED
  BY <1>1, InvHolds, PTL

\* The number of elements of a set that has one at most.
LEMMA OneAtMost ==
    ASSUME NEW S, \A x, y \in S : x = y
    PROVE  Cardinality(S) = IF S = {} THEN 0 ELSE 1
<1>1. CASE S = {}
  BY <1>1, FS_EmptySet
<1>2. CASE S # {}
  <2>1. PICK x \in S : TRUE
    BY <1>2
  <2>2. S = {x}
    BY <2>1
  <2>3. QED
    BY <1>2, <2>2, FS_Singleton
<1>3. QED
  BY <1>1, <1>2

\* Every packet with a route is in one place: it waits for a reply or for its
\* callback, is queued, is being written or has been written, or the one write that
\* failed has destroyed it; no packet without one is anywhere.
THEOREM NeighbourEachPacketOnce == Spec => []EachPacketOnce
<1>1. Inv => EachPacketOnce
  <2> SUFFICES ASSUME Inv, NEW n \in DOMAIN sent
               PROVE  IF sent[n] = NoHop
                      THEN Copies(Pipe, n - 1) = 0 /\ Copies(Cbs, n - 1) = 0
                      ELSE Copies(Pipe, n - 1) + Copies(Cbs, n - 1) + Copies(on_replies[sent[n]], n - 1) = 1
    BY DEF EachPacketOnce
  <2> DEFINE A == {k \in IpAt(Pipe) : Pipe[k].id = n - 1}
             B == {i \in CbAt(ioq) : CbFrame(ioq, i).id = n - 1}
             w == on_replies[sent[n]]
             C == {j \in DOMAIN w : w[j].id = n - 1}
  <2>1. /\ Flow(Pipe, ioq, on_replies, DOMAIN cache, sent, heard) /\ ioq \in Seq(Handler)
        /\ sent \in Seq(Hop \cup {NoHop}) /\ on_replies \in [Addr -> Seq(Unresolved)]
    BY DEF Inv, FlowNow, Flow, FlowTyped
  <2>2. n \in Nat \ {0} /\ sent[n] \in Hop \cup {NoHop}
    <3>1. DOMAIN sent = 1 .. Len(sent) /\ Len(sent) \in Nat
      BY <2>1, LenProperties
    <3>2. n \in 1 .. Len(sent)
      BY <3>1
    <3>3. QED
      BY <2>1, <3>1, <3>2, ElementOfSeq
  <2>3. Copies(Pipe, n - 1) = Cardinality(A)
    <3>1. {i \in DOMAIN Pipe : Pipe[i].proto = "ipv4" /\ Pipe[i].id = n - 1} = A
      BY DEF IpAt
    <3>2. QED
      BY <3>1 DEF Copies
  <2>4. Copies(Cbs, n - 1) = Cardinality(B)
    <3>1. DOMAIN Cbs = CbAt(ioq) /\ \A i \in CbAt(ioq) : Cbs[i] = ioq[i].frame
      BY DEF Cbs, Posted, CbAt, PostedIn
    <3>2. ASSUME NEW i \in CbAt(ioq) PROVE ioq[i].frame.proto = "ipv4" /\ ioq[i].frame.id = CbFrame(ioq, i).id
      <4>1. ioq[i] \in Handler /\ ioq[i].run = "cb"
        <5>1. i \in DOMAIN ioq /\ ioq[i].run = "cb" /\ DOMAIN ioq = 1 .. Len(ioq)
          BY <2>1, LenProperties DEF CbAt, PostedIn
        <5>2. QED
          BY <2>1, <5>1, ElementOfSeq
      <4>2. ioq[i].frame \in Unresolved
        BY <4>1 DEF Handler, Layer
      <4>3. ioq[i].frame.proto = "ipv4"
        BY <4>2 DEF Unresolved
      <4>4. QED
        BY <4>3, ResolvedFields DEF CbFrame
    <3>3. {i \in DOMAIN Cbs : Cbs[i].proto = "ipv4" /\ Cbs[i].id = n - 1} = B
      BY <3>1, <3>2
    <3>4. QED
      BY <3>3 DEF Copies
  <2>5. \A k \in IpAt(Pipe) : Right(Pipe[k], sent, heard)
    BY <2>1 DEF Flow, FlowRight
  <2>6. \A i \in CbAt(ioq) : Right(CbFrame(ioq, i), sent, heard)
    BY <2>1 DEF Flow, FlowRight
  <2>7. CASE sent[n] = NoHop
    <3>1. \A x \in Nat : x = n - 1 => x + 1 = n
      BY <2>2
    <3>2. A = {}
      BY <2>5, <2>7, <3>1, NeighbourConstants DEF Right
    <3>3. B = {}
      BY <2>6, <2>7, <3>1, NeighbourConstants DEF Right
    <3>4. QED
      BY <2>3, <2>4, <2>7, <3>2, <3>3, FS_EmptySet
  <2>8. CASE sent[n] # NoHop
    <3>1. sent[n] \in Hop /\ sent[n] \in Addr
      BY <2>2, <2>8 DEF Addr
    <3>2. w \in Seq(Unresolved)
      BY <2>1, <3>1
    <3>3. Copies(w, n - 1) = Cardinality(C)
      <4>1. \A j \in DOMAIN w : w[j].proto = "ipv4"
        <5>1. DOMAIN w = 1 .. Len(w)
          BY <3>2, LenProperties
        <5>2. \A j \in DOMAIN w : w[j] \in Unresolved
          BY <3>2, <5>1, ElementOfSeq
        <5>3. QED
          BY <5>2 DEF Unresolved
      <4>2. {i \in DOMAIN w : w[i].proto = "ipv4" /\ w[i].id = n - 1} = C
        BY <4>1
      <4>3. QED
        BY <4>2 DEF Copies
    <3>4. \A x, y \in A : x = y
      BY <2>1 DEF Flow, FlowOnce
    <3>5. \A x, y \in B : x = y
      <4>1. ASSUME NEW x \in B, NEW y \in B, x < y PROVE FALSE
        <5>1. SameHop(CbFrame(ioq, x), CbFrame(ioq, y), sent)
          BY DEF SameHop
        <5>2. CbFrame(ioq, x).id < CbFrame(ioq, y).id
          BY <2>1, <4>1, <5>1 DEF Flow, FlowOrder
        <5>3. QED
          BY <2>2, <5>2
      <4>2. \A x, y \in Nat : x = y \/ x < y \/ y < x
        OBVIOUS
      <4>3. B \subseteq Nat
        BY <2>1, CbPositions
      <4>4. QED
        BY <4>1, <4>2, <4>3
    <3>6. \A x, y \in C : x = y
      <4>1. ASSUME NEW x \in C, NEW y \in C, x < y PROVE FALSE
        <5>1. w[x].id < w[y].id
          BY <2>1, <3>1, <4>1 DEF Flow, FlowOrder
        <5>2. QED
          BY <2>2, <5>1
      <4>2. \A x, y \in Nat : x = y \/ x < y \/ y < x
        OBVIOUS
      <4>3. C \subseteq Nat
        <5>1. DOMAIN w = 1 .. Len(w) /\ Len(w) \in Nat
          BY <3>2, LenProperties
        <5>2. QED
          BY <5>1
      <4>4. QED
        BY <4>1, <4>2, <4>3
    <3>7. A = {} \/ B = {}
      <4>1. ASSUME NEW k \in A, NEW i \in B PROVE FALSE
        <5>1. SameHop(Pipe[k], CbFrame(ioq, i), sent)
          BY DEF SameHop
        <5>2. Pipe[k].id < CbFrame(ioq, i).id
          BY <2>1, <5>1 DEF Flow, FlowOrder
        <5>3. QED
          BY <2>2, <5>2
      <4>2. QED
        BY <4>1
    <3>8. A = {} \/ C = {}
      BY <2>1, <3>1 DEF Flow, FlowOnce
    <3>9. B = {} \/ C = {}
      <4>1. ASSUME NEW j \in C, NEW i \in B PROVE FALSE
        <5>1. SameHop(w[j], CbFrame(ioq, i), sent)
          BY DEF SameHop
        <5>2. w[j].id < CbFrame(ioq, i).id
          BY <2>1, <3>1, <5>1 DEF Flow, FlowOrder
        <5>3. QED
          BY <2>2, <5>2
      <4>2. QED
        BY <4>1
    <3>10. A # {} \/ B # {} \/ C # {}
      <4>1. \/ \E k \in IpAt(Pipe) : Pipe[k].id + 1 = n
            \/ \E i \in CbAt(ioq) : CbFrame(ioq, i).id + 1 = n
            \/ \E j \in DOMAIN w : w[j].id + 1 = n
        BY <2>1, <3>1 DEF Flow, FlowOnce
      <4>2. \A x \in Nat : x + 1 = n => x = n - 1
        BY <2>2
      <4>3. \A j \in DOMAIN w : w[j].id \in Nat
        BY <2>1, <3>1 DEF Flow, FlowRight, Waits
      <4>4. QED
        BY <2>5, <2>6, <4>1, <4>2, <4>3 DEF Right
    <3> HIDE DEF A, B, C, w
    <3>11. /\ Cardinality(A) = IF A = {} THEN 0 ELSE 1
           /\ Cardinality(B) = IF B = {} THEN 0 ELSE 1
           /\ Cardinality(C) = IF C = {} THEN 0 ELSE 1
      BY <3>4, <3>5, <3>6, OneAtMost
    <3>12. Cardinality(A) + Cardinality(B) + Cardinality(C) = 1
      BY <3>7, <3>8, <3>9, <3>10, <3>11
    <3>13. QED
      BY <2>3, <2>4, <2>8, <3>3, <3>12 DEF w
  <2>9. QED
    BY <2>7, <2>8
<1>2. QED
  BY <1>1, InvHolds, PTL

\* Packets to one hop overtake only those that a request of the hop has
\* stranded in on_replies_.
THEOREM NeighbourOnlyStrandedAreOvertaken == Spec => OnlyStrandedAreOvertaken
<1>1. ASSUME Inv, Inv', NEW h \in Hop, NEW fs, Adds(fs), ~Stranded(h)
      PROVE  Inversions(h)' \subseteq Inversions(h)
  <2>1. /\ fs \in Seq(Frame) /\ Extended(fs) /\ (\A n \in DOMAIN sent : sent'[n] = sent[n])
        /\ InOrder(Pipe, fs, sent', h)
    BY <1>1 DEF Adds
  <2>2. Pipe' = Pipe \o fs /\ Pipe \in Seq(Frame) /\ Pipe' \in Seq(Frame)
    BY <1>1, <2>1, PipeGrows DEF Inv
  <2> DEFINE N == Len(Pipe)
             To == {k \in IpAt(Pipe') : sent'[Pipe'[k].id + 1] = h}
  <2>3. /\ N \in Nat /\ \A k \in DOMAIN Pipe : k \in Nat /\ k <= N
        /\ \A j \in DOMAIN fs : j \in Nat \ {0}
        /\ IpAt(Pipe) \subseteq DOMAIN Pipe /\ IpAt(fs) \subseteq DOMAIN fs
        /\ IpAt(Pipe') = IpAt(Pipe) \cup {N + j : j \in IpAt(fs)}
        /\ \A k \in DOMAIN Pipe : Pipe'[k] = Pipe[k]
        /\ \A j \in DOMAIN fs : Pipe'[N + j] = fs[j]
    BY <2>1, <2>2, ConcatPackets
  <2>4. DOMAIN Pipe = 1 .. Len(Pipe) /\ DOMAIN Pipe' = 1 .. Len(Pipe')
    BY <2>2, LenProperties
  <2>5. PacketsTo(h) = {k \in IpAt(Pipe) : sent[Pipe[k].id + 1] = h}
    BY <2>4 DEF PacketsTo, IpAt
  <2>6. PacketsTo(h)' = To
    BY <2>4 DEF PacketsTo, IpAt
  <2>7. \A k \in IpAt(Pipe) : sent'[Pipe[k].id + 1] = sent[Pipe[k].id + 1]
    BY <1>1, <2>1 DEF Inv, FlowNow, Flow, FlowRight, Right
  <2>8. \A k \in IpAt(Pipe') : Pipe'[k].id \in Nat
    BY <1>1 DEF Inv, FlowNow, Flow, FlowRight, Right
  <2>9. \A x \in To : x \in Nat /\ (x \in IpAt(Pipe) \/ \E j \in IpAt(fs) : x = N + j)
    BY <2>3
  <2> HIDE DEF N
  <2>10. ASSUME NEW x \in To, NEW y \in To, x < y, Pipe'[y].id < Pipe'[x].id
         PROVE  x \in IpAt(Pipe) /\ y \in IpAt(Pipe)
    <3>1. ASSUME NEW j \in IpAt(fs), y = N + j PROVE FALSE
      <4>1. Pipe'[y] = fs[j] /\ sent'[fs[j].id + 1] = h
        BY <2>3, <3>1
      <4>2. CASE x \in IpAt(Pipe)
        <5>1. Pipe'[x] = Pipe[x] /\ sent'[Pipe[x].id + 1] = h
          BY <2>3, <4>2
        <5>2. Pipe[x].id < fs[j].id
          BY <2>1, <4>1, <4>2, <5>1 DEF InOrder
        <5>3. QED
          BY <2>8, <2>10, <4>1, <5>1, <5>2
      <4>3. ASSUME NEW i \in IpAt(fs), x = N + i PROVE FALSE
        <5>1. Pipe'[x] = fs[i] /\ sent'[fs[i].id + 1] = h
          BY <2>3, <4>3
        <5>2. i < j
          BY <2>3, <2>10, <3>1, <4>3
        <5>3. fs[i].id < fs[j].id
          BY <2>1, <4>1, <5>1, <5>2 DEF InOrder
        <5>4. QED
          BY <2>8, <2>10, <4>1, <5>1, <5>3
      <4>4. QED
        BY <2>9, <4>2, <4>3
    <3>2. y \in IpAt(Pipe)
      BY <2>9, <3>1
    <3>3. ASSUME NEW i \in IpAt(fs), x = N + i PROVE FALSE
      BY <2>3, <2>9, <2>10, <3>2, <3>3
    <3>4. QED
      BY <2>9, <3>2, <3>3
  <2>11. Inversions(h) = {p \in PacketsTo(h) \X PacketsTo(h) : p[1] < p[2] /\ Pipe[p[2]].id < Pipe[p[1]].id}
    BY DEF Inversions
  <2>12. Inversions(h)' = {p \in To \X To : p[1] < p[2] /\ Pipe'[p[2]].id < Pipe'[p[1]].id}
    BY <2>6 DEF Inversions
  <2>13. \A x \in To : x \in IpAt(Pipe) => x \in PacketsTo(h) /\ Pipe'[x] = Pipe[x]
    BY <2>3, <2>5, <2>7
  <2> HIDE DEF To
  <2>14. QED
    BY <2>10, <2>11, <2>12, <2>13
<1>2. ASSUME Inv, Inv', NEW h \in Hop, Pipe' = Pipe, sent' = sent
      PROVE  Inversions(h)' \subseteq Inversions(h)
  BY <1>2 DEF Inversions, PacketsTo
<1>3. Inv /\ [Next]_vars => [\A h \in Hop : Stranded(h) \/ Inversions(h)' \subseteq Inversions(h)]_vars
  <2> SUFFICES ASSUME Inv, [Next]_vars, NEW h \in Hop, ~Stranded(h)
               PROVE  UNCHANGED vars \/ Inversions(h)' \subseteq Inversions(h)
    OBVIOUS
  <2>1. Inv' /\ (Moves \/ UNCHANGED vars)
    BY StepInv
  <2>2. CASE Delivered /\ sent' = sent
    BY <1>2, <2>1, <2>2, PipeDelivered DEF Inv
  <2>3. ASSUME NEW fs, Adds(fs) PROVE Inversions(h)' \subseteq Inversions(h)
    BY <1>1, <2>1, <2>3
  <2>4. QED
    BY <2>1, <2>2, <2>3 DEF Moves
<1>4. QED
  BY <1>3, InvHolds, PTL DEF Spec, OnlyStrandedAreOvertaken

\* The queues of base_protocol and of the device are together one FIFO channel:
\* the specification of Neighbour implements that of Channel.
THEOREM NeighbourImplementsChannel == Spec => ImplementsChannel
<1>1. Init => PipeChannel!Init
  <2> SUFFICES ASSUME Init PROVE PipeChannel!Init
    OBVIOUS
  <2>1. Inv
    BY InitInv
  <2>2. wire = <<>> /\ out_q = <<>> /\ q["eth"] = <<>> /\ ioq = <<>>
    BY DEF Init, Layer
  <2>3. Upper = <<>>
    <3>1. UpIn(ioq) = {}
      <4>1. DOMAIN <<>> = {}
        OBVIOUS
      <4>2. QED
        BY <2>2, <4>1 DEF UpIn, PostedIn
    <3>2. Upper \in Seq(Frame) /\ Len(Upper) = 0
      BY <2>1, <3>1, ChanTyped, FS_EmptySet DEF Inv, IsUpper
    <3>3. QED
      BY <3>2, EmptySeq
  <2>4. <<>> \o <<>> = <<>>
    BY NoFrames, ConcatEmptySeq
  <2>5. out_q \o q["eth"] \o Upper = <<>>
    BY <2>2, <2>3, <2>4
  <2>6. QED
    BY <2>2, <2>5 DEF PipeChannel!Init
<1>2. ASSUME Inv, NEW fs, Adds(fs) PROVE [PipeChannel!Next]_(PipeChannel!vars)
  <2>1. fs \in Seq(Frame) /\ wire' = wire /\ Chan' = Chan \o fs
    BY <1>2 DEF Adds, Extended
  <2>2. Chan \in Seq(Frame)
    BY <1>2, ChanTyped DEF Inv
  <2>3. CASE fs = <<>>
    <3>1. Chan' = Chan
      BY <2>1, <2>2, <2>3, ConcatEmptySeq
    <3>2. QED
      BY <2>1, <3>1 DEF Chan, PipeChannel!vars
  <2>4. CASE fs # <<>>
    <3>1. Len(Chan') > Len(Chan) /\ SubSeq(Chan', 1, Len(Chan)) = Chan
      <4> DEFINE c == Chan
                 d == Chan \o fs
                 s == SubSeq(d, 1, Len(c))
      <4>1. Len(fs) \in Nat \ {0} /\ Len(c) \in Nat
        BY <2>1, <2>2, <2>4, EmptySeq, LenProperties
      <4>2. /\ d \in Seq(Frame) /\ Len(d) = Len(c) + Len(fs)
            /\ \A i \in 1 .. Len(c) + Len(fs) : d[i] = IF i <= Len(c) THEN c[i] ELSE fs[i - Len(c)]
        BY <2>1, <2>2, ConcatProperties
      <4> HIDE DEF c, d
      <4>3. /\ s \in Seq(Frame) /\ Len(s) = Len(c) /\ \A i \in 1 .. Len(c) : s[i] = d[i]
        BY <4>1, <4>2, SubSeqProperties
      <4> HIDE DEF s
      <4>4. \A i \in 1 .. Len(c) : s[i] = c[i]
        BY <4>1, <4>2, <4>3
      <4>5. s = c
        BY <2>2, <4>3, <4>4, SeqEqual DEF c
      <4>6. Len(d) > Len(c)
        BY <4>1, <4>2
      <4>7. QED
        BY <2>1, <4>5, <4>6 DEF c, d, s
    <3>2. QED
      BY <2>1, <3>1 DEF Chan, PipeChannel!Next, PipeChannel!Put
  <2>5. QED
    BY <2>3, <2>4
<1>3. Inv /\ [Next]_vars => [PipeChannel!Next]_(PipeChannel!vars)
  <2> SUFFICES ASSUME Inv, [Next]_vars PROVE [PipeChannel!Next]_(PipeChannel!vars)
    OBVIOUS
  <2>1. CASE Delivered
    BY <2>1 DEF Delivered, Chan, PipeChannel!Next, PipeChannel!Deliver
  <2>2. CASE UNCHANGED vars
    <3>1. Upper' = Upper
      BY <2>2, UpperNow DEF vars
    <3>2. QED
      BY <2>2, <3>1 DEF PipeChannel!vars, vars
  <2>3. Moves \/ UNCHANGED vars
    BY StepInv
  <2>4. QED
    BY <1>2, <2>1, <2>2, <2>3 DEF Moves
<1>4. QED
  BY <1>1, <1>3, InvHolds, PTL DEF Spec, ImplementsChannel, PipeChannel!Spec

=============================================================================
