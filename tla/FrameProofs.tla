---------------------------- MODULE FrameProofs ----------------------------
(***************************************************************************)
(* Buffers, checksums and headers of Frame, for every address, header,     *)
(* payload, MSS and padding.                                               *)
(***************************************************************************)
EXTENDS Frame, QueueLemmas

-----------------------------------------------------------------------------
(* Bytes in sequences *)

\* The bytes x are in m behind the first n.
Has(m, n, x) == n + Len(x) <= Len(m) /\ \A i \in 1 .. Len(x) : m[n + i] = x[i]

\* The first n bytes, and the others.
First(p, n) == SubSeq(p, 1, n)
Rest(p, n) == SubSeq(p, n + 1, Len(p))

\* m with the bytes x in the place of those behind the first n.
Patch(m, n, x) == [i \in 1 .. Len(m) |-> IF n < i /\ i <= n + Len(x) THEN x[i - n] ELSE m[i]]

\* Two sequences with the same elements are the same.
LEMMA SameElements ==
    ASSUME NEW S, NEW s \in Seq(S), NEW t \in Seq(S), Len(s) = Len(t),
           \A i \in 1 .. Len(s) : s[i] = t[i]
    PROVE  s = t
  OBVIOUS

\* A part that is there is what is cut out.
LEMMA CutHas ==
    ASSUME NEW S, NEW m \in Seq(S), NEW n \in Nat, NEW x \in Seq(S), Has(m, n, x)
    PROVE  SubSeq(m, n + 1, n + Len(x)) = x
<1>1. Len(x) \in Nat /\ n + Len(x) \in Nat /\ n <= n + Len(x) /\ n + Len(x) <= Len(m)
      /\ \A i \in 1 .. Len(x) : m[n + i] = x[i]
  BY DEF Has
<1> DEFINE r == SubSeq(m, n + 1, n + Len(x))
<1>2. r \in Seq(S) /\ Len(r) = n + Len(x) - n /\ \A i \in 1 .. n + Len(x) - n : r[i] = m[n + i]
  BY <1>1, Cut
<1> HIDE DEF r
<1>3. Len(r) = Len(x) /\ \A i \in 1 .. Len(x) : r[i] = x[i]
  BY <1>1, <1>2
<1>4. r = x
  BY <1>2, <1>3, SameElements
<1>5. QED
  BY <1>4 DEF r

\* What is cut out is there.
LEMMA HasCut ==
    ASSUME NEW S, NEW m \in Seq(S), NEW n \in Nat, NEW k \in Nat, n + k <= Len(m)
    PROVE  /\ SubSeq(m, n + 1, n + k) \in Seq(S) /\ Len(SubSeq(m, n + 1, n + k)) = k
           /\ Has(m, n, SubSeq(m, n + 1, n + k))
<1> DEFINE r == SubSeq(m, n + 1, n + k)
<1>1. r \in Seq(S) /\ Len(r) = n + k - n /\ \A i \in 1 .. n + k - n : r[i] = m[n + i]
  BY Cut
<1> HIDE DEF r
<1>2. n + k - n = k
  OBVIOUS
<1>3. Len(r) = k /\ \A i \in 1 .. Len(r) : m[n + i] = r[i]
  BY <1>1, <1>2
<1>4. QED
  BY <1>1, <1>3 DEF Has, r

\* What is in the front part of a sequence, and where what is in the back part is.
LEMMA HasConcat ==
    ASSUME NEW S, NEW s \in Seq(S), NEW t \in Seq(S)
    PROVE  /\ s \o t \in Seq(S) /\ Len(s \o t) = Len(s) + Len(t)
           /\ Has(s \o t, 0, s) /\ Has(s \o t, Len(s), t)
           /\ \A n \in Nat, x \in Seq(S) : Has(s, n, x) => Has(s \o t, n, x)
           /\ \A n \in Nat, x \in Seq(S) : Has(t, n, x) => Has(s \o t, Len(s) + n, x)
<1> DEFINE r == s \o t
<1>1. IsConcat(s, t, r) /\ r \in Seq(S)
  BY ConcatIs
<1> HIDE DEF r
<1>2. /\ Len(s) \in Nat /\ Len(t) \in Nat /\ Len(r) = Len(s) + Len(t)
      /\ \A i \in 1 .. Len(s) : r[i] = s[i]
      /\ \A i \in 1 .. Len(t) : r[Len(s) + i] = t[i]
  BY <1>1 DEF IsConcat
<1>3. Has(r, 0, s) /\ Has(r, Len(s), t)
  BY <1>2 DEF Has
<1>4. ASSUME NEW n \in Nat, NEW x \in Seq(S), Has(s, n, x) PROVE Has(r, n, x)
  <2>1. Len(x) \in Nat /\ n + Len(x) <= Len(s) /\ \A i \in 1 .. Len(x) : s[n + i] = x[i]
    <3>1. Len(x) \in Nat
      OBVIOUS
    <3>2. n + Len(x) <= Len(s) /\ \A i \in 1 .. Len(x) : s[n + i] = x[i]
      BY <1>4, Zenon DEF Has
    <3>3. QED
      BY <3>1, <3>2
  <2>2. \A i \in 1 .. Len(x) : n + i \in 1 .. Len(s)
    BY <1>2, <2>1
  <2>3. QED
    BY <1>2, <2>1, <2>2 DEF Has
<1>5. ASSUME NEW n \in Nat, NEW x \in Seq(S), Has(t, n, x) PROVE Has(r, Len(s) + n, x)
  <2>1. Len(x) \in Nat /\ n + Len(x) <= Len(t) /\ \A i \in 1 .. Len(x) : t[n + i] = x[i]
    <3>1. Len(x) \in Nat
      OBVIOUS
    <3>2. n + Len(x) <= Len(t) /\ \A i \in 1 .. Len(x) : t[n + i] = x[i]
      BY <1>5, Zenon DEF Has
    <3>3. QED
      BY <3>1, <3>2
  <2>2. \A i \in 1 .. Len(x) : n + i \in 1 .. Len(t) /\ Len(s) + (n + i) = Len(s) + n + i
    BY <1>2, <2>1
  <2>3. \A i \in 1 .. Len(x) : r[Len(s) + n + i] = x[i]
    BY <1>2, <2>1, <2>2
  <2>4. QED
    BY <1>2, <2>1, <2>3 DEF Has
<1>6. QED
  BY <1>1, <1>2, <1>3, <1>4, <1>5 DEF r

\* A sequence is its two parts.
LEMMA Split ==
    ASSUME NEW S, NEW p \in Seq(S), NEW n \in Nat, n <= Len(p)
    PROVE  /\ First(p, n) \in Seq(S) /\ Len(First(p, n)) = n
           /\ Rest(p, n) \in Seq(S) /\ Len(Rest(p, n)) = Len(p) - n
           /\ \A i \in 1 .. n : First(p, n)[i] = p[i]
           /\ \A i \in 1 .. Len(p) - n : Rest(p, n)[i] = p[n + i]
<1>1. Len(p) \in Nat /\ 0 \in Nat /\ 0 <= n
  OBVIOUS
<1>2. SubSeq(p, n + 1, Len(p)) \in Seq(S) /\ Len(SubSeq(p, n + 1, Len(p))) = Len(p) - n
      /\ \A i \in 1 .. Len(p) - n : SubSeq(p, n + 1, Len(p))[i] = p[n + i]
  BY <1>1, Cut
<1>3. SubSeq(p, 0 + 1, n) \in Seq(S) /\ Len(SubSeq(p, 0 + 1, n)) = n - 0
      /\ \A i \in 1 .. n - 0 : SubSeq(p, 0 + 1, n)[i] = p[0 + i]
  BY <1>1, Cut
<1>4. 0 + 1 = 1 /\ n - 0 = n /\ \A i \in 1 .. n : 0 + i = i
  OBVIOUS
<1>5. QED
  BY <1>2, <1>3, <1>4 DEF First, Rest

\* The two parts of a concatenation.
LEMMA SplitConcat ==
    ASSUME NEW S, NEW s \in Seq(S), NEW t \in Seq(S)
    PROVE  First(s \o t, Len(s)) = s /\ Rest(s \o t, Len(s)) = t
<1> DEFINE r == s \o t
<1>1. r \in Seq(S) /\ Len(r) = Len(s) + Len(t) /\ Has(r, 0, s) /\ Has(r, Len(s), t)
      /\ Len(s) \in Nat /\ Len(t) \in Nat
  BY HasConcat
<1> HIDE DEF r
<1>2. SubSeq(r, 0 + 1, 0 + Len(s)) = s /\ SubSeq(r, Len(s) + 1, Len(s) + Len(t)) = t
  BY <1>1, CutHas
<1>3. 0 + 1 = 1 /\ 0 + Len(s) = Len(s)
  BY <1>1
<1>4. QED
  BY <1>1, <1>2, <1>3 DEF First, Rest, r

\* What is there stays there when other bytes are replaced, or when it is cut off
\* behind it.
LEMMA HasKept ==
    ASSUME NEW m, NEW r, NEW n \in Nat, NEW x, Len(x) \in Nat, Has(m, n, x),
           n + Len(x) <= Len(r), \A i \in 1 .. Len(x) : r[n + i] = m[n + i]
    PROVE  Has(r, n, x)
  BY DEF Has

\* The bytes of a patch are there, and the others are as they were.
LEMMA PatchIs ==
    ASSUME NEW S, NEW m \in Seq(S), NEW n \in Nat, NEW x \in Seq(S), n + Len(x) <= Len(m)
    PROVE  /\ Patch(m, n, x) \in Seq(S) /\ Len(Patch(m, n, x)) = Len(m)
           /\ \A i \in 1 .. Len(m) :
                Patch(m, n, x)[i] = IF n < i /\ i <= n + Len(x) THEN x[i - n] ELSE m[i]
           /\ Has(Patch(m, n, x), n, x)
<1> DEFINE r == Patch(m, n, x)
<1>1. Len(m) \in Nat /\ Len(x) \in Nat
  OBVIOUS
<1>2. \A i \in 1 .. Len(m) : m[i] \in S
  OBVIOUS
<1>3. \A i \in 1 .. Len(x) : x[i] \in S
  OBVIOUS
<1>4. ASSUME NEW i \in 1 .. Len(m), n < i /\ i <= n + Len(x)
      PROVE  x[i - n] \in S
  <2>1. i - n \in 1 .. Len(x)
    BY <1>1, <1>4
  <2>2. QED
    BY <1>3, <2>1
<1>5. r \in [1 .. Len(m) -> S]
  BY <1>2, <1>4 DEF Patch
<1>6. r \in Seq(S)
  BY <1>1, <1>5, FunctionIsSeq
<1>7. Len(r) = Len(m)
  BY <1>1, <1>5, <1>6
<1>8. \A i \in 1 .. Len(m) : r[i] = IF n < i /\ i <= n + Len(x) THEN x[i - n] ELSE m[i]
  BY DEF Patch
<1> HIDE DEF r
<1>9. ASSUME NEW i \in 1 .. Len(x) PROVE r[n + i] = x[i]
  <2>1. n + i \in 1 .. Len(m) /\ n < n + i /\ n + i <= n + Len(x) /\ (n + i) - n = i
    BY <1>1
  <2>2. r[n + i] = x[(n + i) - n]
    BY <1>8, <2>1
  <2>3. QED
    BY <2>1, <2>2
<1>10. QED
  BY <1>6, <1>7, <1>8, <1>9 DEF Has, r

\* x is written into m.
PatchFits(S, m, n, x) == m \in Seq(S) /\ n \in Nat /\ x \in Seq(S) /\ n + Len(x) <= Len(m)
IsPatchOf(S, m, n, x, r) ==
    /\ r \in Seq(S) /\ Len(r) = Len(m) /\ Has(r, n, x)
    /\ \A i \in 1 .. Len(m) : r[i] = IF n < i /\ i <= n + Len(x) THEN x[i - n] ELSE m[i]

\* This is what Patch makes.
LEMMA PatchOf ==
    ASSUME NEW S, NEW m, NEW n, NEW x, PatchFits(S, m, n, x)
    PROVE  IsPatchOf(S, m, n, x, Patch(m, n, x))
<1>1. m \in Seq(S) /\ n \in Nat /\ x \in Seq(S) /\ n + Len(x) <= Len(m)
  BY DEF PatchFits
<1>2. /\ Patch(m, n, x) \in Seq(S) /\ Len(Patch(m, n, x)) = Len(m)
      /\ \A i \in 1 .. Len(m) :
           Patch(m, n, x)[i] = IF n < i /\ i <= n + Len(x) THEN x[i - n] ELSE m[i]
      /\ Has(Patch(m, n, x), n, x)
  BY <1>1, PatchIs
<1>3. QED
  BY <1>2 DEF IsPatchOf

\* A patch behind the front part is one of the back part.
LEMMA PatchConcat ==
    ASSUME NEW S, NEW s \in Seq(S), NEW t, NEW n, NEW x, PatchFits(S, t, n, x)
    PROVE  Patch(s \o t, Len(s) + n, x) = s \o Patch(t, n, x)
<1> DEFINE r == s \o t
           u == Patch(t, n, x)
           v == s \o u
           w == Patch(r, Len(s) + n, x)
           k == Len(s)
           l == Len(t)
           h == Len(x)
<1>0. t \in Seq(S) /\ n \in Nat /\ x \in Seq(S)
  BY DEF PatchFits
<1>1. k \in Nat /\ l \in Nat /\ h \in Nat /\ n + h <= l
  BY <1>0 DEF PatchFits
<1>2. u \in Seq(S) /\ Len(u) = l
      /\ \A i \in 1 .. l : u[i] = IF n < i /\ i <= n + h THEN x[i - n] ELSE t[i]
  <2>1. IsPatchOf(S, t, n, x, u)
    BY PatchOf
  <2> HIDE DEF u
  <2>2. QED
    BY <2>1 DEF IsPatchOf
<1> HIDE DEF u
<1>3. /\ r \in Seq(S) /\ Len(r) = k + l
      /\ \A i \in 1 .. k + l : r[i] = IF i <= k THEN s[i] ELSE t[i - k]
  BY <1>0, ConcatProperties
<1>4. /\ v \in Seq(S) /\ Len(v) = k + l
      /\ \A i \in 1 .. k + l : v[i] = IF i <= k THEN s[i] ELSE u[i - k]
  <2>1. u \in Seq(S)
    BY <1>2
  <2>2. /\ s \o u \in Seq(S) /\ Len(s \o u) = Len(s) + Len(u)
        /\ \A i \in 1 .. Len(s) + Len(u) :
             (s \o u)[i] = IF i <= Len(s) THEN s[i] ELSE u[i - Len(s)]
    <3> HIDE DEF k, l, h, r, v, w
    <3>1. QED
      BY ONLY s \in Seq(S), <2>1, ConcatProperties
  <2>3. QED
    BY <1>2, <2>2
<1> HIDE DEF r, v
<1>5. k + n \in Nat /\ (k + n) + h <= Len(r)
  BY <1>0, <1>1, <1>3
<1>6. /\ w \in Seq(S) /\ Len(w) = Len(r)
      /\ \A i \in 1 .. Len(r) : w[i] = IF k + n < i /\ i <= (k + n) + h THEN x[i - (k + n)] ELSE r[i]
  <2> DEFINE a == k + n
  <2>1. PatchFits(S, r, a, x)
    BY <1>0, <1>3, <1>5 DEF PatchFits
  <2>2. IsPatchOf(S, r, a, x, w)
    BY <2>1, PatchOf
  <2> HIDE DEF w
  <2>3. QED
    BY <2>2 DEF IsPatchOf
<1> HIDE DEF w, k, l, h
<1>7. ASSUME NEW i \in 1 .. k + l PROVE w[i] = v[i]
  <2>1. w[i] = IF k + n < i /\ i <= (k + n) + h THEN x[i - (k + n)] ELSE r[i]
    BY <1>3, <1>6
  <2>2. CASE i <= k
    <3>1. ~(k + n < i)
      BY <1>0, <1>1, <2>2
    <3>2. QED
      BY <1>3, <1>4, <2>1, <2>2, <3>1
  <2>3. CASE ~(i <= k)
    <3>1. i - k \in 1 .. l
      BY <1>1, <2>3
    <3>2. (n < i - k) <=> (k + n < i)
      BY <1>0, <1>1
    <3>3. (i - k <= n + h) <=> (i <= (k + n) + h)
      BY <1>0, <1>1
    <3>4. (i - k) - n = i - (k + n)
      BY <1>0, <1>1
    <3>5. u[i - k] = IF n < i - k /\ i - k <= n + h THEN x[(i - k) - n] ELSE t[i - k]
      BY <1>2, <3>1
    <3>6. v[i] = u[i - k] /\ r[i] = t[i - k]
      BY <1>3, <1>4, <2>3
    <3>7. QED
      BY <2>1, <3>2, <3>3, <3>4, <3>5, <3>6
  <2>4. QED
    BY <2>2, <2>3
<1>8. Len(w) = k + l
  BY <1>3, <1>6
<1>9. w = v
  BY <1>4, <1>6, <1>7, <1>8, SameElements
<1>10. QED
  BY <1>9 DEF w, v, r, u, k

\* The digits of a number.
LEMMA NumberType ==
    ASSUME NEW n \in Nat, NEW d \in Number_t(n)
    PROVE  d \in Seq(Byte) /\ Len(d) = n
<1>1. d \in [1 .. n -> Byte]
  BY DEF Number_t
<1>2. d \in Seq(Byte)
  BY <1>1, FunctionIsSeq
<1>3. QED
  BY <1>1, <1>2

\* A sequence of two bytes is a number.
LEMMA NumberOf ==
    ASSUME NEW n \in Nat, NEW d \in Seq(Byte), Len(d) = n
    PROVE  d \in Number_t(n)
  BY DEF Number_t

\* Whatever is turned around twice is as it was: the conversions to and from the
\* order of the network leave digits and bytes alike.
LEMMA Converted ==
    ASSUME NEW d \in Seq(Byte)
    PROVE  produce_to_net(d) = d /\ consume_from_net(d) = d
<1>1. Len(d) \in Nat
  OBVIOUS
<1>2. ASSUME NEW s \in Seq(Byte)
      PROVE  /\ Reverse(s) \in Seq(Byte) /\ Len(Reverse(s)) = Len(s)
             /\ \A i \in 1 .. Len(s) : Reverse(s)[i] = s[(Len(s) - i) + 1]
  <2>1. Len(s) \in Nat /\ \A i \in 1 .. Len(s) : s[i] \in Byte
    OBVIOUS
  <2>2. \A i \in 1 .. Len(s) : (Len(s) - i) + 1 \in 1 .. Len(s)
    BY <2>1
  <2>3. Reverse(s) = [i \in 1 .. Len(s) |-> s[(Len(s) - i) + 1]]
    BY DEF Reverse
  <2>4. Reverse(s) \in [1 .. Len(s) -> Byte]
    BY <2>1, <2>2, <2>3
  <2>5. Reverse(s) \in Seq(Byte)
    BY <2>1, <2>4, FunctionIsSeq
  <2>6. Len(Reverse(s)) = Len(s)
    BY <2>1, <2>4, <2>5
  <2>7. QED
    BY <2>3, <2>5, <2>6
<1> DEFINE r == Reverse(d)
           w == Reverse(r)
<1>3. /\ r \in Seq(Byte) /\ Len(r) = Len(d)
      /\ \A i \in 1 .. Len(d) : r[i] = d[(Len(d) - i) + 1]
  BY <1>2
<1> HIDE DEF r
<1>4. /\ w \in Seq(Byte) /\ Len(w) = Len(r)
      /\ \A i \in 1 .. Len(r) : w[i] = r[(Len(r) - i) + 1]
  BY <1>2, <1>3
<1> HIDE DEF w
<1>5. ASSUME NEW i \in 1 .. Len(d) PROVE w[i] = d[i]
  <2>1. (Len(d) - i) + 1 \in 1 .. Len(d) /\ (Len(d) - ((Len(d) - i) + 1)) + 1 = i
    BY <1>1
  <2>2. w[i] = r[(Len(d) - i) + 1]
    BY <1>3, <1>4
  <2>3. r[(Len(d) - i) + 1] = d[(Len(d) - ((Len(d) - i) + 1)) + 1]
    BY <1>3, <2>1
  <2>4. QED
    BY <2>1, <2>2, <2>3
<1>6. w = d
  BY <1>3, <1>4, <1>5, SameElements
<1>7. Reverse(Reverse(d)) = d
  BY <1>6 DEF w, r
<1>8. QED
  BY <1>7 DEF produce_to_net, consume_from_net, Memory, ntoh

-----------------------------------------------------------------------------
(* Buffers *)

Cell == Byte \cup {Uninit}
Skb == [mem : Seq(Cell), head : Int, tail : Int, ok : BOOLEAN]

\* Buffer s has h bytes of headroom, no assert on it has failed, and it is no
\* larger than a number of 16 bits can tell.
Holds(s, h) ==
    /\ s \in Skb /\ s.ok = TRUE
    /\ h \in Nat /\ s.head = h /\ s.tail = Len(s.mem)
    /\ h <= Len(s.mem) /\ Len(s.mem) <= Max16

\* Bytes are cells.
LEMMA BytesAreCells ==
    ASSUME NEW x \in Seq(Byte)
    PROVE  x \in Seq(Cell) /\ Len(x) \in Nat
  BY DEF Cell

\* An assert that holds changes nothing.
LEMMA CheckHolds ==
    ASSUME NEW s \in Skb, s.ok = TRUE, NEW cond, cond
    PROVE  check(s, cond) = s
<1>1. (s.ok /\ cond) = TRUE
  OBVIOUS
<1>2. check(s, cond) = [s EXCEPT !.ok = TRUE]
  BY <1>1 DEF check
<1>3. [s EXCEPT !.ok = TRUE] = s
  BY DEF Skb
<1>4. QED
  BY <1>2, <1>3

\* Nor does another one that was to be made.
LEMMA CheckIs ==
    ASSUME NEW s \in Skb, NEW cond \in BOOLEAN
    PROVE  /\ check(s, cond) \in Skb /\ check(s, cond).mem = s.mem /\ check(s, cond).head = s.head
           /\ check(s, cond).tail = s.tail /\ check(s, cond).ok = (s.ok /\ cond)
<1>1. (s.ok /\ cond) \in BOOLEAN
  OBVIOUS
<1>2. check(s, cond) = [s EXCEPT !.ok = (s.ok /\ cond)]
  BY DEF check
<1> DEFINE b == (s.ok /\ cond)
<1> HIDE DEF b
<1>3. b \in BOOLEAN /\ check(s, cond) = [s EXCEPT !.ok = b]
  BY <1>1, <1>2 DEF b
<1>4. /\ [s EXCEPT !.ok = b] \in Skb /\ [s EXCEPT !.ok = b].mem = s.mem
      /\ [s EXCEPT !.ok = b].head = s.head /\ [s EXCEPT !.ok = b].tail = s.tail
      /\ [s EXCEPT !.ok = b].ok = b
  BY <1>3 DEF Skb
<1>5. QED
  BY <1>3, <1>4 DEF b

\* The payload of a buffer.
LEMMA PayloadIs ==
    ASSUME NEW s, NEW h, Holds(s, h)
    PROVE  /\ s.mem \in Seq(Cell) /\ Len(s.mem) \in Nat /\ h \in Nat /\ h <= Len(s.mem)
           /\ payload(s) \in Seq(Cell) /\ Len(payload(s)) = Len(s.mem) - h
           /\ Len(payload(s)) \in Nat
           /\ \A i \in 1 .. Len(s.mem) - h : payload(s)[i] = s.mem[h + i]
<1>1. s.mem \in Seq(Cell) /\ h \in Nat /\ h <= Len(s.mem)
  BY DEF Holds, Skb
<1>2. Len(s.mem) \in Nat
  BY <1>1
<1>3. payload(s) = SubSeq(s.mem, h + 1, Len(s.mem))
  BY DEF payload, Holds
<1> DEFINE p == SubSeq(s.mem, h + 1, Len(s.mem))
<1>4. /\ p \in Seq(Cell) /\ Len(p) = Len(s.mem) - h
      /\ \A i \in 1 .. Len(s.mem) - h : p[i] = s.mem[h + i]
  BY <1>1, <1>2, Cut
<1> HIDE DEF p
<1>5. Len(s.mem) - h \in Nat
  BY <1>1, <1>2
<1>6. payload(s) = p
  BY <1>3 DEF p
<1>7. QED
  BY <1>1, <1>2, <1>4, <1>5, <1>6

\* The bytes at some place of the payload.
LEMMA BytesAt ==
    ASSUME NEW s, NEW h, Holds(s, h), NEW off \in Nat, NEW n \in Nat, off + n <= Len(payload(s))
    PROVE  bytes_at(s, off, n) = SubSeq(payload(s), off + 1, off + n)
<1> DEFINE m == s.mem
           p == payload(s)
           x == SubSeq(m, h + off + 1, h + off + n)
           y == SubSeq(p, off + 1, off + n)
<1>1. /\ m \in Seq(Cell) /\ Len(m) \in Nat /\ h \in Nat /\ h <= Len(m)
      /\ p \in Seq(Cell) /\ Len(p) = Len(m) - h
      /\ \A i \in 1 .. Len(m) - h : p[i] = m[h + i]
  BY PayloadIs
<1>2. bytes_at(s, off, n) = x
  BY DEF bytes_at, Holds
<1> HIDE DEF m, p
<1>3. h + off \in Nat /\ (h + off) + n <= Len(m) /\ off + n <= Len(p)
  BY <1>1 DEF p
<1>4. x \in Seq(Cell) /\ Len(x) = n /\ Has(m, h + off, x)
  <2> DEFINE a == h + off
  <2>1. a \in Nat /\ a + n <= Len(m)
    BY <1>3
  <2> HIDE DEF a
  <2>2. /\ SubSeq(m, a + 1, a + n) \in Seq(Cell) /\ Len(SubSeq(m, a + 1, a + n)) = n
        /\ Has(m, a, SubSeq(m, a + 1, a + n))
    BY <1>1, <2>1, HasCut
  <2>3. QED
    BY <2>2 DEF a
<1>5. y \in Seq(Cell) /\ Len(y) = n /\ Has(p, off, y)
  BY <1>1, <1>3, HasCut
<1> HIDE DEF x, y
<1>6. ASSUME NEW i \in 1 .. n PROVE x[i] = y[i]
  <2>1. m[h + off + i] = x[i] /\ p[off + i] = y[i]
    BY <1>4, <1>5 DEF Has
  <2>2. off + i \in 1 .. Len(m) - h /\ h + (off + i) = h + off + i
    BY <1>1, <1>3
  <2>3. QED
    BY <1>1, <2>1, <2>2
<1>7. x = y
  BY <1>4, <1>5, <1>6, SameElements
<1>8. QED
  BY <1>2, <1>7 DEF y, p

\* skbuff::pop_front.
LEMMA PopFront ==
    ASSUME NEW s, NEW h, Holds(s, h), NEW n \in Nat, n <= Len(payload(s))
    PROVE  /\ Holds(pop_front(s, n), h + n)
           /\ payload(pop_front(s, n)) = Rest(payload(s), n)
           /\ pop_front(s, n).mem = s.mem
<1> DEFINE t == [s EXCEPT !.head = h + n]
<1>1. /\ s.mem \in Seq(Cell) /\ Len(s.mem) \in Nat /\ h \in Nat /\ h <= Len(s.mem)
      /\ payload(s) \in Seq(Cell) /\ Len(payload(s)) = Len(s.mem) - h
      /\ \A i \in 1 .. Len(s.mem) - h : payload(s)[i] = s.mem[h + i]
  BY PayloadIs
<1>2. s \in Skb /\ s.ok = TRUE /\ s.head = h /\ s.tail = Len(s.mem) /\ Len(s.mem) <= Max16
  BY DEF Holds
<1>3. h + n \in Nat /\ h + n <= Len(s.mem)
  BY <1>1
<1>4. /\ t \in Skb /\ t.ok = TRUE /\ t.head = h + n /\ t.tail = Len(s.mem) /\ t.mem = s.mem
  BY <1>2, <1>3 DEF Skb
<1>5. pop_front(s, n) = check(t, h + n <= Len(s.mem))
  BY <1>2 DEF pop_front
<1> HIDE DEF t
<1>6. pop_front(s, n) = t
  BY <1>3, <1>4, <1>5, CheckHolds
<1>7. Holds(t, h + n)
  BY <1>2, <1>3, <1>4 DEF Holds
<1> DEFINE p == payload(s)
           q == payload(t)
           r == Rest(p, n)
<1>8. q \in Seq(Cell) /\ Len(q) = Len(s.mem) - (h + n)
      /\ \A i \in 1 .. Len(s.mem) - (h + n) : q[i] = s.mem[(h + n) + i]
  <2> DEFINE a == h + n
  <2>1. Holds(t, a)
    BY <1>7
  <2> HIDE DEF a
  <2>2. q \in Seq(Cell) /\ Len(q) = Len(t.mem) - a
        /\ \A i \in 1 .. Len(t.mem) - a : q[i] = t.mem[a + i]
    BY <2>1, PayloadIs
  <2>3. QED
    BY <1>4, <2>2 DEF a
<1>9. r \in Seq(Cell) /\ Len(r) = Len(p) - n /\ \A i \in 1 .. Len(p) - n : r[i] = p[n + i]
  <2>1. p \in Seq(Cell) /\ n \in Nat /\ n <= Len(p)
    BY <1>1
  <2> HIDE DEF p, q
  <2>2. QED
    BY <2>1, Split
<1>10. Len(p) = Len(s.mem) - h /\ \A i \in 1 .. Len(s.mem) - h : p[i] = s.mem[h + i]
  BY <1>1
<1> HIDE DEF p, q, r
<1>11. Len(q) = Len(r) /\ Len(q) = Len(p) - n
  BY <1>1, <1>8, <1>9, <1>10
<1>12. ASSUME NEW i \in 1 .. Len(q) PROVE q[i] = r[i]
  <2>1. i \in 1 .. Len(p) - n /\ i \in 1 .. Len(s.mem) - (h + n)
    BY <1>8, <1>11
  <2>2. n + i \in 1 .. Len(s.mem) - h /\ h + (n + i) = (h + n) + i
    BY <1>1, <1>10, <2>1
  <2>3. q[i] = s.mem[(h + n) + i] /\ r[i] = p[n + i] /\ p[n + i] = s.mem[h + (n + i)]
    BY <1>8, <1>9, <1>10, <2>1, <2>2
  <2>4. QED
    BY <2>2, <2>3
<1>13. q = r
  BY <1>8, <1>9, <1>11, <1>12, SameElements
<1>14. QED
  BY <1>4, <1>6, <1>7, <1>13 DEF p, q, r

\* memcpy into the memory of a buffer.
LEMMA PutMem ==
    ASSUME NEW s \in Skb, NEW off \in Int, NEW x \in Seq(Cell), s.head + off \in Nat,
           s.head + off + Len(x) <= Len(s.mem)
    PROVE  put(s, off, x) = [s EXCEPT !.mem = Patch(s.mem, s.head + off, x)]
<1> DEFINE m == s.mem
           a == s.head + off
           u == SubSeq(m, 1, a)
           v == SubSeq(m, a + Len(x) + 1, Len(m))
           w == u \o x
           r == w \o v
           q == Patch(m, a, x)
<1>1. m \in Seq(Cell) /\ Len(m) \in Nat /\ a \in Nat /\ Len(x) \in Nat /\ a + Len(x) <= Len(m)
  BY DEF Skb
<1>2. put(s, off, x) = [s EXCEPT !.mem = r]
  <2>1. ~(a < 0 \/ a + Len(x) > Len(m))
    BY <1>1
  <2>2. QED
    BY <2>1 DEF put
<1> HIDE DEF m, a
<1>3. u \in Seq(Cell) /\ Len(u) = a /\ \A i \in 1 .. a : u[i] = m[i]
  <2>1. a <= Len(m)
    BY <1>1
  <2>2. First(m, a) = u
    BY DEF First
  <2> HIDE DEF u
  <2>3. First(m, a) \in Seq(Cell) /\ Len(First(m, a)) = a /\ \A i \in 1 .. a : First(m, a)[i] = m[i]
    BY <1>1, <2>1, Split
  <2>4. QED
    BY <2>2, <2>3
<1>4. v \in Seq(Cell) /\ Len(v) = Len(m) - (a + Len(x))
      /\ \A i \in 1 .. Len(m) - (a + Len(x)) : v[i] = m[a + Len(x) + i]
  <2> DEFINE b == a + Len(x)
  <2>1. b \in Nat /\ b <= Len(m)
    BY <1>1
  <2> HIDE DEF b
  <2>2. Rest(m, b) \in Seq(Cell) /\ Len(Rest(m, b)) = Len(m) - b
        /\ \A i \in 1 .. Len(m) - b : Rest(m, b)[i] = m[b + i]
    BY <1>1, <2>1, Split
  <2>3. Rest(m, b) = v
    BY DEF Rest, b
  <2>4. QED
    BY <2>2, <2>3 DEF b
<1> HIDE DEF u, v
<1>5. w \in Seq(Cell) /\ Len(w) = a + Len(x)
      /\ \A i \in 1 .. a + Len(x) : w[i] = IF i <= a THEN u[i] ELSE x[i - a]
  <2>1. w \in Seq(Cell) /\ Len(w) = Len(u) + Len(x)
        /\ \A i \in 1 .. Len(u) + Len(x) : w[i] = IF i <= Len(u) THEN u[i] ELSE x[i - Len(u)]
    BY <1>3, ConcatProperties
  <2>2. QED
    BY <1>3, <2>1
<1> HIDE DEF w
<1>6. r \in Seq(Cell) /\ Len(r) = Len(w) + Len(v)
      /\ \A i \in 1 .. Len(w) + Len(v) : r[i] = IF i <= Len(w) THEN w[i] ELSE v[i - Len(w)]
  <2>1. w \in Seq(Cell) /\ v \in Seq(Cell)
    BY <1>4, <1>5
  <2>2. QED
    BY <2>1, ConcatProperties
<1> HIDE DEF r
<1>7. q \in Seq(Cell) /\ Len(q) = Len(m)
      /\ \A i \in 1 .. Len(m) : q[i] = IF a < i /\ i <= a + Len(x) THEN x[i - a] ELSE m[i]
  BY <1>1, PatchIs
<1> HIDE DEF q
<1>8. Len(r) = Len(m) /\ Len(w) + Len(v) = Len(m)
  BY <1>1, <1>4, <1>5, <1>6
<1>9. ASSUME NEW i \in 1 .. Len(m) PROVE r[i] = q[i]
  <2>1. r[i] = IF i <= a + Len(x) THEN w[i] ELSE v[i - (a + Len(x))]
    BY <1>5, <1>6, <1>8
  <2>2. CASE i <= a
    <3>1. i <= a + Len(x) /\ i \in 1 .. a /\ i \in 1 .. a + Len(x) /\ ~(a < i)
      BY <1>1, <2>2
    <3>2. QED
      BY <1>3, <1>5, <1>7, <2>1, <2>2, <3>1
  <2>3. CASE a < i /\ i <= a + Len(x)
    <3>1. ~(i <= a) /\ i \in 1 .. a + Len(x)
      BY <1>1, <2>3
    <3>2. QED
      BY <1>5, <1>7, <2>1, <2>3, <3>1
  <2>4. CASE a + Len(x) < i
    <3>1. ~(i <= a + Len(x))
      BY <1>1, <2>4
    <3>2. i - (a + Len(x)) \in 1 .. Len(m) - (a + Len(x)) /\ a + Len(x) + (i - (a + Len(x))) = i
      BY <1>1, <2>4
    <3>3. v[i - (a + Len(x))] = m[a + Len(x) + (i - (a + Len(x)))]
      BY <1>4, <3>2
    <3>4. QED
      BY <1>7, <2>1, <3>1, <3>2, <3>3
  <2>5. QED
    BY <1>1, <2>2, <2>3, <2>4
<1>10. r = q
  BY <1>6, <1>7, <1>8, <1>9, SameElements
<1>11. QED
  BY <1>2, <1>10 DEF q, m, a

\* The same in terms of the payload: bytes of it are replaced.
LEMMA Put ==
    ASSUME NEW s, NEW h, Holds(s, h), NEW off \in Nat, NEW x \in Seq(Cell),
           off + Len(x) <= Len(payload(s))
    PROVE  /\ Holds(put(s, off, x), h)
           /\ payload(put(s, off, x)) = Patch(payload(s), off, x)
<1> DEFINE m == s.mem
           p == payload(s)
           a == h + off
           n == Len(x)
           q == Patch(m, a, x)
           t == [s EXCEPT !.mem = q]
           r == Patch(p, off, x)
           v == payload(t)
<1>1. /\ m \in Seq(Cell) /\ Len(m) \in Nat /\ h \in Nat /\ h <= Len(m)
      /\ p \in Seq(Cell) /\ Len(p) = Len(m) - h /\ n \in Nat /\ off + n <= Len(p)
      /\ \A i \in 1 .. Len(m) - h : p[i] = m[h + i]
  BY PayloadIs
<1>2. s \in Skb /\ s.ok = TRUE /\ s.head = h /\ s.tail = Len(m) /\ Len(m) <= Max16
  BY DEF Holds
<1> HIDE DEF m, p, n
<1>3. a \in Nat /\ a + n <= Len(m)
  BY <1>1
<1>4. put(s, off, x) = t
  <2>1. s.head + off = a /\ s.head + off + Len(x) <= Len(s.mem)
    BY <1>2, <1>3 DEF m, n
  <2>2. QED
    BY <1>2, <1>3, <2>1, PutMem DEF m
<1>5. q \in Seq(Cell) /\ Len(q) = Len(m)
      /\ \A i \in 1 .. Len(m) : q[i] = IF a < i /\ i <= a + n THEN x[i - a] ELSE m[i]
  <2> HIDE DEF a, q
  <2>1. PatchFits(Cell, m, a, x)
    BY <1>1, <1>3 DEF PatchFits, n
  <2>2. IsPatchOf(Cell, m, a, x, q)
    BY <2>1, PatchOf DEF q
  <2>3. QED
    BY <2>2 DEF IsPatchOf, n
<1>6. r \in Seq(Cell) /\ Len(r) = Len(p)
      /\ \A i \in 1 .. Len(p) : r[i] = IF off < i /\ i <= off + n THEN x[i - off] ELSE p[i]
  <2>1. off + Len(x) <= Len(p) /\ p \in Seq(Cell)
    BY <1>1 DEF n
  <2>2. QED
    BY <2>1, PatchIs DEF n
<1> HIDE DEF q
<1>7. t \in Skb /\ t.ok = TRUE /\ t.head = h /\ t.tail = Len(m) /\ t.mem = q
  BY <1>2, <1>5 DEF Skb
<1> HIDE DEF t
<1>8. Holds(t, h)
  BY <1>1, <1>2, <1>5, <1>7 DEF Holds
<1>9. v \in Seq(Cell) /\ Len(v) = Len(m) - h /\ \A i \in 1 .. Len(m) - h : v[i] = q[h + i]
  <2>1. v \in Seq(Cell) /\ Len(v) = Len(t.mem) - h /\ \A i \in 1 .. Len(t.mem) - h : v[i] = t.mem[h + i]
    BY <1>8, PayloadIs
  <2>2. QED
    BY <1>5, <1>7, <2>1
<1> HIDE DEF v, r
<1>10. ASSUME NEW i \in 1 .. Len(m) - h PROVE v[i] = r[i]
  <2>1. h + i \in 1 .. Len(m) /\ i \in 1 .. Len(p)
    BY <1>1
  <2>2. (a < h + i <=> off < i) /\ (h + i <= a + n <=> i <= off + n) /\ (h + i) - a = i - off
    BY <1>1
  <2> HIDE DEF a
  <2>3. v[i] = q[h + i] /\ p[i] = m[h + i]
    BY <1>1, <1>9
  <2>4. q[h + i] = IF a < h + i /\ h + i <= a + n THEN x[(h + i) - a] ELSE m[h + i]
    BY <1>5, <2>1
  <2>5. r[i] = IF off < i /\ i <= off + n THEN x[i - off] ELSE p[i]
    BY <1>6, <2>1
  <2>6. QED
    BY <2>2, <2>3, <2>4, <2>5
<1>11. Len(v) = Len(r)
  BY <1>1, <1>6, <1>9
<1>12. v = r
  BY <1>6, <1>9, <1>10, <1>11, SameElements
<1>13. QED
  BY <1>4, <1>8, <1>12 DEF v, r, p

\* A header that is written into the headroom.
LEMMA Prepend ==
    ASSUME NEW s, NEW h, Holds(s, h), NEW x \in Seq(Cell), NEW k, k = Len(x), k <= h
    PROVE  /\ Holds(put(push_front(s, k), 0, x), h - k)
           /\ payload(put(push_front(s, k), 0, x)) = x \o payload(s)
<1> DEFINE m == s.mem
           p == payload(s)
           a == h - k
           q == Patch(m, a, x)
           b == [s EXCEPT !.head = a]
           t == [b EXCEPT !.mem = q]
           r == x \o p
           v == payload(t)
<1>1. /\ m \in Seq(Cell) /\ Len(m) \in Nat /\ h \in Nat /\ h <= Len(m) /\ k \in Nat /\ k <= h
      /\ p \in Seq(Cell) /\ Len(p) = Len(m) - h
      /\ \A i \in 1 .. Len(m) - h : p[i] = m[h + i]
  BY PayloadIs
<1>2. s \in Skb /\ s.ok = TRUE /\ s.head = h /\ s.tail = Len(m) /\ Len(m) <= Max16
  BY DEF Holds
<1> HIDE DEF m, p
<1>3. a \in Nat /\ a + k <= Len(m) /\ a <= Len(m) /\ a + k = h
  BY <1>1
<1>4. b \in Skb /\ b.ok = TRUE /\ b.head = a /\ b.tail = Len(m) /\ b.mem = m
  <2> HIDE DEF a
  <2>1. a \in Int
    BY <1>3
  <2>2. QED
    BY <1>2, <2>1 DEF Skb, m
<1>5. push_front(s, k) = b
  <2>1. push_front(s, k) = check(b, a >= 0)
    BY <1>2 DEF push_front
  <2>2. a >= 0
    BY <1>3
  <2> HIDE DEF a, b
  <2>3. QED
    BY <1>4, <2>1, <2>2, CheckHolds
<1> HIDE DEF a, b
<1>6. put(b, 0, x) = t
  <2>1. b.head + 0 = a /\ b.head + 0 + Len(x) <= Len(b.mem)
    BY <1>3, <1>4
  <2>2. QED
    BY <1>3, <1>4, <2>1, PutMem
<1>7. q \in Seq(Cell) /\ Len(q) = Len(m)
      /\ \A i \in 1 .. Len(m) : q[i] = IF a < i /\ i <= a + k THEN x[i - a] ELSE m[i]
  BY <1>1, <1>3, PatchIs
<1>8. r \in Seq(Cell) /\ Len(r) = k + Len(p)
      /\ \A i \in 1 .. k + Len(p) : r[i] = IF i <= k THEN x[i] ELSE p[i - k]
  <2>1. p \in Seq(Cell)
    BY <1>1
  <2>2. r \in Seq(Cell) /\ Len(r) = Len(x) + Len(p)
        /\ \A i \in 1 .. Len(x) + Len(p) : r[i] = IF i <= Len(x) THEN x[i] ELSE p[i - Len(x)]
    BY <2>1, ConcatProperties
  <2> HIDE DEF r
  <2>3. QED
    BY <2>2
<1> HIDE DEF q, r
<1>9. t \in Skb /\ t.ok = TRUE /\ t.head = a /\ t.tail = Len(m) /\ t.mem = q
  BY <1>4, <1>7 DEF Skb
<1> HIDE DEF t
<1>10. Holds(t, a)
  BY <1>2, <1>3, <1>7, <1>9 DEF Holds
<1>11. v \in Seq(Cell) /\ Len(v) = Len(m) - a /\ \A i \in 1 .. Len(m) - a : v[i] = q[a + i]
  <2>1. v \in Seq(Cell) /\ Len(v) = Len(t.mem) - a /\ \A i \in 1 .. Len(t.mem) - a : v[i] = t.mem[a + i]
    BY <1>10, PayloadIs
  <2>2. QED
    BY <1>7, <1>9, <2>1
<1> HIDE DEF v
<1>12. Len(v) = Len(r) /\ Len(v) = k + Len(p)
  BY <1>1, <1>3, <1>8, <1>11
<1>13. ASSUME NEW i \in 1 .. Len(v) PROVE v[i] = r[i]
  <2>1. a + i \in 1 .. Len(m) /\ a < a + i /\ (a + i) - a = i
    BY <1>3, <1>11
  <2>2. v[i] = q[a + i]
    BY <1>11
  <2>3. q[a + i] = IF a + i <= a + k THEN x[(a + i) - a] ELSE m[a + i]
    BY <1>7, <2>1
  <2>4. CASE i <= k
    <3>1. a + i <= a + k
      BY <1>1, <1>3, <2>4
    <3>2. r[i] = x[i]
      BY <1>8, <1>12, <2>4
    <3>3. QED
      BY <2>1, <2>2, <2>3, <3>1, <3>2
  <2>5. CASE ~(i <= k)
    <3>1. ~(a + i <= a + k) /\ i - k \in 1 .. Len(m) - h /\ h + (i - k) = a + i
      <4>1. i \in Nat /\ i <= k + Len(p) /\ k < i
        BY <1>1, <1>12, <2>5
      <4>2. ~(a + i <= a + k)
        BY <1>1, <1>3, <4>1
      <4>3. i - k \in 1 .. Len(m) - h
        BY <1>1, <4>1
      <4>4. h + (i - k) = a + i
        <5>1. \A b1, b2, b3 \in Int : (b1 + b2) + (b3 - b2) = b1 + b3
          OBVIOUS
        <5>2. a \in Int /\ k \in Int /\ i \in Int /\ h = a + k
          BY <1>1, <1>3, <4>1
        <5>3. QED
          BY <5>1, <5>2, Zenon
      <4>5. QED
        BY <4>2, <4>3, <4>4
    <3>2. r[i] = p[i - k] /\ p[i - k] = m[h + (i - k)]
      BY <1>1, <1>8, <1>12, <2>5, <3>1
    <3>3. QED
      BY <2>2, <2>3, <3>1, <3>2
  <2>6. QED
    BY <2>4, <2>5
<1>14. v = r
  BY <1>8, <1>11, <1>12, <1>13, SameElements
<1>15. QED
  BY <1>5, <1>6, <1>10, <1>14 DEF v, r, a, p

-----------------------------------------------------------------------------
(* Sums of words *)

\* g gives, for each n, the sum of the first n numbers of s.
Sums(g, s) ==
    /\ g \in [0 .. Len(s) -> Nat]
    /\ g[0] = 0
    /\ \A n \in 1 .. Len(s) : g[n] = g[n - 1] + s[n]

\* There is such a function for every sequence.
LEMMA SumsExist ==
    ASSUME NEW s \in Seq(Nat)
    PROVE  \E g : Sums(g, s)
<1> DEFINE P(n) == \E g \in [0 .. n -> Nat] : g[0] = 0 /\ \A i \in 1 .. n : g[i] = g[i - 1] + s[i]
           T == {n \in Nat : n <= Len(s) => P(n)}
<1>1. Len(s) \in Nat /\ \A i \in 1 .. Len(s) : s[i] \in Nat
  OBVIOUS
<1>2. 0 \in T
  <2> DEFINE g == [i \in 0 .. 0 |-> 0]
  <2>1. g \in [0 .. 0 -> Nat] /\ g[0] = 0
    OBVIOUS
  <2>2. 1 .. 0 = {}
    OBVIOUS
  <2>3. QED
    BY <2>1, <2>2
<1>3. ASSUME NEW n \in Nat, n \in T PROVE n + 1 \in T
  <2> SUFFICES ASSUME n + 1 <= Len(s) PROVE P(n + 1)
    <3> HIDE DEF P
    <3>1. QED
      OBVIOUS
  <2>1. n <= Len(s) /\ n + 1 \in 1 .. Len(s) /\ s[n + 1] \in Nat
    BY <1>1
  <2>2. PICK g \in [0 .. n -> Nat] : g[0] = 0 /\ \A i \in 1 .. n : g[i] = g[i - 1] + s[i]
    BY <1>3, <2>1
  <2> DEFINE h == [i \in 0 .. n + 1 |-> IF i = n + 1 THEN g[n] + s[n + 1] ELSE g[i]]
  <2>3. g[n] \in Nat
    BY <2>2
  <2>4. h \in [0 .. n + 1 -> Nat]
    <3>1. \A i \in 0 .. n + 1 : i # n + 1 => i \in 0 .. n
      OBVIOUS
    <3>2. g[n] + s[n + 1] \in Nat
      BY <2>1, <2>3
    <3>3. QED
      BY <2>2, <3>1, <3>2
  <2>5. h[0] = 0
    BY <2>2
  <2>6. ASSUME NEW i \in 1 .. n + 1 PROVE h[i] = h[i - 1] + s[i]
    <3>1. i \in 0 .. n + 1 /\ i - 1 \in 0 .. n + 1 /\ i - 1 # n + 1
      OBVIOUS
    <3>2. CASE i = n + 1
      <4>1. i - 1 = n
        BY <3>2
      <4>2. h[i] = g[n] + s[n + 1] /\ h[i - 1] = g[n]
        BY <3>1, <3>2, <4>1
      <4>3. QED
        BY <3>2, <4>2
    <3>3. CASE i # n + 1
      <4>1. i \in 1 .. n
        BY <3>3
      <4>2. h[i] = g[i] /\ h[i - 1] = g[i - 1]
        BY <3>1, <3>3
      <4>3. QED
        BY <2>2, <4>1, <4>2
    <3>4. QED
      BY <3>2, <3>3
  <2>7. QED
    BY <2>4, <2>5, <2>6
<1>4. Nat \subseteq T
  <2> HIDE DEF T
  <2>1. QED
    BY <1>2, <1>3, SetInduction, Zenon
<1>5. P(Len(s))
  <2> HIDE DEF P
  <2>1. QED
    BY <1>1, <1>4
<1>6. QED
  BY <1>5 DEF Sums

\* Total is the last of its values.
LEMMA TotalSums ==
    ASSUME NEW s \in Seq(Nat), NEW g, Sums(g, s)
    PROVE  Total(s) = g[Len(s)] /\ Total(s) \in Nat
<1> DEFINE N == Len(s)
           E(f) == f = [n \in 0 .. N |-> IF n = 0 THEN 0 ELSE f[n - 1] + s[n]]
           F == CHOOSE f : E(f)
<1>1. N \in Nat /\ g \in [0 .. N -> Nat] /\ g[0] = 0 /\ \A n \in 1 .. N : g[n] = g[n - 1] + s[n]
  BY DEF Sums
<1>2. E(g)
  <2>1. \A n \in 0 .. N : g[n] = IF n = 0 THEN 0 ELSE g[n - 1] + s[n]
    BY <1>1
  <2> HIDE DEF N
  <2>2. QED
    BY <1>1, <2>1
<1>3. E(F)
  <2> HIDE DEF E
  <2>1. QED
    BY <1>2
<1>4. Total(s) = F[N]
  BY DEF Total
<1> HIDE DEF F
<1>5. \A n \in 0 .. N : F[n] = IF n = 0 THEN 0 ELSE F[n - 1] + s[n]
  BY <1>3
<1> DEFINE T == {n \in Nat : n <= N => F[n] = g[n]}
<1>6. 0 \in T
  BY <1>1, <1>5
<1>7. ASSUME NEW n \in Nat, n \in T PROVE n + 1 \in T
  <2> SUFFICES ASSUME n + 1 <= N PROVE F[n + 1] = g[n + 1]
    OBVIOUS
  <2> DEFINE k == n + 1
  <2>1. k \in 1 .. N /\ k \in 0 .. N /\ k # 0 /\ k - 1 = n /\ n <= N
    BY <1>1
  <2>2. F[n] = g[n]
    BY <1>7, <2>1
  <2> HIDE DEF k
  <2>3. F[k] = F[k - 1] + s[k] /\ g[k] = g[k - 1] + s[k]
    BY <1>1, <1>5, <2>1
  <2>4. F[k] = g[k]
    BY <2>1, <2>2, <2>3
  <2>5. QED
    BY <2>4 DEF k
<1>8. Nat \subseteq T
  <2> HIDE DEF T
  <2>1. QED
    BY <1>6, <1>7, SetInduction, Zenon
<1>9. F[N] = g[N]
  BY <1>1, <1>8
<1>10. QED
  BY <1>1, <1>4, <1>9

\* Sums add up.
LEMMA TotalAppend ==
    ASSUME NEW s \in Seq(Nat), NEW x \in Nat
    PROVE  Total(Append(s, x)) = Total(s) + x
<1> DEFINE t == Append(s, x)
           N == Len(s)
<1>1. N \in Nat /\ t \in Seq(Nat) /\ Len(t) = N + 1 /\ t[N + 1] = x /\ \A i \in 1 .. N : t[i] = s[i]
  OBVIOUS
<1> HIDE DEF t
<1>2. PICK g : Sums(g, t)
  BY <1>1, SumsExist
<1>3. g \in [0 .. N + 1 -> Nat] /\ g[0] = 0 /\ \A n \in 1 .. N + 1 : g[n] = g[n - 1] + t[n]
  BY <1>1, <1>2 DEF Sums
<1> DEFINE h == [n \in 0 .. N |-> g[n]]
<1>4. Sums(h, s)
  <2>1. h \in [0 .. N -> Nat] /\ h[0] = 0
    BY <1>1, <1>3
  <2>2. ASSUME NEW n \in 1 .. N PROVE h[n] = h[n - 1] + s[n]
    <3>1. n \in 0 .. N /\ n - 1 \in 0 .. N /\ n \in 1 .. N + 1
      BY <1>1
    <3>2. QED
      BY <1>1, <1>3, <3>1
  <2>3. QED
    BY <2>1, <2>2 DEF Sums
<1>5. Total(s) = h[N]
  BY <1>4, TotalSums
<1>6. h[N] = g[N]
  BY <1>1
<1>7. Total(t) = g[N + 1]
  BY <1>1, <1>2, TotalSums
<1>8. g[N + 1] = g[N] + x
  <2> DEFINE k == N + 1
  <2>1. k \in 1 .. N + 1 /\ k - 1 = N
    BY <1>1
  <2> HIDE DEF k
  <2>2. g[k] = g[k - 1] + t[k]
    BY <1>3, <2>1
  <2>3. t[k] = x
    BY <1>1 DEF k
  <2>4. QED
    BY <2>1, <2>2, <2>3 DEF k
<1>9. QED
  BY <1>5, <1>6, <1>7, <1>8 DEF t

\* Two sums differ as much as the only numbers in which they differ.
LEMMA TotalChange ==
    ASSUME NEW s \in Seq(Nat), NEW t \in Seq(Nat), Len(s) = Len(t), NEW j \in 1 .. Len(s), NEW c \in Nat,
           t[j] = s[j] + c, \A n \in 1 .. Len(s) : n # j => t[n] = s[n]
    PROVE  Total(t) = Total(s) + c
<1> DEFINE N == Len(s)
<1>1. N \in Nat /\ Len(t) = N /\ \A n \in 1 .. N : s[n] \in Nat
  OBVIOUS
<1>2. PICK g : Sums(g, s)
  BY SumsExist
<1>3. PICK h : Sums(h, t)
  BY SumsExist
<1>4. g \in [0 .. N -> Nat] /\ g[0] = 0 /\ \A n \in 1 .. N : g[n] = g[n - 1] + s[n]
  BY <1>2 DEF Sums
<1>5. h \in [0 .. N -> Nat] /\ h[0] = 0 /\ \A n \in 1 .. N : h[n] = h[n - 1] + t[n]
  BY <1>1, <1>3 DEF Sums
<1> HIDE DEF N
<1>6. j \in 1 .. N /\ j \in Nat /\ 0 < j /\ j <= N
  BY <1>1 DEF N
<1> DEFINE Q(n) == h[n] = g[n] + (IF j <= n THEN c ELSE 0)
           T == {n \in Nat : n <= N => Q(n)}
<1>7. 0 \in T
  BY <1>4, <1>5, <1>6
<1>8. ASSUME NEW n \in Nat, n \in T, n + 1 <= N PROVE Q(n + 1)
  <2> DEFINE k == n + 1
  <2>1. k \in 1 .. N /\ k - 1 = n /\ n <= N /\ n \in 0 .. N
    BY <1>1, <1>8
  <2>2. h[n] = g[n] + (IF j <= n THEN c ELSE 0)
    BY <1>8, <2>1
  <2>3. g[n] \in Nat /\ h[n] \in Nat /\ s[k] \in Nat
    BY <1>1, <1>4, <1>5, <2>1
  <2> HIDE DEF k
  <2>4. g[k] = g[n] + s[k] /\ h[k] = h[n] + t[k]
    BY <1>4, <1>5, <2>1
  <2>5. t[k] = s[k] + (IF j = k THEN c ELSE 0)
    <3>1. CASE j = k
      BY <3>1
    <3>2. CASE j # k
      <4>1. t[k] = s[k]
        BY <2>1, <3>2 DEF N
      <4>2. QED
        BY <2>3, <3>2, <4>1
    <3>3. QED
      BY <3>1, <3>2
  <2>6. h[k] = g[k] + (IF j <= k THEN c ELSE 0)
    <3>1. CASE j <= n
      <4>1. j # k /\ j <= k
        BY <1>6, <2>1, <3>1
      <4>2. h[n] = g[n] + c /\ t[k] = s[k]
        BY <2>2, <2>3, <2>5, <3>1, <4>1
      <4>3. (g[n] + c) + s[k] = (g[n] + s[k]) + c
        <5>1. \A x1, x2, x3 \in Nat : (x1 + x3) + x2 = (x1 + x2) + x3
          BY ONLY SMT
        <5>2. QED
          BY <2>3, <5>1, Zenon
      <4>4. h[k] = g[k] + c
        BY ONLY <2>4, <4>2, <4>3, Zenon
      <4>5. QED
        BY <4>1, <4>4
    <3>2. CASE j = k
      <4>1. ~(j <= n) /\ j <= k
        BY <1>6, <2>1, <3>2
      <4>2. h[n] = g[n] /\ t[k] = s[k] + c
        BY <2>2, <2>3, <2>5, <3>2, <4>1
      <4>3. \A x1, x2, x3 \in Nat : x1 + (x2 + x3) = (x1 + x2) + x3
        OBVIOUS
      <4>4. h[k] = g[k] + c
        BY <2>3, <2>4, <4>2, <4>3
      <4>5. QED
        BY <4>1, <4>4
    <3>3. CASE k < j
      <4>1. ~(j <= n) /\ ~(j <= k) /\ j # k
        BY <1>6, <2>1, <3>3
      <4>2. QED
        BY <2>2, <2>3, <2>4, <2>5, <4>1
    <3>4. QED
      BY <1>6, <2>1, <3>1, <3>2, <3>3
  <2>7. QED
    BY <2>6 DEF k
<1>9. Nat \subseteq T
  <2>1. ASSUME NEW n \in Nat, n \in T PROVE n + 1 \in T
    <3> HIDE DEF Q
    <3>1. QED
      BY <1>8, <2>1
  <2> HIDE DEF T
  <2>2. QED
    BY <1>7, <2>1, SetInduction, Zenon
<1>10. Q(N)
  <2> HIDE DEF Q
  <2>1. QED
    BY <1>1, <1>9
<1>11. Total(s) = g[N] /\ Total(t) = h[N]
  BY <1>1, <1>2, <1>3, TotalSums DEF N
<1>12. QED
  BY <1>6, <1>10, <1>11

\* A word s in one byte order, t in the other; u is the byte that is high in s.
Swapped(s, t, u) == 256 * s = t + u * Max16

\* So are sums of them.
LEMMA SwappedSum ==
    ASSUME NEW a \in Nat, NEW b \in Nat, NEW c \in Nat, NEW d \in Nat, NEW e \in Nat, NEW f \in Nat,
           Swapped(a, b, c), Swapped(d, e, f)
    PROVE  Swapped(a + d, b + e, c + f)
  BY SMT DEF Swapped, Max16

\* The sum of words in one byte order against the one in the other.
LEMMA TotalSwapped ==
    ASSUME NEW s \in Seq(Nat), NEW t \in Seq(Nat), NEW u \in Seq(Nat),
           Len(t) = Len(s), Len(u) = Len(s),
           \A n \in 1 .. Len(s) : Swapped(s[n], t[n], u[n])
    PROVE  /\ Total(s) \in Nat /\ Total(t) \in Nat /\ Total(u) \in Nat
           /\ Swapped(Total(s), Total(t), Total(u))
<1> DEFINE N == Len(s)
<1>1. N \in Nat /\ Len(t) = N /\ Len(u) = N
  OBVIOUS
<1>2. PICK g : Sums(g, s)
  BY SumsExist
<1>3. PICK h : Sums(h, t)
  BY SumsExist
<1>4. PICK k : Sums(k, u)
  BY SumsExist
<1>5. g \in [0 .. N -> Nat] /\ g[0] = 0 /\ \A n \in 1 .. N : g[n] = g[n - 1] + s[n] /\ s[n] \in Nat
  BY <1>2 DEF Sums
<1>6. h \in [0 .. N -> Nat] /\ h[0] = 0 /\ \A n \in 1 .. N : h[n] = h[n - 1] + t[n] /\ t[n] \in Nat
  BY <1>1, <1>3 DEF Sums
<1>7. k \in [0 .. N -> Nat] /\ k[0] = 0 /\ \A n \in 1 .. N : k[n] = k[n - 1] + u[n] /\ u[n] \in Nat
  <2>1. \A n \in 1 .. N : u[n] \in Nat
    BY <1>1
  <2>2. k \in [0 .. N -> Nat] /\ k[0] = 0 /\ \A n \in 1 .. N : k[n] = k[n - 1] + u[n]
    <3>1. k \in [0 .. Len(u) -> Nat] /\ k[0] = 0 /\ \A n \in 1 .. Len(u) : k[n] = k[n - 1] + u[n]
      BY <1>4 DEF Sums
    <3>2. QED
      BY <1>1, <3>1
  <2>3. QED
    BY <2>1, <2>2
<1>8. \A n \in 1 .. N : Swapped(s[n], t[n], u[n])
  OBVIOUS
<1>9. Total(s) = g[N] /\ Total(t) = h[N] /\ Total(u) = k[N] /\ Total(s) \in Nat /\ Total(t) \in Nat
      /\ Total(u) \in Nat
  BY <1>1, <1>2, <1>3, <1>4, TotalSums
<1> HIDE DEF N
<1> DEFINE T == {n \in Nat : n <= N => Swapped(g[n], h[n], k[n])}
<1>10. 0 \in T
  <2>1. Swapped(0, 0, 0)
    BY SMT DEF Swapped, Max16
  <2>2. QED
    BY <1>5, <1>6, <1>7, <2>1
<1>11. ASSUME NEW n \in Nat, n \in T PROVE n + 1 \in T
  <2> SUFFICES ASSUME n + 1 <= N PROVE Swapped(g[n + 1], h[n + 1], k[n + 1])
    OBVIOUS
  <2> DEFINE l == n + 1
  <2>1. l \in 1 .. N /\ l - 1 = n /\ n <= N /\ n \in 0 .. N
    BY <1>1
  <2>2. Swapped(g[n], h[n], k[n])
    BY <1>11, <2>1
  <2> HIDE DEF l
  <2>3. g[n] \in Nat /\ h[n] \in Nat /\ k[n] \in Nat
    BY <1>5, <1>6, <1>7, <2>1
  <2>4. s[l] \in Nat /\ t[l] \in Nat /\ u[l] \in Nat
    BY <1>5, <1>6, <1>7, <2>1
  <2>5. g[l] = g[n] + s[l] /\ h[l] = h[n] + t[l] /\ k[l] = k[n] + u[l]
    BY <1>5, <1>6, <1>7, <2>1
  <2>6. Swapped(g[n] + s[l], h[n] + t[l], k[n] + u[l])
    BY <1>8, <2>1, <2>2, <2>3, <2>4, SwappedSum
  <2>7. QED
    BY <2>5, <2>6 DEF l
<1>12. Nat \subseteq T
  <2> HIDE DEF T
  <2>1. QED
    BY <1>10, <1>11, SetInduction, Zenon
<1>13. Swapped(g[N], h[N], k[N])
  BY <1>1, <1>12
<1>14. QED
  BY <1>9, <1>13

\* A sum that fits stays, and one that does not is smaller with its carry added, but
\* differs by a multiple of 65535 only.
LEMMA CarriedIs ==
    ASSUME NEW m \in Nat, ~(m <= Max16)
    PROVE  /\ carried(m) \in Nat /\ carried(m) < m /\ 0 < carried(m)
           /\ \E b \in Nat : m = carried(m) + b * Max16
<1> DEFINE a == m % 65536
           b == m \div 65536
<1>1. a \in Nat /\ b \in Nat /\ m = 65536 * b + a
  BY SMT
<1>2. carried(m) = a + b
  BY SMT DEF carried
<1>3. m > 65535
  BY SMT DEF Max16
<1> HIDE DEF a, b
<1>4. a < 65536
  BY SMT DEF a
<1>5. 0 < b
  BY <1>1, <1>3, <1>4, SMT
<1>6. a + b \in Nat /\ a + b < m /\ 0 < a + b
  BY <1>1, <1>5, SMT
<1>7. m = (a + b) + b * 65535
  BY <1>1, SMT
<1>8. m = (a + b) + b * Max16
  BY <1>7, SMT DEF Max16
<1>9. QED
  BY <1>1, <1>2, <1>6, <1>8

\* The remainder of a number that is larger by a multiple.
LEMMA SameRemainder ==
    ASSUME NEW x \in Nat, NEW y \in Nat
    PROVE  (x + y * Max16) % Max16 = x % Max16
<1>1. \A u, v \in Nat : (u + v * 65535) % 65535 = u % 65535
  BY SMT
<1>2. QED
  BY <1>1, SMT DEF Max16

\* What there is instead of 0 .. 65535.
LEMMA Max16Is == Max16 \in Nat /\ 1 < Max16 /\ \A x \in Nat : x < Max16 => x % Max16 = x
<1>1. Max16 \in Nat /\ 1 < Max16
  BY SMT DEF Max16
<1>2. \A x \in Nat : x < 65535 => x % 65535 = x
  BY SMT
<1>3. QED
  BY <1>1, <1>2, SMT DEF Max16

\* What the remainder of a sum is when 0 is only that of 0.
Root(m) == IF m = 0 THEN 0 ELSE ((m - 1) % Max16) + 1

\* It is the same with the carry added.
LEMMA RootCarried ==
    ASSUME NEW m \in Nat, ~(m <= Max16)
    PROVE  Root(m) = Root(carried(m))
<1> DEFINE k == carried(m)
<1>1. k \in Nat /\ 0 < k
  BY CarriedIs
<1>2. PICK b \in Nat : m = k + b * Max16
  BY CarriedIs
<1> HIDE DEF k
<1> DEFINE c == b * Max16
<1>3. c \in Nat
  BY Max16Is
<1> HIDE DEF c
<1>4. k - 1 \in Nat /\ m - 1 = (k - 1) + c /\ m # 0 /\ k # 0
  <2>1. m = k + c
    BY <1>2 DEF c
  <2>2. QED
    BY <1>1, <1>3, <2>1
<1>5. ((k - 1) + c) % Max16 = (k - 1) % Max16
  <2> DEFINE l == k - 1
  <2>1. l \in Nat
    BY <1>4
  <2> HIDE DEF l
  <2>2. (l + c) % Max16 = l % Max16
    BY <2>1, SameRemainder DEF c
  <2>3. QED
    BY <2>2 DEF l
<1>6. QED
  BY <1>4, <1>5 DEF Root, k

\* The fold of a sum, which stops because each turn makes it smaller.
LEMMA FoldedIs ==
    ASSUME NEW n \in Nat
    PROVE  /\ folded[n] \in Nat /\ folded[n] <= Max16
           /\ folded[n] = 0 <=> n = 0
           /\ \E q \in Nat : n = folded[n] + q * Max16
<1> DEFINE E(f) == f = [sum \in Nat |-> IF sum <= Max16 THEN sum ELSE f[carried(sum)]]
           w == [sum \in Nat |-> Root(sum)]
<1>1. E(w)
  <2> SUFFICES ASSUME NEW m \in Nat
               PROVE  Root(m) = IF m <= Max16 THEN m ELSE w[carried(m)]
    OBVIOUS
  <2>1. CASE m <= Max16
    <3>1. CASE m = 0
      BY <2>1, <3>1 DEF Root
    <3>2. CASE m # 0
      <4>1. m - 1 \in Nat /\ m - 1 < Max16 /\ (m - 1) + 1 = m
        BY <2>1, <3>2, Max16Is
      <4>2. (m - 1) % Max16 = m - 1
        BY <4>1, Max16Is
      <4>3. QED
        BY <2>1, <3>2, <4>1, <4>2 DEF Root
    <3>3. QED
      BY <3>1, <3>2
  <2>2. CASE ~(m <= Max16)
    BY <2>2, CarriedIs, RootCarried
  <2>3. QED
    BY <2>1, <2>2
<1> HIDE DEF w
<1>2. E(folded)
  <2>1. folded = CHOOSE f : E(f)
    BY DEF folded
  <2> HIDE DEF E
  <2>2. QED
    BY <1>1, <2>1
<1>3. \A m \in Nat : /\ m <= Max16 => folded[m] = m
                     /\ ~(m <= Max16) => folded[m] = folded[carried(m)]
  BY <1>2
<1> DEFINE Good(m) == /\ folded[m] \in Nat /\ folded[m] <= Max16
                      /\ folded[m] = 0 <=> m = 0
                      /\ \E q \in Nat : m = folded[m] + q * Max16
           B == {m \in Nat : ~Good(m)}
<1>4. ASSUME B # {} PROVE FALSE
  <2>1. PICK m \in B : \A y \in B : m <= y
    BY <1>4, LeastNat
  <2>2. m \in Nat /\ ~Good(m)
    OBVIOUS
  <2>3. CASE m <= Max16
    <3>1. folded[m] = m
      BY <1>3, <2>2, <2>3
    <3>2. 0 \in Nat /\ m = m + 0 * Max16
      BY <2>2, Max16Is
    <3>3. QED
      BY <2>2, <2>3, <3>1, <3>2
  <2>4. CASE ~(m <= Max16)
    <3> DEFINE k == carried(m)
    <3>1. k \in Nat /\ k < m /\ 0 < k
      BY <2>2, <2>4, CarriedIs
    <3>2. PICK b \in Nat : m = k + b * Max16
      BY <2>2, <2>4, CarriedIs
    <3>3. folded[m] = folded[k]
      BY <1>3, <2>2, <2>4
    <3> HIDE DEF k
    <3>4. k \notin B
      BY <2>1, <3>1
    <3>5. Good(k)
      <4> HIDE DEF Good
      <4>1. QED
        BY <3>1, <3>4
    <3>6. PICK q \in Nat : k = folded[k] + q * Max16
      BY <3>5
    <3>7. folded[k] \in Nat /\ folded[k] <= Max16 /\ (folded[k] = 0 <=> k = 0)
      BY <3>5
    <3>8. q + b \in Nat /\ m = folded[k] + (q + b) * Max16
      BY <3>2, <3>6, <3>7, Max16Is
    <3>9. m # 0 /\ k # 0
      BY <2>2, <3>1
    <3>10. Good(m)
      BY <3>3, <3>7, <3>8, <3>9
    <3>11. QED
      BY <2>2, <3>10
  <2>5. QED
    BY <2>3, <2>4
<1>5. Good(n)
  <2> HIDE DEF Good
  <2>1. QED
    BY <1>4
<1>6. QED
  BY <1>5

-----------------------------------------------------------------------------
(* Checksums *)

\* What a byte is.
LEMMA ByteIs == \A x : x \in Byte <=> x \in Nat /\ x < 256
<1>1. \A x : x \in Byte <=> x \in 0 .. 255
  BY DEF Byte
<1>2. ASSUME NEW x PROVE x \in 0 .. 255 <=> x \in Nat /\ x < 256
  BY SMT
<1>3. QED
  BY <1>1, <1>2

\* A sequence of two bytes.
LEMMA PairIs ==
    ASSUME NEW a \in Byte, NEW b \in Byte
    PROVE  /\ <<a, b>> \in Seq(Byte) /\ Len(<<a, b>>) = 2 /\ <<a, b>>[1] = a /\ <<a, b>>[2] = b
           /\ Reverse(<<a, b>>) = <<b, a>>
<1>1. <<a, b>> \in Seq(Byte) /\ Len(<<a, b>>) = 2 /\ <<a, b>>[1] = a /\ <<a, b>>[2] = b
  OBVIOUS
<1>2. <<b, a>> \in Seq(Byte) /\ Len(<<b, a>>) = 2 /\ <<b, a>>[1] = b /\ <<b, a>>[2] = a
  OBVIOUS
<1> DEFINE p == <<a, b>>
           q == <<b, a>>
           r == Reverse(p)
<1>3. r = [i \in 1 .. Len(p) |-> p[(Len(p) - i) + 1]]
  BY DEF Reverse
<1> HIDE DEF p, q, r
<1>4. p \in Seq(Byte) /\ Len(p) = 2 /\ p[1] = a /\ p[2] = b /\ q \in Seq(Byte) /\ Len(q) = 2
      /\ q[1] = b /\ q[2] = a
  BY <1>1, <1>2 DEF p, q
<1>5. r = [i \in 1 .. 2 |-> p[(2 - i) + 1]]
  BY <1>3, <1>4
<1>6. r[1] = b /\ r[2] = a
  BY <1>4, <1>5
<1>7. r \in [1 .. 2 -> Byte]
  BY <1>4, <1>5
<1>8. r \in Seq(Byte)
  BY <1>7, FunctionIsSeq
<1>9. Len(r) = 2
  BY <1>7, <1>8
<1>10. \A i \in 1 .. 2 : r[i] = q[i]
  BY <1>4, <1>6
<1>11. r = q
  BY <1>4, <1>8, <1>9, <1>10, SameElements
<1>12. QED
  BY <1>1, <1>11 DEF r, p, q

\* The digits of a number of 16 bits.
LEMMA DigitsIs ==
    ASSUME NEW n \in Nat, n <= Max16
    PROVE  /\ n \div 256 \in Byte /\ n % 256 \in Byte /\ n = (n % 256) + 256 * (n \div 256)
           /\ Digits(n) \in Seq(Byte) /\ Len(Digits(n)) = 2 /\ Digits(n) \in Number_t(2)
           /\ Digits(n)[1] = n \div 256 /\ Digits(n)[2] = n % 256
           /\ Number(Digits(n)) = n /\ Reverse(Digits(n)) = <<n % 256, n \div 256>>
<1> DEFINE a == n \div 256
           b == n % 256
<1>1. a \in Nat /\ a < 256 /\ b \in Nat /\ b < 256 /\ n = b + 256 * a /\ a * 256 + b = n
  BY SMT DEF Max16
<1> HIDE DEF a, b
<1>2. a \in Byte /\ b \in Byte
  BY <1>1, ByteIs
<1>3. Digits(n) = <<a, b>>
  BY DEF Digits, a, b
<1>4. /\ <<a, b>> \in Seq(Byte) /\ Len(<<a, b>>) = 2 /\ <<a, b>>[1] = a /\ <<a, b>>[2] = b
      /\ Reverse(<<a, b>>) = <<b, a>>
  BY <1>2, PairIs
<1> DEFINE d == <<a, b>>
<1> HIDE DEF d
<1>5. d \in Seq(Byte) /\ Len(d) = 2 /\ d[1] = a /\ d[2] = b /\ Reverse(d) = <<b, a>> /\ Digits(n) = d
  BY <1>3, <1>4 DEF d
<1>6. d \in Number_t(2)
  BY <1>5, NumberOf
<1>7. Number(d) = n
  BY <1>1, <1>5 DEF Number
<1>8. QED
  BY <1>1, <1>2, <1>5, <1>6, <1>7 DEF a, b

\* The byte at a position, or 0 behind the end.
ByteAt(buf, i) == IF i \in DOMAIN buf THEN buf[i] ELSE 0

\* How many words there are, the words in the order of the host and in that of the
\* network, and their bytes.
Half(buf) == (Len(buf) + 1) \div 2
Little(buf) == [n \in 1 .. Half(buf) |-> ByteAt(buf, 2 * n - 1) + 256 * ByteAt(buf, 2 * n)]
Big(buf) == [n \in 1 .. Half(buf) |-> 256 * ByteAt(buf, 2 * n - 1) + ByteAt(buf, 2 * n)]
Even(buf) == [n \in 1 .. Half(buf) |-> ByteAt(buf, 2 * n)]
Odd(buf) == [n \in 1 .. Half(buf) |-> ByteAt(buf, 2 * n - 1)]

\* They are sequences of numbers.
LEMMA WordSeqs ==
    ASSUME NEW buf \in Seq(Byte)
    PROVE  /\ Half(buf) \in Nat
           /\ \A i \in Nat : ByteAt(buf, i) \in Nat
           /\ Little(buf) \in Seq(Nat) /\ Len(Little(buf)) = Half(buf)
           /\ Big(buf) \in Seq(Nat) /\ Len(Big(buf)) = Half(buf)
           /\ Even(buf) \in Seq(Nat) /\ Len(Even(buf)) = Half(buf)
           /\ Odd(buf) \in Seq(Nat) /\ Len(Odd(buf)) = Half(buf)
<1>1. Len(buf) \in Nat /\ \A i \in DOMAIN buf : buf[i] \in Byte
  OBVIOUS
<1>2. Half(buf) \in Nat
  BY <1>1 DEF Half
<1>3. \A i : ByteAt(buf, i) \in Nat
  BY <1>1, ByteIs DEF ByteAt
<1>4. /\ Little(buf) \in [1 .. Half(buf) -> Nat] /\ Big(buf) \in [1 .. Half(buf) -> Nat]
      /\ Even(buf) \in [1 .. Half(buf) -> Nat] /\ Odd(buf) \in [1 .. Half(buf) -> Nat]
  <2>1. \A x, y \in Nat : x + 256 * y \in Nat /\ 256 * x + y \in Nat
    BY SMT
  <2> HIDE DEF Half, ByteAt
  <2>2. Little(buf) \in [1 .. Half(buf) -> Nat]
    BY <1>3, <2>1 DEF Little
  <2>3. Big(buf) \in [1 .. Half(buf) -> Nat]
    BY <1>3, <2>1 DEF Big
  <2>4. Even(buf) \in [1 .. Half(buf) -> Nat] /\ Odd(buf) \in [1 .. Half(buf) -> Nat]
    BY <1>3 DEF Even, Odd
  <2>5. QED
    BY <2>2, <2>3, <2>4
<1>5. \A f \in [1 .. Half(buf) -> Nat] : f \in Seq(Nat) /\ Len(f) = Half(buf)
  BY <1>2
<1>6. QED
  BY <1>2, <1>3, <1>4, <1>5

\* The sum that the code takes is that of the words in the order of the host.
LEMMA HostSum ==
    ASSUME NEW buf \in Seq(Byte)
    PROVE  sum_every_16bits(buf) = Total(Little(buf))
<1> DEFINE N == Len(buf)
           H == N \div 2
           s == [n \in 1 .. H |-> buf[2 * n - 1] + 256 * buf[2 * n]]
           t == Little(buf)
<1>1. N \in Nat /\ DOMAIN buf = 1 .. N /\ \A i \in 1 .. N : buf[i] \in Byte /\ buf[i] \in Nat
  BY ByteIs
<1>2. sum_every_16bits(buf) = Total(s) + (IF N % 2 = 1 THEN buf[N] ELSE 0)
  BY DEF sum_every_16bits
<1> HIDE DEF N
<1>3. H \in Nat /\ (N % 2 = 1 => N = 2 * H + 1 /\ (N + 1) \div 2 = H + 1)
      /\ (N % 2 # 1 => N = 2 * H /\ (N + 1) \div 2 = H)
  BY <1>1
<1>4. t \in Seq(Nat) /\ Len(t) = Half(buf) /\ Half(buf) = (N + 1) \div 2
  BY WordSeqs DEF Half, N
<1>5. \A n \in 1 .. Half(buf) : t[n] = ByteAt(buf, 2 * n - 1) + 256 * ByteAt(buf, 2 * n)
  BY DEF Little
<1> HIDE DEF H, t
<1>6. ASSUME NEW n \in 1 .. H
      PROVE  /\ 2 * n - 1 \in 1 .. N /\ 2 * n \in 1 .. N /\ n \in 1 .. Half(buf)
             /\ t[n] = buf[2 * n - 1] + 256 * buf[2 * n]
             /\ buf[2 * n - 1] + 256 * buf[2 * n] \in Nat
  <2>1. 2 * n - 1 \in 1 .. N /\ 2 * n \in 1 .. N /\ n \in 1 .. Half(buf)
    BY <1>1, <1>3, <1>4
  <2>2. ByteAt(buf, 2 * n - 1) = buf[2 * n - 1] /\ ByteAt(buf, 2 * n) = buf[2 * n]
    BY <1>1, <2>1 DEF ByteAt
  <2>3. buf[2 * n - 1] \in Nat /\ buf[2 * n] \in Nat
    BY <1>1, <2>1
  <2>4. \A x, y \in Nat : x + 256 * y \in Nat
    BY SMT
  <2>5. QED
    BY <1>5, <2>1, <2>2, <2>3, <2>4
<1>7. s \in Seq(Nat) /\ Len(s) = H /\ \A n \in 1 .. H : s[n] = t[n]
  <2>1. s \in [1 .. H -> Nat]
    BY <1>6
  <2>2. s \in Seq(Nat)
    BY <1>3, <2>1, FunctionIsSeq
  <2>3. Len(s) = H
    BY <1>3, <2>1, <2>2
  <2>4. \A n \in 1 .. H : s[n] = t[n]
    BY <1>6
  <2>5. QED
    BY <2>2, <2>3, <2>4
<1> HIDE DEF s
<1>8. CASE N % 2 # 1
  <2>1. Len(t) = Len(s)
    BY <1>3, <1>4, <1>7, <1>8
  <2>2. s = t
    BY <1>4, <1>7, <2>1, SameElements
  <2>3. Total(s) \in Nat
    BY <1>7, SumsExist, TotalSums
  <2>4. QED
    BY <1>2, <1>8, <2>2, <2>3 DEF t
<1>9. CASE N % 2 = 1
  <2>1. H + 1 = Half(buf) /\ 2 * (H + 1) - 1 = N /\ 2 * (H + 1) \notin 1 .. N /\ N \in 1 .. N
        /\ H + 1 \in 1 .. Half(buf)
    BY <1>1, <1>3, <1>4, <1>9
  <2>2. ByteAt(buf, 2 * (H + 1) - 1) = buf[N] /\ ByteAt(buf, 2 * (H + 1)) = 0 /\ buf[N] \in Nat
    BY <1>1, <2>1 DEF ByteAt
  <2>3. t[H + 1] = buf[N]
    BY <1>5, <2>1, <2>2
  <2> DEFINE u == Append(s, buf[N])
  <2>4. u \in Seq(Nat) /\ Len(u) = H + 1 /\ u[H + 1] = buf[N] /\ \A n \in 1 .. H : u[n] = s[n]
    BY <1>7, <2>2
  <2>5. Total(u) = Total(s) + buf[N]
    BY <1>7, <2>2, TotalAppend
  <2> HIDE DEF u
  <2>6. Len(u) = Len(t) /\ \A n \in 1 .. Len(u) : u[n] = t[n]
    <3>1. Len(u) = Len(t)
      BY <1>4, <2>1, <2>4
    <3>2. ASSUME NEW n \in 1 .. Len(u), n # H + 1 PROVE n \in 1 .. H
      BY <1>3, <2>4, <3>2
    <3>3. ASSUME NEW n \in 1 .. Len(u) PROVE u[n] = t[n]
      <4>1. CASE n = H + 1
        BY <2>3, <2>4, <4>1
      <4>2. CASE n # H + 1
        BY <1>7, <2>4, <3>2, <4>2
      <4>3. QED
        BY <4>1, <4>2
    <3>4. QED
      BY <3>1, <3>3
  <2>7. u = t
    BY <1>4, <2>4, <2>6, SameElements
  <2>8. QED
    BY <1>2, <1>9, <2>5, <2>7 DEF t
<1>10. QED
  BY <1>8, <1>9

\* The bytes of a word in one order and in the other.
LEMMA WordsSwapped ==
    ASSUME NEW buf \in Seq(Byte)
    PROVE  /\ Total(Little(buf)) \in Nat /\ Total(Big(buf)) \in Nat
           /\ Total(Even(buf)) \in Nat /\ Total(Odd(buf)) \in Nat
           /\ Swapped(Total(Little(buf)), Total(Big(buf)), Total(Even(buf)))
           /\ Swapped(Total(Big(buf)), Total(Little(buf)), Total(Odd(buf)))
<1>1. /\ Half(buf) \in Nat /\ \A i \in Nat : ByteAt(buf, i) \in Nat
      /\ Little(buf) \in Seq(Nat) /\ Len(Little(buf)) = Half(buf)
      /\ Big(buf) \in Seq(Nat) /\ Len(Big(buf)) = Half(buf)
      /\ Even(buf) \in Seq(Nat) /\ Len(Even(buf)) = Half(buf)
      /\ Odd(buf) \in Seq(Nat) /\ Len(Odd(buf)) = Half(buf)
  BY WordSeqs
<1> DEFINE low(x, y) == x + 256 * y
           high(x, y) == 256 * x + y
<1>2. \A x, y \in Nat : Swapped(low(x, y), high(x, y), y) /\ Swapped(high(x, y), low(x, y), x)
  BY SMT DEF Swapped, Max16
<1>3. ASSUME NEW n \in 1 .. Half(buf)
      PROVE  Swapped(Little(buf)[n], Big(buf)[n], Even(buf)[n])
             /\ Swapped(Big(buf)[n], Little(buf)[n], Odd(buf)[n])
  <2> DEFINE x == ByteAt(buf, 2 * n - 1)
             y == ByteAt(buf, 2 * n)
  <2>1. x \in Nat /\ y \in Nat
    <3>1. 2 * n - 1 \in Nat /\ 2 * n \in Nat
      BY <1>1
    <3>2. QED
      BY <1>1, <3>1
  <2>2. Little(buf)[n] = low(x, y) /\ Big(buf)[n] = high(x, y) /\ Even(buf)[n] = y /\ Odd(buf)[n] = x
    BY DEF Little, Big, Even, Odd
  <2> HIDE DEF x, y, low, high
  <2>3. QED
    BY <1>2, <2>1, <2>2, Zenon
<1> DEFINE l == Little(buf)
           b == Big(buf)
           e == Even(buf)
           o == Odd(buf)
<1>4. /\ l \in Seq(Nat) /\ b \in Seq(Nat) /\ e \in Seq(Nat) /\ o \in Seq(Nat)
      /\ Len(b) = Len(l) /\ Len(e) = Len(l) /\ Len(l) = Len(b) /\ Len(o) = Len(b)
      /\ \A n \in 1 .. Len(l) : Swapped(l[n], b[n], e[n])
      /\ \A n \in 1 .. Len(b) : Swapped(b[n], l[n], o[n])
  BY <1>1, <1>3
<1> HIDE DEF l, b, e, o
<1>5. Total(l) \in Nat /\ Total(b) \in Nat /\ Total(e) \in Nat /\ Swapped(Total(l), Total(b), Total(e))
  BY <1>4, TotalSwapped
<1>6. Total(o) \in Nat /\ Swapped(Total(b), Total(l), Total(o))
  BY <1>4, TotalSwapped
<1>7. QED
  BY <1>5, <1>6 DEF l, b, e, o

\* A multiple of 65535 in one byte order is one in the other.
LEMMA MultipleSwapped ==
    ASSUME NEW l \in Nat, NEW b \in Nat, NEW e \in Nat, NEW o \in Nat, NEW q \in Nat,
           Swapped(l, b, e), Swapped(b, l, o), l = (q + 1) * Max16
    PROVE  b > 0 /\ b % Max16 = 0
<1> DEFINE M == Max16
<1>1. M \in Nat /\ 1 < M
  BY Max16Is
<1>2. 256 * l = b + e * M /\ 256 * b = l + o * M /\ l = (q + 1) * M
  BY DEF Swapped
<1> HIDE DEF M
<1>3. l > 0 /\ o * M \in Nat
  <2>1. q + 1 \in Nat /\ q + 1 > 0 /\ (q + 1) * M > 0
    BY <1>1
  <2>2. QED
    <3>1. \A x, y \in Nat : x * y \in Nat
      OBVIOUS
    <3>2. QED
      BY <1>1, <1>2, <2>1, <3>1
<1>4. b > 0
  BY <1>2, <1>3
<1>5. b = (256 * (q + 1) - e) * M
  BY <1>1, <1>2
<1>6. \A z \in Int : 0 + z * M = z * M
  BY <1>1
<1>7. 256 * (q + 1) - e \in Nat
  <2> DEFINE z == 256 * (q + 1) - e
  <2>1. z \in Int /\ b = z * M
    BY <1>5
  <2> HIDE DEF z
  <2>2. CASE z < 0
    <3>1. z * M < 0
      BY <1>1, <2>1, <2>2
    <3>2. QED
      BY <1>4, <2>1, <3>1
  <2>3. QED
    BY <2>1, <2>2 DEF z
<1> DEFINE z == 256 * (q + 1) - e
<1>8. z \in Nat /\ b = 0 + z * M
  BY <1>1, <1>5, <1>7
<1> HIDE DEF z
<1>9. (0 + z * M) % M = 0 % M
  BY <1>8, SameRemainder DEF M
<1>10. 0 % M = 0
  BY <1>1, Max16Is DEF M
<1>11. QED
  BY <1>4, <1>8, <1>9, <1>10 DEF M

\* A word that was 0 makes the difference.
LEMMA LittlePatched ==
    ASSUME NEW buf \in Seq(Byte), NEW k \in Nat, k % 2 = 0, k + 2 <= Len(buf),
           buf[k + 1] = 0, buf[k + 2] = 0, NEW x \in Byte, NEW y \in Byte
    PROVE  /\ Patch(buf, k, <<x, y>>) \in Seq(Byte)
           /\ Total(Little(Patch(buf, k, <<x, y>>))) = Total(Little(buf)) + (x + 256 * y)
<1> DEFINE c == <<x, y>>
           r == Patch(buf, k, c)
           j == (k \div 2) + 1
           s == Little(buf)
           t == Little(r)
           N == Len(buf)
<1>1. c \in Seq(Byte) /\ Len(c) = 2 /\ c[1] = x /\ c[2] = y
  BY PairIs
<1>2. N \in Nat /\ DOMAIN buf = 1 .. N /\ x \in Nat /\ y \in Nat /\ \A i \in 1 .. N : buf[i] \in Nat
  BY ByteIs
<1> HIDE DEF c
<1>3. /\ r \in Seq(Byte) /\ Len(r) = N
      /\ \A i \in 1 .. N : r[i] = IF k < i /\ i <= k + Len(c) THEN c[i - k] ELSE buf[i]
  <2>1. PatchFits(Byte, buf, k, c)
    BY <1>1 DEF PatchFits
  <2>2. IsPatchOf(Byte, buf, k, c, r)
    BY <2>1, PatchOf
  <2> HIDE DEF r
  <2>3. QED
    BY <2>2 DEF IsPatchOf
<1> HIDE DEF r, N
<1>4. DOMAIN r = 1 .. N
  BY <1>3
<1>5. r[k + 1] = x /\ r[k + 2] = y
  <2>1. k + 1 \in 1 .. N /\ k + 2 \in 1 .. N /\ k + 1 - k = 1 /\ k + 2 - k = 2
    BY <1>2 DEF N
  <2>2. QED
    BY <1>1, <1>3, <2>1
<1>6. ASSUME NEW i \in Nat, i # k + 1, i # k + 2 PROVE ByteAt(r, i) = ByteAt(buf, i)
  <2>1. ~(k < i /\ i <= k + Len(c))
    BY <1>1, <1>6
  <2>2. QED
    BY <1>2, <1>3, <1>4, <2>1 DEF ByteAt
<1>7. ByteAt(r, k + 1) = x /\ ByteAt(r, k + 2) = y /\ ByteAt(buf, k + 1) = 0 /\ ByteAt(buf, k + 2) = 0
  <2>1. k + 1 \in 1 .. N /\ k + 2 \in 1 .. N
    BY <1>2 DEF N
  <2>2. QED
    BY <1>2, <1>4, <1>5, <2>1 DEF ByteAt
<1>8. /\ Half(buf) \in Nat /\ Half(r) = Half(buf) /\ s \in Seq(Nat) /\ Len(s) = Half(buf)
      /\ t \in Seq(Nat) /\ Len(t) = Half(buf)
  <2>1. Half(r) = Half(buf)
    BY <1>3 DEF Half, N
  <2>2. QED
    BY <1>3, <2>1, WordSeqs
<1>9. j \in 1 .. Half(buf) /\ 2 * j - 1 = k + 1 /\ 2 * j = k + 2
  BY <1>2 DEF Half, N
<1>10. \A n \in 1 .. Half(buf) : /\ s[n] = ByteAt(buf, 2 * n - 1) + 256 * ByteAt(buf, 2 * n)
                                 /\ t[n] = ByteAt(r, 2 * n - 1) + 256 * ByteAt(r, 2 * n)
  BY <1>8 DEF Little
<1> HIDE DEF s, t, j
<1>11. t[j] = s[j] + (x + 256 * y)
  <2>1. s[j] = 0 + 256 * 0 /\ t[j] = x + 256 * y
    <3>1. /\ s[j] = ByteAt(buf, 2 * j - 1) + 256 * ByteAt(buf, 2 * j)
          /\ t[j] = ByteAt(r, 2 * j - 1) + 256 * ByteAt(r, 2 * j)
      BY <1>9, <1>10
    <3>2. /\ s[j] = ByteAt(buf, k + 1) + 256 * ByteAt(buf, k + 2)
          /\ t[j] = ByteAt(r, k + 1) + 256 * ByteAt(r, k + 2)
      BY <1>9, <3>1
    <3>3. QED
      BY <1>7, <3>2
  <2>2. QED
    BY <1>2, <2>1
<1>12. ASSUME NEW n \in 1 .. Half(buf), n # j PROVE t[n] = s[n]
  <2>1. /\ 2 * n - 1 \in Nat /\ 2 * n \in Nat /\ 2 * n - 1 # k + 1 /\ 2 * n - 1 # k + 2
        /\ 2 * n # k + 1 /\ 2 * n # k + 2
    <3>1. \A a, b, d \in Nat : 1 <= a /\ a # b /\ 2 * b = d + 2 =>
            /\ 2 * a - 1 \in Nat /\ 2 * a \in Nat /\ 2 * a - 1 # d + 1 /\ 2 * a - 1 # d + 2
            /\ 2 * a # d + 1 /\ 2 * a # d + 2
      BY ONLY SMT
    <3>2. n \in Nat /\ 1 <= n /\ j \in Nat
      BY <1>8, <1>9
    <3>3. QED
      BY <1>9, <1>12, <3>1, <3>2
  <2>2. ByteAt(r, 2 * n - 1) = ByteAt(buf, 2 * n - 1) /\ ByteAt(r, 2 * n) = ByteAt(buf, 2 * n)
    BY <1>6, <2>1
  <2>3. QED
    BY <1>10, <2>2
<1> DEFINE d == x + 256 * y
<1>13. /\ s \in Seq(Nat) /\ t \in Seq(Nat) /\ Len(s) = Len(t) /\ j \in 1 .. Len(s) /\ d \in Nat
       /\ t[j] = s[j] + d /\ \A n \in 1 .. Len(s) : n # j => t[n] = s[n]
  BY <1>2, <1>8, <1>9, <1>11, <1>12
<1> HIDE DEF d
<1>14. Total(t) = Total(s) + d
  BY <1>13, TotalChange
<1>15. QED
  BY <1>3, <1>14 DEF d, s, t, r, c

\* utils::checksum: with the checksum in the place that was 0, a receiver that
\* takes the words in network order finds that the sum is 0.
LEMMA ChecksumVerifies ==
    ASSUME NEW buf \in Seq(Byte), NEW k \in Nat, k % 2 = 0, k + 2 <= Len(buf),
           buf[k + 1] = 0, buf[k + 2] = 0
    PROVE  /\ checksum(buf) \in Seq(Byte) /\ Len(checksum(buf)) = 2
           /\ Verifies(Patch(buf, k, checksum(buf)))
<1> DEFINE L == Total(Little(buf))
           f == folded[L]
           w == Max16 - f
           x == w % 256
           y == w \div 256
           c == <<x, y>>
           r == Patch(buf, k, c)
<1>1. L \in Nat /\ sum_every_16bits(buf) = L
  BY WordsSwapped, HostSum
<1> HIDE DEF L
<1>2. f \in Nat /\ f <= Max16 /\ \E q \in Nat : L = f + q * Max16
  BY <1>1, FoldedIs
<1> HIDE DEF f
<1>3. PICK q \in Nat : L = f + q * Max16
  BY <1>2
<1>4. w \in Nat /\ w <= Max16
  BY <1>2, Max16Is
<1>5. checksum(buf) = Reverse(Digits(w))
  BY <1>1 DEF checksum, Memory, f
<1> HIDE DEF w
<1>6. x \in Byte /\ y \in Byte /\ w = x + 256 * y /\ Reverse(Digits(w)) = c
  BY <1>4, DigitsIs
<1> HIDE DEF x, y
<1>7. c \in Seq(Byte) /\ Len(c) = 2
  BY <1>6, PairIs
<1>8. r \in Seq(Byte) /\ Total(Little(r)) = L + (x + 256 * y)
  BY <1>6, LittlePatched DEF L
<1>9. checksum(buf) = c
  BY <1>5, <1>6
<1> HIDE DEF r, c
<1>10. Total(Little(r)) = (q + 1) * Max16
  <2> DEFINE M == Max16
  <2>1. M \in Nat /\ w = M - f /\ L = f + q * M
    BY <1>3, Max16Is DEF w
  <2> HIDE DEF M
  <2>2. L + w = (q + 1) * M
    BY <1>1, <1>2, <1>3, <2>1
  <2>3. QED
    BY <1>6, <1>8, <2>2 DEF M
<1>11. /\ Total(Little(r)) \in Nat /\ Total(Big(r)) \in Nat
       /\ Total(Even(r)) \in Nat /\ Total(Odd(r)) \in Nat
       /\ Swapped(Total(Little(r)), Total(Big(r)), Total(Even(r)))
       /\ Swapped(Total(Big(r)), Total(Little(r)), Total(Odd(r)))
  BY <1>8, WordsSwapped
<1>12. Total(Big(r)) > 0 /\ Total(Big(r)) % Max16 = 0
  BY <1>3, <1>10, <1>11, MultipleSwapped
<1>13. Words(r) = Total(Big(r))
  BY DEF Words, Big, Half, ByteAt
<1>14. Verifies(r)
  BY <1>12, <1>13 DEF Verifies
<1>15. QED
  BY <1>7, <1>9, <1>14 DEF r

-----------------------------------------------------------------------------
(* Headers *)

Flag == {"FIN", "SYN", "RST", "PSH", "ACK", "URG", "ECE", "CWR"}

\* The value of each flag.
LEMMA FlagBitIs ==
    /\ DOMAIN FlagBit = Flag
    /\ FlagBit["FIN"] = 1 /\ FlagBit["SYN"] = 2 /\ FlagBit["RST"] = 4 /\ FlagBit["PSH"] = 8
    /\ FlagBit["ACK"] = 16 /\ FlagBit["URG"] = 32 /\ FlagBit["ECE"] = 64 /\ FlagBit["CWR"] = 128
  BY DEF FlagBit, Flag

\* n is made of d and eight bits; d and eight bits are read from n.
Written(n, d, b1, b2, b3, b4, b5, b6, b7, b8) ==
    /\ d \in Nat /\ {b1, b2, b3, b4, b5, b6, b7, b8} \subseteq {0, 1}
    /\ n = d * 4096 + (b1 + 2 * b2 + 4 * b3 + 8 * b4 + 16 * b5 + 32 * b6 + 64 * b7 + 128 * b8)
ReadBack(n, d, b1, b2, b3, b4, b5, b6, b7, b8) ==
    /\ n \in Nat /\ n \div 4096 = d /\ n < d * 4096 + 256
    /\ (n \div 1) % 2 = b1 /\ (n \div 2) % 2 = b2 /\ (n \div 4) % 2 = b3 /\ (n \div 8) % 2 = b4
    /\ (n \div 16) % 2 = b5 /\ (n \div 32) % 2 = b6 /\ (n \div 64) % 2 = b7
    /\ (n \div 128) % 2 = b8

\* Bits are read back as they were written.
LEMMA BitsIs ==
    ASSUME NEW d, NEW b1, NEW b2, NEW b3, NEW b4, NEW b5, NEW b6, NEW b7, NEW b8, NEW n,
           Written(n, d, b1, b2, b3, b4, b5, b6, b7, b8)
    PROVE  ReadBack(n, d, b1, b2, b3, b4, b5, b6, b7, b8)
<1>1. /\ d \in Nat /\ b1 \in Nat /\ b2 \in Nat /\ b3 \in Nat /\ b4 \in Nat /\ b5 \in Nat /\ b6 \in Nat /\ b7 \in Nat /\ b8 \in Nat
      /\ b1 <= 1 /\ b2 <= 1 /\ b3 <= 1 /\ b4 <= 1 /\ b5 <= 1 /\ b6 <= 1 /\ b7 <= 1 /\ b8 <= 1
      /\ n = d * 4096 + (b1 + 2 * b2 + 4 * b3 + 8 * b4 + 16 * b5 + 32 * b6 + 64 * b7 + 128 * b8)
  BY DEF Written
<1>2. n \in Nat /\ n < d * 4096 + 256
  BY <1>1, SMT
<1>3. n \div 4096 = d
  BY <1>1, SMT
<1>4. (n \div 1) % 2 = b1
  BY <1>1, SMT
<1>5. (n \div 2) % 2 = b2
  BY <1>1, SMT
<1>6. (n \div 4) % 2 = b3
  BY <1>1, SMT
<1>7. (n \div 8) % 2 = b4
  <2> DEFINE lo == b1 + 2 * b2 + 4 * b3
             hi == b5 + 2 * b6 + 4 * b7 + 8 * b8 + 256 * d
  <2>1. lo \in Nat /\ lo < 8 /\ hi \in Nat /\ n = lo + 8 * b4 + 16 * hi
    BY <1>1, SMT
  <2> HIDE DEF lo, hi
  <2>2. n \div 8 = b4 + 2 * hi
    BY <1>1, <2>1, SMT
  <2>3. QED
    BY <1>1, <2>1, <2>2, SMT
<1>8. (n \div 16) % 2 = b5
  <2> DEFINE lo == b1 + 2 * b2 + 4 * b3 + 8 * b4
             hi == b6 + 2 * b7 + 4 * b8 + 128 * d
  <2>1. lo \in Nat /\ lo < 16 /\ hi \in Nat /\ n = lo + 16 * b5 + 32 * hi
    BY <1>1, SMT
  <2> HIDE DEF lo, hi
  <2>2. n \div 16 = b5 + 2 * hi
    BY <1>1, <2>1, SMT
  <2>3. QED
    BY <1>1, <2>1, <2>2, SMT
<1>9. (n \div 32) % 2 = b6
  <2> DEFINE lo == b1 + 2 * b2 + 4 * b3 + 8 * b4 + 16 * b5
             hi == b7 + 2 * b8 + 64 * d
  <2>1. lo \in Nat /\ lo < 32 /\ hi \in Nat /\ n = lo + 32 * b6 + 64 * hi
    BY <1>1, SMT
  <2> HIDE DEF lo, hi
  <2>2. n \div 32 = b6 + 2 * hi
    BY <1>1, <2>1, SMT
  <2>3. QED
    BY <1>1, <2>1, <2>2, SMT
<1>10. (n \div 64) % 2 = b7
  <2> DEFINE lo == b1 + 2 * b2 + 4 * b3 + 8 * b4 + 16 * b5 + 32 * b6
             hi == b8 + 32 * d
  <2>1. lo \in Nat /\ lo < 64 /\ hi \in Nat /\ n = lo + 64 * b7 + 128 * hi
    BY <1>1, SMT
  <2> HIDE DEF lo, hi
  <2>2. n \div 64 = b7 + 2 * hi
    BY <1>1, <2>1, SMT
  <2>3. QED
    BY <1>1, <2>1, <2>2, SMT
<1>11. (n \div 128) % 2 = b8
  <2> DEFINE lo == b1 + 2 * b2 + 4 * b3 + 8 * b4 + 16 * b5 + 32 * b6 + 64 * b7
             hi == 16 * d
  <2>1. lo \in Nat /\ lo < 128 /\ hi \in Nat /\ n = lo + 128 * b8 + 256 * hi
    BY <1>1, SMT
  <2> HIDE DEF lo, hi
  <2>2. n \div 128 = b8 + 2 * hi
    BY <1>1, <2>1, SMT
  <2>3. QED
    BY <1>1, <2>1, <2>2, SMT
<1>12. QED
  BY <1>2, <1>3, <1>4, <1>5, <1>6, <1>7, <1>8, <1>9, <1>10, <1>11 DEF ReadBack

\* The data offset and the flags are what is taken out of their bits.
LEMMA FlagsIs ==
    ASSUME NEW d \in Nat, d <= 15, NEW flags \in SUBSET Flag, NEW n, n = d * 4096 + flag_bits(flags)
    PROVE  /\ n \in Nat /\ n <= Max16 /\ n \div 4096 = d
           /\ {f \in DOMAIN FlagBit : (n \div FlagBit[f]) % 2 = 1} = flags
<1> DEFINE one(f) == IF f \in flags THEN 1 ELSE 0
<1>1. ASSUME NEW f PROVE one(f) \in {0, 1} /\ (one(f) = 1 <=> f \in flags)
  OBVIOUS
<1>2. flag_bits(flags) = one("FIN") + 2 * one("SYN") + 4 * one("RST") + 8 * one("PSH") + 16 * one("ACK")
                            + 32 * one("URG") + 64 * one("ECE") + 128 * one("CWR")
  BY FlagBitIs, SMT DEF flag_bits
<1> HIDE DEF one
<1>3. /\ n \in Nat /\ n \div 4096 = d /\ n < d * 4096 + 256
      /\ (n \div 1) % 2 = one("FIN") /\ (n \div 2) % 2 = one("SYN") /\ (n \div 4) % 2 = one("RST")
      /\ (n \div 8) % 2 = one("PSH") /\ (n \div 16) % 2 = one("ACK") /\ (n \div 32) % 2 = one("URG")
      /\ (n \div 64) % 2 = one("ECE") /\ (n \div 128) % 2 = one("CWR")
  <2> DEFINE b1 == one("FIN")
             b2 == one("SYN")
             b3 == one("RST")
             b4 == one("PSH")
             b5 == one("ACK")
             b6 == one("URG")
             b7 == one("ECE")
             b8 == one("CWR")
  <2>1. /\ b1 \in {0, 1} /\ b2 \in {0, 1} /\ b3 \in {0, 1} /\ b4 \in {0, 1}
        /\ b5 \in {0, 1} /\ b6 \in {0, 1} /\ b7 \in {0, 1} /\ b8 \in {0, 1}
    BY <1>1
  <2>2. Written(n, d, b1, b2, b3, b4, b5, b6, b7, b8)
    BY <1>2, <2>1 DEF Written
  <2> HIDE DEF b1, b2, b3, b4, b5, b6, b7, b8
  <2>3. ReadBack(n, d, b1, b2, b3, b4, b5, b6, b7, b8)
    BY <2>2, BitsIs
  <2>4. QED
    BY <2>3 DEF ReadBack, b1, b2, b3, b4, b5, b6, b7, b8
<1>4. n <= Max16
  BY <1>3, SMT DEF Max16
<1>5. ASSUME NEW f \in Flag PROVE (n \div FlagBit[f]) % 2 = one(f)
  BY <1>3, FlagBitIs DEF Flag
<1>6. {f \in Flag : (n \div FlagBit[f]) % 2 = 1} = flags
  BY <1>1, <1>5
<1>7. QED
  BY <1>3, <1>4, <1>6, FlagBitIs

-----------------------------------------------------------------------------
(* Options *)

\* The sizes of the options that are known.
LEMMA OptionSizeIs ==
    /\ DOMAIN OptionSize = {1, 2, 3, 4, 8}
    /\ OptionSize[1] = 1 /\ OptionSize[2] = 4 /\ OptionSize[3] = 3 /\ OptionSize[4] = 2 /\ OptionSize[8] = 10
    /\ \A t \in DOMAIN OptionSize : OptionSize[t] \in Nat /\ 0 < OptionSize[t]
<1>1. DOMAIN OptionSize = {1, 2, 3, 4, 8}
  BY DEF OptionSize, kNOP, kMSS, kWS, kSACK, kTSO
<1>2. OptionSize[1] = 1 /\ OptionSize[2] = 4 /\ OptionSize[3] = 3 /\ OptionSize[4] = 2 /\ OptionSize[8] = 10
  BY DEF OptionSize, kNOP, kMSS, kWS, kSACK, kTSO
<1>3. QED
  BY <1>1, <1>2

\* What the decoder makes of the options from position i on, if f says what it
\* makes of those from a later one on.
Decoded(f, buf, i) ==
    IF i > Len(buf) \/ buf[i] \notin DOMAIN OptionSize THEN [ok |-> TRUE, mss |-> <<>>, past |-> FALSE]
    ELSE LET n    == OptionSize[buf[i]]
             rest == f[i + n]
         IN  IF buf[i] = kNOP THEN rest
             ELSE IF i + n - 1 > Len(buf) \/ buf[i + 1] # n
             THEN [ok |-> FALSE, mss |-> <<>>, past |-> FALSE]
             ELSE [ok   |-> rest.ok,
                   mss  |-> IF buf[i] = kMSS /\ rest.mss = <<>>
                            THEN consume_from_net(SubSeq(buf, i + 2, i + 3)) ELSE rest.mss,
                   past |-> rest.past \/ (buf[i] = kWS /\ i + n > Len(buf))]
Decodes(f, buf) == f = [i \in Nat |-> Decoded(f, buf, i)]

\* Only later positions matter.
LEMMA DecodedLater ==
    ASSUME NEW buf, NEW f, NEW g, NEW i \in Nat, \A j \in Nat : i < j => f[j] = g[j]
    PROVE  Decoded(f, buf, i) = Decoded(g, buf, i)
<1>1. CASE i > Len(buf) \/ buf[i] \notin DOMAIN OptionSize
  BY <1>1, Zenon DEF Decoded
<1>2. CASE ~(i > Len(buf) \/ buf[i] \notin DOMAIN OptionSize)
  <2> DEFINE n == OptionSize[buf[i]]
  <2>1. n \in Nat /\ 0 < n
    BY <1>2, OptionSizeIs
  <2>2. i + n \in Nat /\ i < i + n
    BY <2>1
  <2>3. f[i + n] = g[i + n]
    BY <2>2
  <2>4. QED
    BY <1>2, <2>3, Zenon DEF Decoded
<1>3. QED
  BY <1>1, <1>2

\* There is such a function: the options are decoded from the last one on.
LEMMA DecodesExists ==
    ASSUME NEW buf \in Seq(Byte)
    PROVE  \E f : Decodes(f, buf)
<1> DEFINE N == Len(buf)
           D(f, i) == Decoded(f, buf, i)
           From(f, k) == f = [i \in Nat |-> f[i]] /\ \A i \in Nat : i + k > N => f[i] = D(f, i)
           T == {k \in Nat : \E f : From(f, k)}
<1>1. N \in Nat
  OBVIOUS
<1>10. \A x, y, z \in Int : x + (y + 1) > z => x + y = z \/ x + y > z
  OBVIOUS
<1>2. \A f, g : \A i \in Nat : (\A j \in Nat : i < j => f[j] = g[j]) => D(f, i) = D(g, i)
  BY DecodedLater
<1>3. 0 \in T
  <2> DEFINE f == [i \in Nat |-> [ok |-> TRUE, mss |-> <<>>, past |-> FALSE]]
  <2>1. f = [i \in Nat |-> f[i]]
    OBVIOUS
  <2>2. ASSUME NEW i \in Nat, i + 0 > N PROVE f[i] = D(f, i)
    <3>1. i > N
      BY <1>1, <2>2
    <3>2. QED
      BY <3>1 DEF Decoded
  <2>3. From(f, 0)
    BY <2>1, <2>2
  <2> HIDE DEF f, From
  <2>4. QED
    BY <2>3
<1>4. ASSUME NEW k \in T PROVE k + 1 \in T
  <2>1. k \in Nat /\ k \in Int /\ N \in Int
    BY <1>1, <1>4
  <2>2. PICK f : From(f, k)
    BY <1>4
  <2>3. f = [i \in Nat |-> f[i]] /\ \A i \in Nat : i + k > N => f[i] = D(f, i)
    BY <2>2
  <2> DEFINE g == [i \in Nat |-> IF i + k = N THEN D(f, i) ELSE f[i]]
  <2> HIDE DEF N, D
  <2>4. g = [i \in Nat |-> g[i]]
    OBVIOUS
  <2>5. \A i \in Nat : g[i] = IF i + k = N THEN D(f, i) ELSE f[i]
    OBVIOUS
  <2> HIDE DEF g
  <2>6. ASSUME NEW i \in Nat, i + (k + 1) > N PROVE g[i] = D(g, i)
    <3>1. i + k = N \/ i + k > N
      <4>1. i \in Int
        OBVIOUS
      <4>2. QED
        BY <1>10, <2>1, <2>6, <4>1, Zenon
    <3>2. ASSUME NEW j \in Nat, i < j PROVE f[j] = g[j]
      <4>1. j + k # N
        BY <1>1, <2>1, <3>1, <3>2
      <4>2. QED
        BY <2>5, <4>1
    <3>3. D(f, i) = D(g, i)
      BY <1>2, <3>2
    <3>4. g[i] = D(f, i)
      <4>1. CASE i + k = N
        BY <2>5, <4>1
      <4>2. CASE i + k > N
        <5>1. i + k # N
          BY <1>1, <2>1, <4>2
        <5>2. QED
          BY <2>3, <2>5, <4>2, <5>1
      <4>3. QED
        BY <3>1, <4>1, <4>2
    <3>5. QED
      BY <3>3, <3>4
  <2>7. From(g, k + 1) /\ k + 1 \in Nat
    BY <2>1, <2>4, <2>6
  <2> HIDE DEF From
  <2>8. QED
    BY <2>7
<1>5. Nat \subseteq T
  <2> HIDE DEF T
  <2>1. QED
    BY <1>3, <1>4, SetInduction, Zenon
<1>6. PICK f : From(f, N + 1)
  <2>1. N + 1 \in T
    BY <1>1, <1>5
  <2> HIDE DEF From
  <2>2. QED
    BY <2>1
<1>7. \A i \in Nat : f[i] = D(f, i)
  <2>1. \A i \in Nat : i + (N + 1) > N
    BY <1>1
  <2>2. QED
    BY <1>6, <2>1
<1>8. f = [i \in Nat |-> D(f, i)]
  <2>1. f = [i \in Nat |-> f[i]]
    BY <1>6
  <2> HIDE DEF D
  <2>2. [i \in Nat |-> f[i]] = [i \in Nat |-> D(f, i)]
    BY <1>7
  <2>3. QED
    BY <2>1, <2>2, Zenon
<1>9. QED
  BY <1>8 DEF Decodes

\* decode_options is one at the first position.
LEMMA DecodeFrom ==
    ASSUME NEW buf \in Seq(Byte)
    PROVE  \E f : Decodes(f, buf) /\ decode_options(buf) = f[1]
<1> DEFINE F == CHOOSE f : Decodes(f, buf)
<1>1. decode_options(buf) = F[1]
  BY DEF decode_options, Decodes, Decoded
<1>2. Decodes(F, buf)
  BY DecodesExists
<1>3. QED
  BY <1>1, <1>2

\* An MSS option begins at j, one of the positions S.
Found(buf, S, j) == j \in S /\ Known(buf, j) /\ buf[j] = kMSS

\* x is what the last MSS option from position i on says.
LastMss(x, buf, S, i) ==
    \/ x = <<>> /\ \A j : Found(buf, S, j) => j < i
    \/ \E j : /\ Found(buf, S, j) /\ i <= j /\ (\A l : Found(buf, S, l) => l <= j)
              /\ x = SubSeq(buf, j + 2, j + 3)

\* What an MSS option says is two bytes.
LEMMA MssIs ==
    ASSUME NEW buf \in Seq(Byte), NEW S, NEW m, LaidOut(buf, S, m), NEW j, Found(buf, S, j)
    PROVE  /\ j \in Nat /\ j + 3 <= Len(buf) /\ SubSeq(buf, j + 2, j + 3) \in Seq(Byte)
           /\ SubSeq(buf, j + 2, j + 3) # <<>>
<1>1. j \in S /\ S \subseteq 1 .. Len(buf) + 1 /\ buf[j] = 2 /\ j + OptionSize[buf[j]] \in S
  BY DEF Found, LaidOut, kMSS
<1>2. j \in Nat /\ j + 4 <= Len(buf) + 1 /\ Len(buf) \in Nat
  BY <1>1, OptionSizeIs
<1>3. j + 1 \in Nat /\ 2 \in Nat /\ (j + 1) + 2 <= Len(buf) /\ (j + 1) + 1 = j + 2 /\ (j + 1) + 2 = j + 3
  BY <1>2
<1>4. SubSeq(buf, j + 2, j + 3) \in Seq(Byte) /\ Len(SubSeq(buf, j + 2, j + 3)) = 2
  BY <1>3, HasCut
<1> DEFINE s == SubSeq(buf, j + 2, j + 3)
<1> HIDE DEF s
<1>5. Len(s) = 2 => s # <<>>
  OBVIOUS
<1>6. QED
  BY <1>2, <1>3, <1>4, <1>5 DEF s

\* Nothing is found from an option on that is found from the next one on, but
\* an MSS option itself.
LEMMA LastMssBefore ==
    ASSUME NEW buf \in Seq(Byte), NEW S, NEW m, LaidOut(buf, S, m), NEW i \in S, Known(buf, i),
           NEW x, NEW n, n = i + OptionSize[buf[i]], LastMss(x, buf, S, n)
    PROVE  /\ buf[i] # kMSS => LastMss(x, buf, S, i)
           /\ buf[i] = kMSS /\ x = <<>> => LastMss(SubSeq(buf, i + 2, i + 3), buf, S, i)
           /\ x # <<>> => LastMss(x, buf, S, i)
<1>1. S \subseteq 1 .. Len(buf) + 1 /\ i \in S /\ n \in S /\ \A j \in S : i < j => n <= j
  BY DEF LaidOut
<1>2. i \in Nat /\ n \in Nat /\ i < n
  BY <1>1, OptionSizeIs DEF Known
<1>3. \A j : Found(buf, S, j) => j \in S /\ j \in Nat
  BY <1>1 DEF Found
<1>4. \A j : Found(buf, S, j) => j <= i \/ n <= j
  BY <1>1, <1>2, <1>3
<1>5. Found(buf, S, i) <=> buf[i] = kMSS
  BY DEF Found
<1>6. CASE x = <<>> /\ \A j : Found(buf, S, j) => j < n
  <2>1. \A j : Found(buf, S, j) => j <= i
    BY <1>2, <1>3, <1>4, <1>6
  <2>2. ASSUME buf[i] # kMSS PROVE LastMss(x, buf, S, i)
    <3>1. \A j : Found(buf, S, j) => j < i
      BY <1>2, <1>3, <1>5, <2>1, <2>2
    <3>2. QED
      BY <1>6, <3>1 DEF LastMss
  <2>3. ASSUME buf[i] = kMSS PROVE LastMss(SubSeq(buf, i + 2, i + 3), buf, S, i)
    <3>1. Found(buf, S, i) /\ i <= i
      BY <1>2, <1>5, <2>3
    <3>2. QED
      BY <2>1, <3>1, Zenon DEF LastMss
  <2>4. QED
    BY <1>6, <2>2, <2>3
<1>7. CASE ~(x = <<>> /\ \A j : Found(buf, S, j) => j < n)
  <2>1. PICK j : /\ Found(buf, S, j) /\ n <= j /\ (\A l : Found(buf, S, l) => l <= j)
                 /\ x = SubSeq(buf, j + 2, j + 3)
    BY <1>7, Zenon DEF LastMss
  <2>2. x # <<>>
    BY <2>1, MssIs
  <2>3. i <= j
    BY <1>2, <1>3, <2>1
  <2>4. LastMss(x, buf, S, i)
    BY <2>1, <2>3, Zenon DEF LastMss
  <2>5. QED
    BY <2>2, <2>4
<1>8. QED
  BY <1>6, <1>7

\* The options buf pass the asserts and say this MSS.
Says(buf, mss) == decode_options(buf).ok = TRUE /\ decode_options(buf).mss = mss

\* decode_options finds the last MSS of options that are laid out as they should
\* be, and no assert of it fails.
LEMMA DecodeIs ==
    ASSUME NEW buf \in Seq(Byte), NEW S, NEW m, LaidOut(buf, S, m)
    PROVE  Says(buf, m)
<1>1. PICK f : Decodes(f, buf) /\ decode_options(buf) = f[1]
  BY DecodeFrom
<1> DEFINE N == Len(buf)
           P(i) == \E x : f[i].ok = TRUE /\ f[i].mss = x /\ LastMss(x, buf, S, i)
           T == {k \in Nat : \A i \in S : i + k > N => P(i)}
<1>2. N \in Nat /\ S \subseteq 1 .. N + 1 /\ 1 \in S
  BY DEF LaidOut
<1>3. \A i \in Nat : f[i] = Decoded(f, buf, i)
  BY <1>1 DEF Decodes
<1>4. ASSUME NEW i \in S, ~Known(buf, i) PROVE P(i)
  <2>1. i \in Nat /\ (i > N \/ buf[i] \notin DOMAIN OptionSize)
    BY <1>2, <1>4 DEF Known
  <2>2. f[i].ok = TRUE /\ f[i].mss = <<>>
    <3>1. f[i] = [ok |-> TRUE, mss |-> <<>>, past |-> FALSE]
      BY <1>3, <2>1, Zenon DEF Decoded
    <3>2. QED
      BY <3>1
  <2>3. \A j \in S : j <= i
    BY <1>4 DEF LaidOut
  <2>4. ASSUME NEW j, Found(buf, S, j) PROVE j < i
    <3>1. j \in S /\ j # i /\ j \in Nat
      BY <1>2, <1>4, <2>4 DEF Found
    <3>2. QED
      BY <2>1, <2>3, <3>1
  <2>5. LastMss(<<>>, buf, S, i)
    BY <2>4 DEF LastMss
  <2>6. QED
    BY <2>2, <2>5
<1>5. ASSUME NEW i \in S, Known(buf, i), P(i + OptionSize[buf[i]]) PROVE P(i)
  <2> DEFINE n == OptionSize[buf[i]]
  <2>1. PICK x : f[i + n].ok = TRUE /\ f[i + n].mss = x /\ LastMss(x, buf, S, i + n)
    BY <1>5
  <2>2. /\ i \in Nat /\ i <= N /\ buf[i] \in DOMAIN OptionSize /\ n \in Nat /\ i + n \in 1 .. N + 1
        /\ (buf[i] # kNOP => buf[i + 1] = n)
    BY <1>2, <1>5, OptionSizeIs DEF Known, LaidOut
  <2>3. ~(i > N \/ buf[i] \notin DOMAIN OptionSize) /\ (buf[i] # kNOP => ~(i + n - 1 > N \/ buf[i + 1] # n))
    BY <1>2, <2>2
  <2>4. f[i] = Decoded(f, buf, i)
    BY <1>3, <2>2
  <2>5. /\ buf[i] # kMSS => LastMss(x, buf, S, i)
        /\ buf[i] = kMSS /\ x = <<>> => LastMss(SubSeq(buf, i + 2, i + 3), buf, S, i)
        /\ x # <<>> => LastMss(x, buf, S, i)
    BY <1>5, <2>1, LastMssBefore
  <2>6. f[i + n].ok = TRUE /\ f[i + n].mss = x
    BY <2>1
  <2>10. ASSUME buf[i] # kNOP
         PROVE  /\ f[i].ok = f[i + n].ok
                /\ f[i].mss = IF buf[i] = kMSS /\ f[i + n].mss = <<>>
                              THEN consume_from_net(SubSeq(buf, i + 2, i + 3)) ELSE f[i + n].mss
    <3> DEFINE y == IF buf[i] = kMSS /\ f[i + n].mss = <<>>
                    THEN consume_from_net(SubSeq(buf, i + 2, i + 3)) ELSE f[i + n].mss
               z == f[i + n].past \/ (buf[i] = kWS /\ i + n > Len(buf))
    <3>1. f[i] = [ok |-> f[i + n].ok, mss |-> y, past |-> z]
      BY <2>3, <2>4, <2>10, Zenon DEF Decoded
    <3> HIDE DEF y, z
    <3>2. f[i].ok = f[i + n].ok /\ f[i].mss = y
      BY <3>1
    <3>3. QED
      BY <3>2 DEF y
  <2>7. CASE buf[i] = kMSS /\ x = <<>>
    <3>1. kMSS # kNOP
      BY DEF kMSS, kNOP
    <3>2. f[i].ok = TRUE /\ f[i].mss = consume_from_net(SubSeq(buf, i + 2, i + 3))
      BY <2>6, <2>7, <2>10, <3>1
    <3>3. Found(buf, S, i)
      BY <1>5, <2>7 DEF Found
    <3>4. consume_from_net(SubSeq(buf, i + 2, i + 3)) = SubSeq(buf, i + 2, i + 3)
      BY <3>3, MssIs, Converted
    <3>5. QED
      BY <2>5, <2>7, <3>2, <3>4
  <2>8. CASE ~(buf[i] = kMSS /\ x = <<>>)
    <3>1. f[i].ok = TRUE /\ f[i].mss = x
      <4>1. CASE buf[i] = kNOP
        <5>1. f[i] = f[i + n]
          BY <2>3, <2>4, <4>1, Zenon DEF Decoded
        <5>2. QED
          BY <2>6, <5>1
      <4>2. CASE buf[i] # kNOP
        BY <2>6, <2>8, <2>10, <4>2
      <4>3. QED
        BY <4>1, <4>2
    <3>2. LastMss(x, buf, S, i)
      BY <2>5, <2>8
    <3>3. QED
      BY <3>1, <3>2
  <2>9. QED
    BY <2>7, <2>8
<1>6. ASSUME NEW i \in S, Known(buf, i)
      PROVE  /\ i \in Nat /\ i <= N /\ i + OptionSize[buf[i]] \in S
             /\ OptionSize[buf[i]] \in Nat /\ 0 < OptionSize[buf[i]]
  BY <1>2, <1>6, OptionSizeIs DEF Known, LaidOut
<1>7. \A i \in S : i \in Nat /\ (Known(buf, i) => i <= N)
  BY <1>2 DEF Known
<1> HIDE DEF P
<1>8. 0 \in T
  <2>1. ASSUME NEW i \in S, i + 0 > N PROVE P(i)
    <3>1. ~Known(buf, i)
      BY <1>2, <1>7, <2>1
    <3>2. QED
      BY <1>4, <3>1
  <2>2. QED
    BY <2>1
<1>9. ASSUME NEW k \in Nat, \A i \in S : i + k > N => P(i), NEW i \in S, i + (k + 1) > N
      PROVE  P(i)
  <2>1. CASE Known(buf, i)
    <3> DEFINE n == OptionSize[buf[i]]
    <3>1. i \in Nat /\ n \in Nat /\ 0 < n /\ i + n \in S
      BY <1>6, <2>1
    <3> HIDE DEF n
    <3>2. (i + n) + k > N
      BY <1>2, <1>9, <3>1
    <3>3. P(i + n)
      BY <1>9, <3>1, <3>2
    <3>4. QED
      BY <1>5, <2>1, <3>3 DEF n
  <2>2. CASE ~Known(buf, i)
    BY <1>4, <2>2
  <2>3. QED
    BY <2>1, <2>2
<1>10. ASSUME NEW k \in T PROVE k + 1 \in T
  <2>1. k \in Nat /\ \A i \in S : i + k > N => P(i)
    BY <1>10
  <2>2. \A i \in S : i + (k + 1) > N => P(i)
    BY <1>9, <2>1
  <2>3. k + 1 \in Nat
    BY <2>1
  <2>4. QED
    BY <2>2, <2>3
<1>11. Nat \subseteq T
  <2> HIDE DEF T
  <2>1. QED
    BY <1>8, <1>10, SetInduction, Zenon
<1>12. PICK x : f[1].ok = TRUE /\ f[1].mss = x /\ LastMss(x, buf, S, 1)
  <2>1. N \in T /\ 1 + N > N
    BY <1>2, <1>11
  <2>2. P(1)
    BY <1>2, <2>1
  <2>3. QED
    BY <2>2 DEF P
<1>13. x = m
  <2> DEFINE W == {i \in S : Known(buf, i) /\ buf[i] = kMSS}
  <2>1. \A j : j \in W <=> Found(buf, S, j)
    BY DEF Found
  <2>2. IF W = {} THEN m = <<>> ELSE \E i \in W : (\A j \in W : j <= i) /\ m = SubSeq(buf, i + 2, i + 3)
    BY DEF LaidOut
  <2> HIDE DEF W
  <2>3. \A j \in W : j \in Nat /\ 1 <= j
    <3>1. \A j \in S : j \in Nat /\ 1 <= j
      BY <1>2
    <3>2. QED
      BY <2>1, <3>1, Zenon DEF Found
  <2>4. CASE W = {}
    <3>1. x = <<>>
      BY <1>12, <2>1, <2>4 DEF LastMss
    <3>2. QED
      BY <2>2, <2>4, <3>1
  <2>5. CASE W # {}
    <3>1. PICK i \in W : (\A j \in W : j <= i) /\ m = SubSeq(buf, i + 2, i + 3)
      BY <2>2, <2>5
    <3>2. ~(i < 1) /\ Found(buf, S, i)
      BY <2>1, <2>3
    <3>3. PICK j : Found(buf, S, j) /\ (\A l : Found(buf, S, l) => l <= j) /\ x = SubSeq(buf, j + 2, j + 3)
      BY <1>12, <3>2, Zenon DEF LastMss
    <3>4. j <= i /\ i <= j /\ j \in Nat /\ i \in Nat
      BY <2>1, <2>3, <3>1, <3>2, <3>3
    <3>5. i = j
      BY <3>4
    <3>6. QED
      BY <3>1, <3>3, <3>5
  <2>6. QED
    BY <2>4, <2>5
<1>14. QED
  BY <1>1, <1>12, <1>13 DEF Says

\* No options, and those that this stack sends.
LEMMA OwnOptions ==
    /\ LaidOut(<<>>, {1}, <<>>)
    /\ \A m \in Nat : m <= Max16 => /\ encode_options(m) \in Seq(Byte) /\ Len(encode_options(m)) = 8
                                    /\ LaidOut(encode_options(m), {1, 5, 6, 7, 9}, Digits(m))
<1>1. LaidOut(<<>>, {1}, <<>>)
  <2>1. Len(<<>>) = 0
    OBVIOUS
  <2>2. ~Known(<<>>, 1)
    BY <2>1 DEF Known
  <2>3. QED
    BY <2>1, <2>2 DEF LaidOut
<1>2. ASSUME NEW m \in Nat, m <= Max16
      PROVE  /\ encode_options(m) \in Seq(Byte) /\ Len(encode_options(m)) = 8
             /\ LaidOut(encode_options(m), {1, 5, 6, 7, 9}, Digits(m))
  <2> DEFINE d == Digits(m)
             e == <<2, 4>> \o d
             f == <<1, 1, 4, 2>>
             b == e \o f
             S == {1, 5, 6, 7, 9}
  <2>1. d \in Seq(Byte) /\ Len(d) = 2 /\ produce_to_net(d) = d
    BY <1>2, DigitsIs, Converted
  <2>2. encode_options(m) = b
    BY <2>1 DEF encode_options, kMSS, kNOP, kSACK
  <2> HIDE DEF d
  <2>3. /\ <<2, 4>> \in Seq(Byte) /\ Len(<<2, 4>>) = 2 /\ <<2, 4>>[1] = 2 /\ <<2, 4>>[2] = 4
        /\ f \in Seq(Byte) /\ Len(f) = 4 /\ f[1] = 1 /\ f[2] = 1 /\ f[3] = 4 /\ f[4] = 2
    BY ByteIs
  <2> DEFINE a == <<2, 4>>
  <2>4. a \in Seq(Byte) /\ Len(a) = 2 /\ a[1] = 2 /\ a[2] = 4 /\ e = a \o d
    BY <2>3
  <2> HIDE DEF a, f, e
  <2>5. e \in Seq(Byte) /\ Len(e) = 4 /\ Has(e, 0, a) /\ Has(e, 2, d)
    <3>1. a \o d \in Seq(Byte) /\ Len(a \o d) = Len(a) + Len(d) /\ Has(a \o d, 0, a) /\ Has(a \o d, Len(a), d)
      BY <2>1, <2>4, HasConcat
    <3>2. QED
      BY <2>1, <2>4, <3>1
  <2>6. b \in Seq(Byte) /\ Len(b) = 8 /\ Has(b, 0, a) /\ Has(b, 2, d) /\ Has(b, 4, f)
    <3>1. /\ b \in Seq(Byte) /\ Len(b) = Len(e) + Len(f) /\ Has(b, Len(e), f)
          /\ \A n \in Nat, x \in Seq(Byte) : Has(e, n, x) => Has(b, n, x)
      BY <2>3, <2>5, HasConcat
    <3>2. QED
      BY <2>1, <2>3, <2>4, <2>5, <3>1
  <2> HIDE DEF b
  <2>7. b[1] = 2 /\ b[2] = 4 /\ b[5] = 1 /\ b[6] = 1 /\ b[7] = 4 /\ b[8] = 2
    <3>1. \A i \in 1 .. 2 : b[0 + i] = a[i]
      BY <2>4, <2>6 DEF Has
    <3>2. \A i \in 1 .. 4 : b[4 + i] = f[i]
      BY <2>3, <2>6 DEF Has
    <3>3. b[1] = a[1] /\ b[2] = a[2]
      BY <3>1
    <3>4. b[5] = f[1] /\ b[6] = f[2] /\ b[7] = f[3] /\ b[8] = f[4]
      BY <3>2
    <3>5. QED
      BY <2>3, <2>4, <3>3, <3>4
  <2>8. /\ Known(b, 1) /\ Known(b, 5) /\ Known(b, 6) /\ Known(b, 7) /\ ~Known(b, 9)
        /\ OptionSize[b[1]] = 4 /\ OptionSize[b[5]] = 1 /\ OptionSize[b[6]] = 1 /\ OptionSize[b[7]] = 2
    BY <2>6, <2>7, OptionSizeIs DEF Known
  <2>9. SubSeq(b, 3, 4) = d
    <3>1. SubSeq(b, 2 + 1, 2 + Len(d)) = d
      BY <2>1, <2>6, CutHas
    <3>2. QED
      BY <2>1, <3>1
  <2>10. {i \in S : Known(b, i) /\ b[i] = kMSS} = {1}
    BY <2>7, <2>8 DEF kMSS
  <2>11. 1 \in S /\ S \subseteq 1 .. Len(b) + 1
    BY <2>6
  <2>12. ASSUME NEW i \in S
         PROVE  IF Known(b, i)
                THEN /\ i + OptionSize[b[i]] \in S
                     /\ b[i] # kNOP => b[i + 1] = OptionSize[b[i]]
                     /\ \A j \in S : i < j => i + OptionSize[b[i]] <= j
                ELSE \A j \in S : j <= i
    <3>1. CASE i = 1
      BY <2>7, <2>8, <3>1
    <3>2. CASE i = 5
      BY <2>7, <2>8, <3>2 DEF kNOP
    <3>3. CASE i = 6
      BY <2>7, <2>8, <3>3 DEF kNOP
    <3>4. CASE i = 7
      BY <2>7, <2>8, <3>4
    <3>5. CASE i = 9
      BY <2>8, <3>5
    <3>6. QED
      BY <3>1, <3>2, <3>3, <3>4, <3>5
  <2> HIDE DEF S
  <2>13. LaidOut(b, S, d)
    BY <2>9, <2>10, <2>11, <2>12 DEF LaidOut
  <2>14. QED
    BY <2>2, <2>6, <2>13 DEF S, d
<1>3. QED
  BY <1>1, <1>2

-----------------------------------------------------------------------------
(* The bytes of the headers *)

\* k bytes; whatever is in s is in r.
Bytes(s, k) == s \in Seq(Byte) /\ Len(s) = k
Within(s, r) == \A i \in Nat, x \in Seq(Byte) : Has(s, i, x) => Has(r, i, x)

\* Bytes behind others.
LEMMA Extend ==
    ASSUME NEW s, NEW t, NEW k \in Nat, NEW n \in Nat, NEW l, l = k + n, Bytes(s, k), Bytes(t, n)
    PROVE  /\ Bytes(s \o t, l) /\ Has(s \o t, 0, s) /\ Has(s \o t, k, t) /\ Within(s, s \o t)
<1>1. s \in Seq(Byte) /\ t \in Seq(Byte) /\ Len(s) = k /\ Len(t) = n
  BY DEF Bytes
<1> DEFINE r == s \o t
<1>2. /\ r \in Seq(Byte) /\ Len(r) = Len(s) + Len(t) /\ Has(r, 0, s) /\ Has(r, Len(s), t)
      /\ \A i \in Nat, x \in Seq(Byte) : Has(s, i, x) => Has(r, i, x)
  BY <1>1, HasConcat
<1> HIDE DEF r
<1>3. Bytes(r, l) /\ Has(r, 0, s) /\ Has(r, k, t) /\ Within(s, r)
  BY <1>1, <1>2 DEF Bytes, Within
<1>4. QED
  BY <1>3 DEF r

\* What is in s is in r.
LEMMA InBoth ==
    ASSUME NEW s, NEW r, Within(s, r), NEW k, NEW x, Bytes(x, k), NEW i \in Nat, Has(s, i, x)
    PROVE  Has(r, i, x)
  BY DEF Within, Bytes

\* A byte that is there.
LEMMA HasOne ==
    ASSUME NEW m, NEW n \in Nat, NEW x, Has(m, n, x), Len(x) \in Nat, NEW i \in 1 .. Len(x)
    PROVE  m[n + i] = x[i]
  BY DEF Has

\* The fields of a TCP header.
HdrT == [src_port : Number_t(2), dst_port : Number_t(2), seq_no : Number_t(4), ack_no : Number_t(4),
         data_offset : {n \in Nat : 5 <= n /\ n <= 15}, flags : SUBSET Flag, window : Number_t(2)]

\* The fields of h are in the bytes m.
TcpFields(m, h) ==
    /\ Has(m, 0, h.src_port) /\ Has(m, 2, h.dst_port) /\ Has(m, 4, h.seq_no) /\ Has(m, 8, h.ack_no)
    /\ Has(m, 12, Digits(OffsetFlags(h))) /\ Has(m, 14, h.window)

\* What the fields are made of.
LEMMA HdrIs ==
    ASSUME NEW h \in HdrT
    PROVE  /\ h.src_port \in Seq(Byte) /\ Len(h.src_port) = 2 /\ h.dst_port \in Seq(Byte) /\ Len(h.dst_port) = 2
           /\ h.seq_no \in Seq(Byte) /\ Len(h.seq_no) = 4 /\ h.ack_no \in Seq(Byte) /\ Len(h.ack_no) = 4
           /\ h.window \in Seq(Byte) /\ Len(h.window) = 2
           /\ h.data_offset \in Nat /\ 5 <= h.data_offset /\ h.data_offset <= 15 /\ h.flags \in SUBSET Flag
           /\ OffsetFlags(h) \in Nat /\ OffsetFlags(h) <= Max16
           /\ OffsetFlags(h) \div 4096 = h.data_offset
           /\ {f \in DOMAIN FlagBit : (OffsetFlags(h) \div FlagBit[f]) % 2 = 1} = h.flags
           /\ Digits(OffsetFlags(h)) \in Seq(Byte) /\ Len(Digits(OffsetFlags(h))) = 2
           /\ Number(Digits(OffsetFlags(h))) = OffsetFlags(h)
<1>1. /\ h.src_port \in Number_t(2) /\ h.dst_port \in Number_t(2) /\ h.seq_no \in Number_t(4)
      /\ h.ack_no \in Number_t(4) /\ h.window \in Number_t(2)
      /\ h.data_offset \in Nat /\ 5 <= h.data_offset /\ h.data_offset <= 15 /\ h.flags \in SUBSET Flag
  BY DEF HdrT
<1>2. /\ h.src_port \in Seq(Byte) /\ Len(h.src_port) = 2 /\ h.dst_port \in Seq(Byte) /\ Len(h.dst_port) = 2
      /\ h.seq_no \in Seq(Byte) /\ Len(h.seq_no) = 4 /\ h.ack_no \in Seq(Byte) /\ Len(h.ack_no) = 4
      /\ h.window \in Seq(Byte) /\ Len(h.window) = 2
  BY <1>1, NumberType
<1> DEFINE n == OffsetFlags(h)
<1>3. n = h.data_offset * 4096 + flag_bits(h.flags)
  BY DEF OffsetFlags
<1> HIDE DEF n
<1>4. /\ n \in Nat /\ n <= Max16 /\ n \div 4096 = h.data_offset
      /\ {f \in DOMAIN FlagBit : (n \div FlagBit[f]) % 2 = 1} = h.flags
  BY <1>1, <1>3, FlagsIs
<1>5. Digits(n) \in Seq(Byte) /\ Len(Digits(n)) = 2 /\ Number(Digits(n)) = n
  BY <1>4, DigitsIs
<1>6. QED
  BY <1>1, <1>2, <1>4, <1>5 DEF n

\* tcp_header.
LEMMA TcpHeaderIs ==
    ASSUME NEW h \in HdrT
    PROVE  Bytes(tcp_header(h), 20) /\ TcpFields(tcp_header(h), h)
<1> DEFINE a == h.src_port
           b == h.dst_port
           c == h.seq_no
           d == h.ack_no
           e == Digits(OffsetFlags(h))
           f == h.window
           g == <<0, 0, 0, 0>>
           s1 == a \o b
           s2 == s1 \o c
           s3 == s2 \o d
           s4 == s3 \o e
           s5 == s4 \o f
           s6 == s5 \o g
<1>1. /\ Bytes(a, 2) /\ Bytes(b, 2) /\ Bytes(c, 4) /\ Bytes(d, 4) /\ Bytes(e, 2) /\ Bytes(f, 2)
      /\ Bytes(g, 4)
  <2>1. g \in Seq(Byte) /\ Len(g) = 4
    BY ByteIs
  <2> HIDE DEF g
  <2>2. QED
    BY <2>1, HdrIs DEF Bytes
<1>2. tcp_header(h) = s6
  <2>1. /\ produce_to_net(a) = a /\ produce_to_net(b) = b /\ produce_to_net(c) = c
        /\ produce_to_net(d) = d /\ produce_to_net(e) = e /\ produce_to_net(f) = f
    BY <1>1, Converted DEF Bytes
  <2>2. QED
    BY <2>1, Zenon DEF tcp_header
<1>3. TcpFields(s6, h) <=> /\ Has(s6, 0, a) /\ Has(s6, 2, b) /\ Has(s6, 4, c) /\ Has(s6, 8, d)
                           /\ Has(s6, 12, e) /\ Has(s6, 14, f)
  BY Zenon DEF TcpFields
<1> HIDE DEF a, b, c, d, e, f, g, s1, s2, s3, s4, s5, s6
<1>4. /\ Bytes(s1, 4) /\ Has(s1, 0, a) /\ Has(s1, 2, b)
  <2>1. 2 \in Nat /\ 2 \in Nat /\ 4 = 2 + 2
    OBVIOUS
  <2>2. Bytes(s1, 4) /\ Has(s1, 0, a) /\ Has(s1, 2, b) /\ Within(a, s1)
    BY <1>1, <2>1, Extend, Zenon DEF s1
  <2>3. QED
    BY <1>1, <2>2, InBoth
<1>5. /\ Bytes(s2, 8) /\ Has(s2, 0, a) /\ Has(s2, 2, b) /\ Has(s2, 4, c)
  <2>1. 4 \in Nat /\ 4 \in Nat /\ 8 = 4 + 4
    OBVIOUS
  <2>2. Bytes(s2, 8) /\ Has(s2, 0, s1) /\ Has(s2, 4, c) /\ Within(s1, s2)
    BY <1>1, <1>4, <2>1, Extend, Zenon DEF s2
  <2>3. QED
    BY <1>1, <1>4, <2>2, InBoth
<1>6. /\ Bytes(s3, 12) /\ Has(s3, 0, a) /\ Has(s3, 2, b) /\ Has(s3, 4, c)
      /\ Has(s3, 8, d)
  <2>1. 8 \in Nat /\ 4 \in Nat /\ 12 = 8 + 4
    OBVIOUS
  <2>2. Bytes(s3, 12) /\ Has(s3, 0, s2) /\ Has(s3, 8, d) /\ Within(s2, s3)
    BY <1>1, <1>5, <2>1, Extend, Zenon DEF s3
  <2>3. QED
    BY <1>1, <1>5, <2>2, InBoth
<1>7. /\ Bytes(s4, 14) /\ Has(s4, 0, a) /\ Has(s4, 2, b) /\ Has(s4, 4, c)
      /\ Has(s4, 8, d) /\ Has(s4, 12, e)
  <2>1. 12 \in Nat /\ 2 \in Nat /\ 14 = 12 + 2
    OBVIOUS
  <2>2. Bytes(s4, 14) /\ Has(s4, 0, s3) /\ Has(s4, 12, e) /\ Within(s3, s4)
    BY <1>1, <1>6, <2>1, Extend, Zenon DEF s4
  <2>3. QED
    BY <1>1, <1>6, <2>2, InBoth
<1>8. /\ Bytes(s5, 16) /\ Has(s5, 0, a) /\ Has(s5, 2, b) /\ Has(s5, 4, c)
      /\ Has(s5, 8, d) /\ Has(s5, 12, e) /\ Has(s5, 14, f)
  <2>1. 14 \in Nat /\ 2 \in Nat /\ 16 = 14 + 2
    OBVIOUS
  <2>2. Bytes(s5, 16) /\ Has(s5, 0, s4) /\ Has(s5, 14, f) /\ Within(s4, s5)
    BY <1>1, <1>7, <2>1, Extend, Zenon DEF s5
  <2>3. QED
    BY <1>1, <1>7, <2>2, InBoth
<1>9. /\ Bytes(s6, 20) /\ Has(s6, 0, a) /\ Has(s6, 2, b) /\ Has(s6, 4, c)
      /\ Has(s6, 8, d) /\ Has(s6, 12, e) /\ Has(s6, 14, f) /\ Has(s6, 16, g)
  <2>1. 16 \in Nat /\ 4 \in Nat /\ 20 = 16 + 4
    OBVIOUS
  <2>2. Bytes(s6, 20) /\ Has(s6, 0, s5) /\ Has(s6, 16, g) /\ Within(s5, s6)
    BY <1>1, <1>8, <2>1, Extend, Zenon DEF s6
  <2>3. QED
    BY <1>1, <1>8, <2>2, InBoth
<1>10. QED
  BY <1>2, <1>3, <1>9

\* Small numbers are bytes.
LEMMA Literals ==
    0 \in Byte /\ 1 \in Byte /\ 2 \in Byte /\ 4 \in Byte /\ 6 \in Byte /\ 8 \in Byte /\ 64 \in Byte /\ 69 \in Byte
    /\ 255 \in Byte
  BY ByteIs

\* Short sequences of bytes.
LEMMA Tuples ==
    /\ \A x \in Byte : Bytes(<<x>>, 1) /\ Bytes(<<x, x, x, x, x, x>>, 6)
    /\ \A x, y \in Byte : Bytes(<<x, y>>, 2)
    /\ \A x, y, z, w \in Byte : Bytes(<<x, y, z, w>>, 4)
<1>1. \A x \in Byte : Bytes(<<x>>, 1)
  BY DEF Bytes
<1>2. \A x \in Byte : Bytes(<<x, x, x, x, x, x>>, 6)
  BY DEF Bytes
<1>3. \A x, y \in Byte : Bytes(<<x, y>>, 2)
  BY DEF Bytes
<1>4. \A x, y, z, w \in Byte : Bytes(<<x, y, z, w>>, 4)
  BY DEF Bytes
<1>5. QED
  BY <1>1, <1>2, <1>3, <1>4

\* Numbers that the headers hold.
LEMMA Constants ==
    /\ Bytes(Digits(1), 2) /\ Bytes(Digits(2), 2) /\ Bytes(Digits(2048), 2) /\ Bytes(Digits(DontFragment), 2)
    /\ Digits(1) = <<0, 1>> /\ Digits(2) = <<0, 2>> /\ Digits(2048) = <<8, 0>>
<1>1. ASSUME NEW n \in {1, 2, 2048, 16384} PROVE Bytes(Digits(n), 2)
  <2>1. n \in Nat /\ n <= Max16
    BY SMT DEF Max16
  <2>2. QED
    BY <2>1, DigitsIs DEF Bytes
<1>2. Digits(1) = <<0, 1>> /\ Digits(2) = <<0, 2>> /\ Digits(2048) = <<8, 0>>
  BY SMT DEF Digits
<1>3. DontFragment \in {1, 2, 2048, 16384}
  BY DEF DontFragment
<1>4. QED
  BY <1>1, <1>2, <1>3

\* The fields of an IPv4 header that are looked at: the total length, the
\* protocol, the checksum, which is 0, and the addresses.
Ipv4Fields(m, len, proto, src, dst) ==
    /\ Has(m, 0, <<69, 0>>) /\ Has(m, 2, Digits(len)) /\ Has(m, 8, <<64, proto, 0, 0>>)
    /\ Has(m, 12, src) /\ Has(m, 16, dst)

\* ipv4_header.
LEMMA Ipv4HeaderIs ==
    ASSUME NEW p, NEW len \in Nat, len <= Max16, NEW id, Bytes(id, 2), p.proto \in Byte,
           Bytes(p.src, 4), Bytes(p.dst, 4)
    PROVE  Bytes(ipv4_header(p, len, id), 20)
           /\ Ipv4Fields(ipv4_header(p, len, id), len, p.proto, p.src, p.dst)
<1> DEFINE a == <<69, 0>>
           b == Digits(len)
           c == id
           d == Digits(DontFragment)
           e == <<64, p.proto, 0, 0>>
           f == p.src
           g == p.dst
           s1 == a \o b
           s2 == s1 \o c
           s3 == s2 \o d
           s4 == s3 \o e
           s5 == s4 \o f
           s6 == s5 \o g
<1>1. /\ Bytes(a, 2) /\ Bytes(b, 2) /\ Bytes(c, 2) /\ Bytes(d, 2) /\ Bytes(e, 4) /\ Bytes(f, 4) /\ Bytes(g, 4)
  <2>1. Bytes(b, 2)
    BY DigitsIs DEF Bytes
  <2>2. Bytes(a, 2) /\ Bytes(e, 4)
    BY Literals, Tuples, Zenon
  <2> HIDE DEF a, b, e
  <2>3. QED
    BY <2>1, <2>2, Constants
<1>2. ipv4_header(p, len, id) = s6
  <2>1. /\ produce_to_net(b) = b /\ produce_to_net(c) = c /\ produce_to_net(d) = d
        /\ produce_to_net(f) = f /\ produce_to_net(g) = g
    <3> HIDE DEF b, c, d, f, g
    <3>1. QED
      BY <1>1, Converted DEF Bytes
  <2>2. a = <<4 * 16 + 5, 0>>
    OBVIOUS
  <2> HIDE DEF a
  <2>3. QED
    BY <2>1, <2>2, Zenon DEF ipv4_header
<1>3. Ipv4Fields(s6, len, p.proto, p.src, p.dst) <=>
        /\ Has(s6, 0, a) /\ Has(s6, 2, b) /\ Has(s6, 8, e) /\ Has(s6, 12, f) /\ Has(s6, 16, g)
  BY DEF Ipv4Fields
<1> HIDE DEF a, b, c, d, e, f, g, s1, s2, s3, s4, s5, s6
<1>4. /\ Bytes(s1, 4) /\ Has(s1, 0, a) /\ Has(s1, 2, b)
  <2>1. 2 \in Nat /\ 2 \in Nat /\ 4 = 2 + 2
    OBVIOUS
  <2>2. Bytes(s1, 4) /\ Has(s1, 0, a) /\ Has(s1, 2, b) /\ Within(a, s1)
    BY <1>1, <2>1, Extend, Zenon DEF s1
  <2>3. QED
    BY <1>1, <2>2, InBoth
<1>5. /\ Bytes(s2, 6) /\ Has(s2, 0, a) /\ Has(s2, 2, b) /\ Has(s2, 4, c)
  <2>1. 4 \in Nat /\ 2 \in Nat /\ 6 = 4 + 2
    OBVIOUS
  <2>2. Bytes(s2, 6) /\ Has(s2, 0, s1) /\ Has(s2, 4, c) /\ Within(s1, s2)
    BY <1>1, <1>4, <2>1, Extend, Zenon DEF s2
  <2>3. QED
    BY <1>1, <1>4, <2>2, InBoth
<1>6. /\ Bytes(s3, 8) /\ Has(s3, 0, a) /\ Has(s3, 2, b) /\ Has(s3, 4, c)
      /\ Has(s3, 6, d)
  <2>1. 6 \in Nat /\ 2 \in Nat /\ 8 = 6 + 2
    OBVIOUS
  <2>2. Bytes(s3, 8) /\ Has(s3, 0, s2) /\ Has(s3, 6, d) /\ Within(s2, s3)
    BY <1>1, <1>5, <2>1, Extend, Zenon DEF s3
  <2>3. QED
    BY <1>1, <1>5, <2>2, InBoth
<1>7. /\ Bytes(s4, 12) /\ Has(s4, 0, a) /\ Has(s4, 2, b) /\ Has(s4, 4, c)
      /\ Has(s4, 6, d) /\ Has(s4, 8, e)
  <2>1. 8 \in Nat /\ 4 \in Nat /\ 12 = 8 + 4
    OBVIOUS
  <2>2. Bytes(s4, 12) /\ Has(s4, 0, s3) /\ Has(s4, 8, e) /\ Within(s3, s4)
    BY <1>1, <1>6, <2>1, Extend, Zenon DEF s4
  <2>3. QED
    BY <1>1, <1>6, <2>2, InBoth
<1>8. /\ Bytes(s5, 16) /\ Has(s5, 0, a) /\ Has(s5, 2, b) /\ Has(s5, 4, c)
      /\ Has(s5, 6, d) /\ Has(s5, 8, e) /\ Has(s5, 12, f)
  <2>1. 12 \in Nat /\ 4 \in Nat /\ 16 = 12 + 4
    OBVIOUS
  <2>2. Bytes(s5, 16) /\ Has(s5, 0, s4) /\ Has(s5, 12, f) /\ Within(s4, s5)
    BY <1>1, <1>7, <2>1, Extend, Zenon DEF s5
  <2>3. QED
    BY <1>1, <1>7, <2>2, InBoth
<1>9. /\ Bytes(s6, 20) /\ Has(s6, 0, a) /\ Has(s6, 2, b) /\ Has(s6, 4, c)
      /\ Has(s6, 6, d) /\ Has(s6, 8, e) /\ Has(s6, 12, f) /\ Has(s6, 16, g)
  <2>1. 16 \in Nat /\ 4 \in Nat /\ 20 = 16 + 4
    OBVIOUS
  <2>2. Bytes(s6, 20) /\ Has(s6, 0, s5) /\ Has(s6, 16, g) /\ Within(s5, s6)
    BY <1>1, <1>8, <2>1, Extend, Zenon DEF s6
  <2>3. QED
    BY <1>1, <1>8, <2>2, InBoth
<1>10. QED
  BY <1>2, <1>3, <1>9

\* icmp_header.
LEMMA IcmpHeaderIs ==
    ASSUME NEW type \in Byte, NEW id, NEW seq, Bytes(id, 2), Bytes(seq, 2)
    PROVE  LET x == icmp_header(type, id, seq)
           IN  Bytes(x, 8) /\ Has(x, 0, <<type, 0, 0, 0>>) /\ Has(x, 4, id) /\ Has(x, 6, seq)
<1> DEFINE a == <<type, 0, 0, 0>>
           b == id
           c == seq
           s1 == a \o b
           s2 == s1 \o c
<1>1. Bytes(a, 4) /\ Bytes(b, 2) /\ Bytes(c, 2)
  BY Literals, Tuples, Zenon
<1>2. icmp_header(type, id, seq) = s2
  <2>1. produce_to_net(b) = b /\ produce_to_net(c) = c
    BY <1>1, Converted DEF Bytes
  <2>2. QED
    BY <2>1 DEF icmp_header
<1> HIDE DEF a, s1, s2
<1>3. /\ Bytes(s1, 6) /\ Has(s1, 0, a) /\ Has(s1, 4, b)
  <2>1. 4 \in Nat /\ 2 \in Nat /\ 6 = 4 + 2
    OBVIOUS
  <2>2. Bytes(s1, 6) /\ Has(s1, 0, a) /\ Has(s1, 4, b) /\ Within(a, s1)
    BY <1>1, <2>1, Extend, Zenon DEF s1
  <2>3. QED
    BY <1>1, <2>2, InBoth
<1>4. /\ Bytes(s2, 8) /\ Has(s2, 0, a) /\ Has(s2, 4, b) /\ Has(s2, 6, c)
  <2>1. 6 \in Nat /\ 2 \in Nat /\ 8 = 6 + 2
    OBVIOUS
  <2>2. Bytes(s2, 8) /\ Has(s2, 0, s1) /\ Has(s2, 6, c) /\ Within(s1, s2)
    BY <1>1, <1>3, <2>1, Extend, Zenon DEF s2
  <2>3. QED
    BY <1>1, <1>3, <2>2, InBoth
<1>5. QED
  BY <1>2, <1>4 DEF a

\* ethernetv2_header.
LEMMA EthernetHeaderIs ==
    ASSUME NEW p, Bytes(p.dst_mac, 6), Bytes(p.src_mac, 6), Bytes(p.ether, 2)
    PROVE  Bytes(ethernetv2_header(p), 14) /\ Has(ethernetv2_header(p), 12, p.ether)
<1> DEFINE a == p.dst_mac
           b == p.src_mac
           c == p.ether
           s1 == a \o b
           s2 == s1 \o c
<1>1. Bytes(a, 6) /\ Bytes(b, 6) /\ Bytes(c, 2)
  OBVIOUS
<1>2. ethernetv2_header(p) = s2
  <2>1. produce_to_net(c) = c
    BY <1>1, Converted DEF Bytes
  <2>2. QED
    BY <2>1 DEF ethernetv2_header
<1> HIDE DEF a, b, c, s1, s2
<1>3. /\ Bytes(s1, 12) /\ Has(s1, 0, a) /\ Has(s1, 6, b)
  <2>1. 6 \in Nat /\ 6 \in Nat /\ 12 = 6 + 6
    OBVIOUS
  <2>2. Bytes(s1, 12) /\ Has(s1, 0, a) /\ Has(s1, 6, b) /\ Within(a, s1)
    BY <1>1, <2>1, Extend, Zenon DEF s1
  <2>3. QED
    BY <1>1, <2>2, InBoth
<1>4. /\ Bytes(s2, 14) /\ Has(s2, 0, a) /\ Has(s2, 6, b) /\ Has(s2, 12, c)
  <2>1. 12 \in Nat /\ 2 \in Nat /\ 14 = 12 + 2
    OBVIOUS
  <2>2. Bytes(s2, 14) /\ Has(s2, 0, s1) /\ Has(s2, 12, c) /\ Within(s1, s2)
    BY <1>1, <1>3, <2>1, Extend, Zenon DEF s2
  <2>3. QED
    BY <1>1, <1>3, <2>2, InBoth
<1>5. QED
  BY <1>2, <1>4 DEF c

\* The fields of an ARP packet.
ArpFields(m, oper, sha, spa, tha, tpa) ==
    /\ Has(m, 0, Digits(1)) /\ Has(m, 2, Digits(2048)) /\ Has(m, 6, Digits(oper))
    /\ Has(m, 8, sha) /\ Has(m, 14, spa) /\ Has(m, 18, tha) /\ Has(m, 24, tpa)

\* arpv4_header.
LEMMA ArpHeaderIs ==
    ASSUME NEW oper \in {1, 2}, NEW sha, NEW spa, NEW tha, NEW tpa,
           Bytes(sha, 6), Bytes(spa, 4), Bytes(tha, 6), Bytes(tpa, 4)
    PROVE  Bytes(arpv4_header(oper, sha, spa, tha, tpa), 28)
           /\ ArpFields(arpv4_header(oper, sha, spa, tha, tpa), oper, sha, spa, tha, tpa)
<1> DEFINE a == Digits(1)
           b == Digits(2048)
           c == <<6, 4>>
           d == Digits(oper)
           e == sha
           f == spa
           g == tha
           h == tpa
           s1 == a \o b
           s2 == s1 \o c
           s3 == s2 \o d
           s4 == s3 \o e
           s5 == s4 \o f
           s6 == s5 \o g
           s7 == s6 \o h
<1>1. /\ Bytes(a, 2) /\ Bytes(b, 2) /\ Bytes(c, 2) /\ Bytes(d, 2) /\ Bytes(e, 6) /\ Bytes(f, 4) /\ Bytes(g, 6)
      /\ Bytes(h, 4)
  <2>1. Bytes(c, 2)
    BY Literals, Tuples, Zenon
  <2> HIDE DEF c
  <2>2. QED
    BY <2>1, Constants
<1>2. arpv4_header(oper, sha, spa, tha, tpa) = s7
  <2>1. /\ produce_to_net(a) = a /\ produce_to_net(b) = b /\ produce_to_net(d) = d
        /\ produce_to_net(f) = f /\ produce_to_net(h) = h
    <3> HIDE DEF a, b, d
    <3>1. QED
      BY <1>1, Converted DEF Bytes
  <2>2. arpv4_header(oper, sha, spa, tha, tpa)
          = produce_to_net(a) \o produce_to_net(b) \o c \o produce_to_net(d)
              \o e \o produce_to_net(f) \o g \o produce_to_net(h)
    BY DEF arpv4_header
  <2> HIDE DEF a, b, c, d, e, f, g, h
  <2>3. QED
    BY <2>1, <2>2
<1>3. ArpFields(s7, oper, sha, spa, tha, tpa) <=>
        /\ Has(s7, 0, a) /\ Has(s7, 2, b) /\ Has(s7, 6, d) /\ Has(s7, 8, e)
        /\ Has(s7, 14, f) /\ Has(s7, 18, g) /\ Has(s7, 24, h)
  BY DEF ArpFields
<1> HIDE DEF a, b, c, d, s1, s2, s3, s4, s5, s6, s7
<1>4. /\ Bytes(s1, 4) /\ Has(s1, 0, a) /\ Has(s1, 2, b)
  <2>1. 2 \in Nat /\ 2 \in Nat /\ 4 = 2 + 2
    OBVIOUS
  <2>2. Bytes(s1, 4) /\ Has(s1, 0, a) /\ Has(s1, 2, b) /\ Within(a, s1)
    BY <1>1, <2>1, Extend, Zenon DEF s1
  <2>3. QED
    BY <1>1, <2>2, InBoth
<1>5. /\ Bytes(s2, 6) /\ Has(s2, 0, a) /\ Has(s2, 2, b) /\ Has(s2, 4, c)
  <2>1. 4 \in Nat /\ 2 \in Nat /\ 6 = 4 + 2
    OBVIOUS
  <2>2. Bytes(s2, 6) /\ Has(s2, 0, s1) /\ Has(s2, 4, c) /\ Within(s1, s2)
    BY <1>1, <1>4, <2>1, Extend, Zenon DEF s2
  <2>3. QED
    BY <1>1, <1>4, <2>2, InBoth
<1>6. /\ Bytes(s3, 8) /\ Has(s3, 0, a) /\ Has(s3, 2, b) /\ Has(s3, 4, c)
      /\ Has(s3, 6, d)
  <2>1. 6 \in Nat /\ 2 \in Nat /\ 8 = 6 + 2
    OBVIOUS
  <2>2. Bytes(s3, 8) /\ Has(s3, 0, s2) /\ Has(s3, 6, d) /\ Within(s2, s3)
    BY <1>1, <1>5, <2>1, Extend, Zenon DEF s3
  <2>3. QED
    BY <1>1, <1>5, <2>2, InBoth
<1>7. /\ Bytes(s4, 14) /\ Has(s4, 0, a) /\ Has(s4, 2, b) /\ Has(s4, 4, c)
      /\ Has(s4, 6, d) /\ Has(s4, 8, e)
  <2>1. 8 \in Nat /\ 6 \in Nat /\ 14 = 8 + 6
    OBVIOUS
  <2>2. Bytes(s4, 14) /\ Has(s4, 0, s3) /\ Has(s4, 8, e) /\ Within(s3, s4)
    BY <1>1, <1>6, <2>1, Extend, Zenon DEF s4
  <2>3. QED
    BY <1>1, <1>6, <2>2, InBoth
<1>8. /\ Bytes(s5, 18) /\ Has(s5, 0, a) /\ Has(s5, 2, b) /\ Has(s5, 4, c)
      /\ Has(s5, 6, d) /\ Has(s5, 8, e) /\ Has(s5, 14, f)
  <2>1. 14 \in Nat /\ 4 \in Nat /\ 18 = 14 + 4
    OBVIOUS
  <2>2. Bytes(s5, 18) /\ Has(s5, 0, s4) /\ Has(s5, 14, f) /\ Within(s4, s5)
    BY <1>1, <1>7, <2>1, Extend, Zenon DEF s5
  <2>3. QED
    BY <1>1, <1>7, <2>2, InBoth
<1>9. /\ Bytes(s6, 24) /\ Has(s6, 0, a) /\ Has(s6, 2, b) /\ Has(s6, 4, c)
      /\ Has(s6, 6, d) /\ Has(s6, 8, e) /\ Has(s6, 14, f) /\ Has(s6, 18, g)
  <2>1. 18 \in Nat /\ 6 \in Nat /\ 24 = 18 + 6
    OBVIOUS
  <2>2. Bytes(s6, 24) /\ Has(s6, 0, s5) /\ Has(s6, 18, g) /\ Within(s5, s6)
    BY <1>1, <1>8, <2>1, Extend, Zenon DEF s6
  <2>3. QED
    BY <1>1, <1>8, <2>2, InBoth
<1>10. /\ Bytes(s7, 28) /\ Has(s7, 0, a) /\ Has(s7, 2, b) /\ Has(s7, 4, c)
      /\ Has(s7, 6, d) /\ Has(s7, 8, e) /\ Has(s7, 14, f) /\ Has(s7, 18, g)
      /\ Has(s7, 24, h)
  <2>1. 24 \in Nat /\ 4 \in Nat /\ 28 = 24 + 4
    OBVIOUS
  <2>2. Bytes(s7, 28) /\ Has(s7, 0, s6) /\ Has(s7, 24, h) /\ Within(s6, s7)
    BY <1>1, <1>9, <2>1, Extend, Zenon DEF s7
  <2>3. QED
    BY <1>1, <1>9, <2>2, InBoth
<1>11. QED
  BY <1>2, <1>3, <1>10

-----------------------------------------------------------------------------
(* What a buffer holds on its way *)

\* There is room in the read buffer for the header of a segment and a byte more,
\* and only a segment without text has options.
HeaderFits(m) ==
    34 + 4 * m.hdr.data_offset < RxBuffer /\ (m.hdr.data_offset = 5 \/ m.data = <<>>)

\* What was to be told: a segment, the answer to an echo request, an address.
MeantTcp(m) ==
    /\ m = [kind |-> "tcp", hdr |-> m.hdr, mss |-> m.mss, data |-> m.data]
    /\ m.hdr \in HdrT /\ m.data \in Seq(Byte) /\ HeaderFits(m)
MeantEcho(m) ==
    /\ m = [kind |-> "icmp", type |-> <<0>>, id |-> m.id, seq |-> m.seq, data |-> m.data]
    /\ Bytes(m.id, 2) /\ Bytes(m.seq, 2) /\ m.data \in Seq(Byte)
MeantArp(m) == m = [kind |-> "arp", sha |-> Mac["b"], spa |-> Ip["b"]]

\* The bytes p are the segment that m says, if pad with bytes behind it.
IsSegment(p, m, pad) ==
    /\ TcpFields(p, m.hdr)
    /\ Has(p, 4 * m.hdr.data_offset, m.data)
    /\ IF "SYN" \in m.hdr.flags
       THEN Says(SubSeq(p, 21, 4 * m.hdr.data_offset), m.mss)
       ELSE m.mss = <<>>
    /\ ~pad => Len(p) = 4 * m.hdr.data_offset + Len(m.data)

\* The request, or the reply.
IsEcho(p, m, type) ==
    Has(p, 0, <<type>>) /\ Has(p, 4, m.id) /\ Has(p, 6, m.seq) /\ Has(p, 8, m.data)

\* The request of host a, or the answer of host b.
IsArp(p, sender) ==
    IF sender = "a" THEN ArpFields(p, 1, Mac["a"], Ip["a"], <<0, 0, 0, 0, 0, 0>>, Ip["b"])
    ELSE ArpFields(p, 2, Mac["b"], Ip["b"], Mac["a"], Ip["a"])

EchoType(sender) == IF sender = "a" THEN 8 ELSE 0
ProtoOf(m) == IF m.kind = "tcp" THEN 6 ELSE 1

\* What an IPv4 packet carries.
IsMessage(p, m, sender, pad) ==
    /\ p \in Seq(Byte)
    /\ \/ MeantTcp(m) /\ IsSegment(p, m, pad)
       \/ MeantEcho(m) /\ IsEcho(p, m, EchoType(sender))

IsPacket(q, m, sender, pad) ==
    /\ q \in Seq(Byte) /\ 20 <= Len(q) /\ q[1] = 69 /\ q[10] = ProtoOf(m)
    /\ IsMessage(Rest(q, 20), m, sender, pad)

IsFrame(f, m, sender, pad) ==
    /\ f \in Seq(Byte) /\ 14 <= Len(f)
    /\ \/ MeantArp(m) /\ Has(f, 12, <<8, 6>>) /\ IsArp(Rest(f, 14), sender)
       \/ Has(f, 12, <<8, 0>>) /\ IsPacket(Rest(f, 14), m, sender, pad)

\* The bytes r begin as p does, but for the checksum of a segment.
Like(p, r) == Len(p) <= Len(r) /\ \A i \in 1 .. Len(p) : i # 17 /\ i # 18 => r[i] = p[i]

\* Such bytes have the same fields.
LEMMA LikeHas ==
    ASSUME NEW p \in Seq(Byte), NEW r \in Seq(Byte), Like(p, r), NEW n \in Nat, NEW x \in Seq(Byte),
           Has(p, n, x), n + Len(x) <= 16 \/ 18 <= n
    PROVE  Has(r, n, x)
<1>1. Len(p) \in Nat /\ Len(r) \in Nat /\ Len(x) \in Nat
  OBVIOUS
<1>2. Len(p) <= Len(r) /\ \A i \in 1 .. Len(p) : i # 17 /\ i # 18 => r[i] = p[i]
  BY DEF Like
<1>3. n + Len(x) <= Len(p)
  BY DEF Has
<1>4. ASSUME NEW i \in 1 .. Len(x) PROVE r[n + i] = p[n + i]
  <2>1. n + i \in 1 .. Len(p) /\ n + i # 17 /\ n + i # 18
    BY <1>1, <1>3
  <2>2. QED
    BY <1>2, <2>1
<1>5. n + Len(x) <= Len(r)
  BY <1>1, <1>2, <1>3
<1>6. QED
  BY <1>1, <1>4, <1>5, HasKept

\* Such bytes are the same segment.
LEMMA LikeSegment ==
    ASSUME NEW p \in Seq(Byte), NEW r \in Seq(Byte), Like(p, r), NEW m, MeantTcp(m),
           NEW pad \in BOOLEAN, NEW more \in BOOLEAN, IsSegment(p, m, pad),
           ~more => ~pad /\ Len(r) = Len(p)
    PROVE  IsSegment(r, m, more)
<1> DEFINE h == m.hdr
           n == 4 * h.data_offset
           a == SubSeq(p, 21, n)
           b == SubSeq(r, 21, n)
<1>1. h \in HdrT /\ m.data \in Seq(Byte)
  BY DEF MeantTcp
<1>2. /\ h.src_port \in Seq(Byte) /\ Len(h.src_port) = 2 /\ h.dst_port \in Seq(Byte) /\ Len(h.dst_port) = 2
      /\ h.seq_no \in Seq(Byte) /\ Len(h.seq_no) = 4 /\ h.ack_no \in Seq(Byte) /\ Len(h.ack_no) = 4
      /\ h.window \in Seq(Byte) /\ Len(h.window) = 2
      /\ h.data_offset \in Nat /\ 5 <= h.data_offset
      /\ Digits(OffsetFlags(h)) \in Seq(Byte) /\ Len(Digits(OffsetFlags(h))) = 2
  BY <1>1, HdrIs
<1>3. n \in Nat /\ 20 <= n
  BY <1>2
<1>4. /\ TcpFields(p, h) /\ Has(p, n, m.data) /\ (~pad => Len(p) = n + Len(m.data))
      /\ IF "SYN" \in h.flags THEN Says(a, m.mss) ELSE m.mss = <<>>
  BY DEF IsSegment
<1> HIDE DEF h, n
<1>5. TcpFields(r, h)
  <2>1. /\ Has(p, 0, h.src_port) /\ Has(p, 2, h.dst_port) /\ Has(p, 4, h.seq_no) /\ Has(p, 8, h.ack_no)
        /\ Has(p, 12, Digits(OffsetFlags(h))) /\ Has(p, 14, h.window)
    BY <1>4 DEF TcpFields
  <2>2. ASSUME NEW k \in Nat, NEW j \in Nat, NEW x, Bytes(x, k), Has(p, j, x), j + k <= 16
        PROVE  Has(r, j, x)
    BY <2>2, LikeHas DEF Bytes
  <2>3. /\ Bytes(h.src_port, 2) /\ Bytes(h.dst_port, 2) /\ Bytes(h.seq_no, 4) /\ Bytes(h.ack_no, 4)
        /\ Bytes(Digits(OffsetFlags(h)), 2) /\ Bytes(h.window, 2)
    BY <1>2 DEF Bytes
  <2>4. /\ 0 + 2 <= 16 /\ 2 + 2 <= 16 /\ 4 + 4 <= 16 /\ 8 + 4 <= 16 /\ 12 + 2 <= 16 /\ 14 + 2 <= 16
        /\ 0 \in Nat /\ 2 \in Nat /\ 4 \in Nat /\ 8 \in Nat /\ 12 \in Nat /\ 14 \in Nat
    OBVIOUS
  <2>5. /\ Has(r, 0, h.src_port) /\ Has(r, 2, h.dst_port) /\ Has(r, 4, h.seq_no) /\ Has(r, 8, h.ack_no)
        /\ Has(r, 12, Digits(OffsetFlags(h))) /\ Has(r, 14, h.window)
    BY <2>1, <2>2, <2>3, <2>4, Zenon
  <2>6. QED
    BY <2>5 DEF TcpFields
<1>6. Has(r, n, m.data)
  BY <1>1, <1>3, <1>4, LikeHas
<1>7. n <= Len(p) /\ Len(p) \in Nat /\ Len(r) \in Nat /\ n <= Len(r)
  <2>1. n + Len(m.data) <= Len(p) /\ Len(m.data) \in Nat /\ Len(p) <= Len(r)
    BY <1>1, <1>4 DEF Has, Like
  <2>2. QED
    BY <1>3, <2>1
<1>8. a = b
  <2>1. /\ 20 \in Nat /\ 20 <= n /\ 20 + 1 = 21 /\ n - 20 \in Nat
        /\ \A i \in 1 .. n - 20 : 20 + i \in 1 .. Len(p) /\ 20 + i # 17 /\ 20 + i # 18
    BY <1>3, <1>7
  <2>2. SubSeq(p, 20 + 1, n) \in Seq(Byte) /\ Len(SubSeq(p, 20 + 1, n)) = n - 20
        /\ \A i \in 1 .. n - 20 : SubSeq(p, 20 + 1, n)[i] = p[20 + i]
    BY <1>3, <1>7, <2>1, Cut
  <2>3. SubSeq(r, 20 + 1, n) \in Seq(Byte) /\ Len(SubSeq(r, 20 + 1, n)) = n - 20
        /\ \A i \in 1 .. n - 20 : SubSeq(r, 20 + 1, n)[i] = r[20 + i]
    BY <1>3, <1>7, <2>1, Cut
  <2>4. \A i \in 1 .. n - 20 : r[20 + i] = p[20 + i]
    BY <2>1 DEF Like
  <2>5. /\ a \in Seq(Byte) /\ b \in Seq(Byte) /\ Len(a) = Len(b) /\ Len(a) = n - 20
        /\ \A i \in 1 .. n - 20 : a[i] = b[i]
    BY <2>1, <2>2, <2>3, <2>4
  <2> HIDE DEF a, b
  <2>6. QED
    BY <2>5, SameElements
<1>9. ~more => Len(r) = n + Len(m.data)
  BY <1>4
<1> HIDE DEF a, b
<1>10. IF "SYN" \in h.flags THEN Says(b, m.mss) ELSE m.mss = <<>>
  BY <1>4, <1>8
<1>11. QED
  BY <1>5, <1>6, <1>9, <1>10 DEF IsSegment, h, n, b

\* A segment has a header.
LEMMA SegmentLong ==
    ASSUME NEW p \in Seq(Byte), NEW m, MeantTcp(m), NEW pad, IsSegment(p, m, pad)
    PROVE  Len(p) \in Nat /\ 20 <= Len(p) /\ 4 * m.hdr.data_offset \in Nat
           /\ 20 <= 4 * m.hdr.data_offset /\ 4 * m.hdr.data_offset + Len(m.data) <= Len(p)
           /\ m.data \in Seq(Byte) /\ Len(m.data) \in Nat
<1> DEFINE d == m.hdr.data_offset
           k == Len(m.data)
           l == Len(p)
<1>1. m.hdr \in HdrT /\ m.data \in Seq(Byte)
  BY DEF MeantTcp
<1>2. d \in Nat /\ 5 <= d
  BY <1>1, HdrIs
<1>3. 4 * d + k <= l
  BY DEF IsSegment, Has
<1>4. k \in Nat /\ l \in Nat
  BY <1>1
<1> HIDE DEF d, k, l
<1>5. 4 * d \in Nat /\ 20 <= 4 * d /\ 20 <= l
  BY <1>2, <1>3, <1>4
<1>6. QED
  BY <1>1, <1>3, <1>4, <1>5, Zenon DEF d, k, l

\* A buffer is no larger than a number of 16 bits.
LEMMA Fits16 ==
    ASSUME NEW s, NEW h, Holds(s, h)
    PROVE  /\ Len(s.mem) \in Nat /\ Len(s.mem) <= Max16
           /\ h \in Nat /\ h + Len(payload(s)) = Len(s.mem) /\ Len(payload(s)) \in Nat
           /\ Len(payload(s)) <= Max16
<1>1. Max16 \in Nat
  BY Max16Is
<1>2. Len(s.mem) \in Nat /\ Len(s.mem) <= Max16
  BY PayloadIs DEF Holds
<1>3. h \in Nat /\ h <= Len(s.mem) /\ Len(payload(s)) = Len(s.mem) - h
  BY PayloadIs
<1>4. QED
  BY <1>1, <1>2, <1>3

\* The pseudo header in front of a segment of n bytes.
Pseudo(src, dst, n) == src \o dst \o <<0, 6>> \o Digits(n)

\* It has 12 bytes.
LEMMA PseudoIs ==
    ASSUME NEW src, NEW dst, Bytes(src, 4), Bytes(dst, 4), NEW n \in Nat, n <= Max16
    PROVE  Bytes(Pseudo(src, dst, n), 12)
           /\ Pseudo(src, dst, n) = produce_to_net(src) \o produce_to_net(dst) \o <<0, 6>> \o produce_to_net(Digits(n))
<1> DEFINE c == <<0, 6>>
           d == Digits(n)
           s1 == src \o dst
           s2 == s1 \o c
           s3 == s2 \o d
<1>1. Bytes(src, 4) /\ Bytes(dst, 4) /\ Bytes(c, 2) /\ Bytes(d, 2)
  <2>1. Bytes(c, 2)
    BY Literals, Tuples, Zenon
  <2>2. Bytes(d, 2)
    BY DigitsIs DEF Bytes
  <2>3. QED
    BY <2>1, <2>2
<1>2. produce_to_net(src) = src /\ produce_to_net(dst) = dst /\ produce_to_net(d) = d
  BY <1>1, Converted DEF Bytes
<1>3. Pseudo(src, dst, n) = s3
  BY DEF Pseudo
<1>4. s3 = produce_to_net(src) \o produce_to_net(dst) \o <<0, 6>> \o produce_to_net(Digits(n))
  BY <1>2, Zenon
<1> HIDE DEF c, d, s1, s2, s3
<1>5. 4 \in Nat /\ 8 \in Nat /\ 2 \in Nat /\ 10 \in Nat /\ 8 = 4 + 4 /\ 10 = 8 + 2 /\ 12 = 10 + 2
  OBVIOUS
<1>6. Bytes(s1, 8)
  BY <1>1, <1>5, Extend, Zenon DEF s1
<1>7. Bytes(s2, 10)
  BY <1>1, <1>5, <1>6, Extend, Zenon DEF s2
<1>8. Bytes(s3, 12)
  BY <1>1, <1>5, <1>7, Extend, Zenon DEF s3
<1>9. QED
  BY <1>3, <1>4, <1>8

\* r is m with x behind the first n bytes.
IsPatch(m, n, x, r) ==
    /\ r \in Seq(Byte) /\ Len(r) = Len(m)
    /\ \A i \in 1 .. Len(m) : r[i] = IF n < i /\ i <= n + Len(x) THEN x[i - n] ELSE m[i]

\* Patch is.
LEMMA BytePatch ==
    ASSUME NEW m \in Seq(Byte), NEW n \in Nat, NEW x \in Seq(Byte), n + Len(x) <= Len(m)
    PROVE  IsPatch(m, n, x, Patch(m, n, x))
  BY PatchIs DEF IsPatch

\* x is written into t, or into what is behind s.
Patches(s, t, n, x, k) ==
    s \in Seq(Byte) /\ t \in Seq(Byte) /\ n \in Nat /\ x \in Seq(Byte) /\ n + Len(x) <= Len(t) /\ k = Len(s) + n

\* It is the same.
LEMMA PatchBehind ==
    ASSUME NEW s, NEW t, NEW n, NEW x, NEW k, Patches(s, t, n, x, k)
    PROVE  Patch(s \o t, k, x) = s \o Patch(t, n, x)
<1>1. s \in Seq(Byte) /\ t \in Seq(Byte) /\ n \in Nat /\ x \in Seq(Byte) /\ n + Len(x) <= Len(t) /\ k = Len(s) + n
  BY DEF Patches
<1>2. PatchFits(Byte, t, n, x)
  BY <1>1 DEF PatchFits
<1>3. Patch(s \o t, Len(s) + n, x) = s \o Patch(t, n, x)
  <2>1. \A u : PatchFits(Byte, u, n, x) => Patch(s \o u, Len(s) + n, x) = s \o Patch(u, n, x)
    <3>1. s \in Seq(Byte)
      BY <1>1
    <3>2. QED
      BY ONLY <3>1, PatchConcat
  <2>2. QED
    BY ONLY <1>2, <2>1, Zenon
<1>4. QED
  BY <1>1, <1>3

\* Two bytes are replaced.
LEMMA TwoPatched ==
    ASSUME NEW m \in Seq(Byte), NEW n \in Nat, NEW x \in Seq(Byte), Len(x) = 2, n + 2 <= Len(m)
    PROVE  /\ Patch(m, n, x) \in Seq(Byte) /\ Len(Patch(m, n, x)) = Len(m)
           /\ Patch(m, n, x)[n + 1] = x[1] /\ Patch(m, n, x)[n + 2] = x[2]
           /\ \A i \in 1 .. Len(m) : i # n + 1 /\ i # n + 2 => Patch(m, n, x)[i] = m[i]
<1> DEFINE r == Patch(m, n, x)
<1>1. n + Len(x) <= Len(m) /\ Len(m) \in Nat
  OBVIOUS
<1>2. /\ r \in Seq(Byte) /\ Len(r) = Len(m)
      /\ \A i \in 1 .. Len(m) : r[i] = IF n < i /\ i <= n + Len(x) THEN x[i - n] ELSE m[i]
  <2>1. IsPatch(m, n, x, r)
    BY <1>1, BytePatch
  <2>2. QED
    BY <2>1 DEF IsPatch
<1> HIDE DEF r
<1>3. n + 1 \in 1 .. Len(m) /\ n + 2 \in 1 .. Len(m) /\ n + 1 - n = 1 /\ n + 2 - n = 2
  BY <1>1
<1>4. r[n + 1] = x[1] /\ r[n + 2] = x[2]
  BY <1>2, <1>3
<1>5. ASSUME NEW i \in 1 .. Len(m), i # n + 1, i # n + 2 PROVE r[i] = m[i]
  <2>1. ~(n < i /\ i <= n + Len(x))
    BY <1>1, <1>5
  <2>2. QED
    BY <1>2, <2>1
<1>6. QED
  BY <1>2, <1>4, <1>5 DEF r

\* tcp::process: the checksum is right, and nothing else of the segment changes.
LEMMA TcpChecksum ==
    ASSUME NEW s, Holds(s, 34), NEW q, Bytes(q.src, 4), Bytes(q.dst, 4), q.proto = 6,
           payload(s) \in Seq(Byte), NEW m, MeantTcp(m), NEW pad \in BOOLEAN, IsSegment(payload(s), m, pad)
    PROVE  /\ Holds(with_tcp_checksum(s, q), 34)
           /\ payload(with_tcp_checksum(s, q)) \in Seq(Byte)
           /\ IsSegment(payload(with_tcp_checksum(s, q)), m, pad)
           /\ Verifies(Pseudo(q.src, q.dst, Len(payload(with_tcp_checksum(s, q))))
                            \o payload(with_tcp_checksum(s, q)))
<1> DEFINE p == payload(s)
           N == Len(p)
           z == <<0, 0>>
           f == Pseudo(q.src, q.dst, N)
           s1 == put(check(s, N >= TcpSize), 16, z)
           s2 == put(push_front(s1, Len(f)), 0, f)
           c == checksum(payload(s2))
           s3 == pop_front(summed(s2), Len(f))
           s4 == put(s3, 16, c)
           p1 == Patch(p, 16, z)
           p2 == f \o p1
           p4 == Patch(p1, 16, c)
<1>1. N \in Nat /\ 20 <= N /\ N <= Max16
  BY SegmentLong, Fits16
<1>2. Bytes(f, 12) /\ f = produce_to_net(q.src) \o produce_to_net(q.dst) \o <<0, 6>> \o produce_to_net(Digits(N))
  BY <1>1, PseudoIs
<1>3. with_tcp_checksum(s, q) = s4
  BY <1>2, Zenon DEF with_tcp_checksum
<1>4. f \in Seq(Byte) /\ Len(f) = 12 /\ f \in Seq(Cell)
  BY <1>2, BytesAreCells DEF Bytes
<1>5. z \in Seq(Byte) /\ z \in Seq(Cell) /\ Len(z) = 2 /\ z[1] = 0 /\ z[2] = 0
  <2>1. z \in Seq(Byte) /\ Len(z) = 2 /\ z[1] = 0 /\ z[2] = 0
    BY Literals, PairIs
  <2> HIDE DEF z
  <2>2. QED
    BY <2>1, BytesAreCells
<1> HIDE DEF f, z
<1>6. Holds(s1, 34) /\ payload(s1) = p1
  <2>1. check(s, N >= TcpSize) = s
    <3>1. s \in Skb /\ s.ok = TRUE
      BY DEF Holds
    <3>2. N >= TcpSize
      BY <1>1 DEF TcpSize
    <3>3. QED
      BY <3>1, <3>2, CheckHolds
  <2>2. 16 \in Nat /\ 16 + Len(z) <= N
    BY <1>1, <1>5
  <2>3. Holds(put(s, 16, z), 34) /\ payload(put(s, 16, z)) = Patch(payload(s), 16, z)
    BY <1>5, <2>2, Put
  <2>4. QED
    BY <2>1, <2>3
<1>7. p1 \in Seq(Byte) /\ Len(p1) = N /\ p1[17] = 0 /\ p1[18] = 0
      /\ \A i \in 1 .. N : i # 17 /\ i # 18 => p1[i] = p[i]
  <2>1. 16 \in Nat /\ 16 + 2 <= N /\ 16 + 1 = 17 /\ 16 + 2 = 18
    BY <1>1
  <2>2. /\ p1 \in Seq(Byte) /\ Len(p1) = Len(p) /\ p1[16 + 1] = z[1] /\ p1[16 + 2] = z[2]
        /\ \A i \in 1 .. Len(p) : i # 16 + 1 /\ i # 16 + 2 => p1[i] = p[i]
    BY <1>5, <2>1, TwoPatched
  <2> HIDE DEF p1, p
  <2>3. QED
    BY <1>5, <2>1, <2>2
<1>18. p1 \in Seq(Byte) /\ Len(p1) = N /\ f \in Seq(Byte) /\ Len(f) = 12
  BY <1>4, <1>7
<1> HIDE DEF s1, p1
<1>8. Holds(s2, 22) /\ payload(s2) = p2
  <2>1. 12 <= 34 /\ 34 - 12 = 22
    OBVIOUS
  <2>2. Holds(put(push_front(s1, 12), 0, f), 34 - 12) /\ payload(put(push_front(s1, 12), 0, f)) = f \o payload(s1)
    BY <1>4, <1>6, <2>1, Prepend
  <2>3. QED
    BY <1>4, <1>6, <2>1, <2>2
<1>9. summed(s2) = s2
  <2>1. s2 \in Skb /\ s2.ok = TRUE /\ s2.head = 22
    BY <1>8 DEF Holds
  <2> HIDE DEF s2
  <2>2. s2.head % 2 = 0
    BY <2>1
  <2>3. QED
    BY <2>1, <2>2, CheckHolds DEF summed
<1> HIDE DEF s2
<1>10. Holds(s3, 34) /\ payload(s3) = p1
  <2>1. payload(s2) = p2 /\ p2 \in Seq(Byte) /\ Len(p2) = 12 + N
    <3>1. p2 \in Seq(Byte) /\ Len(p2) = Len(f) + Len(p1)
      BY <1>18, HasConcat, Zenon
    <3>2. QED
      BY <1>8, <1>18, <3>1
  <2>2. 12 \in Nat /\ 12 <= Len(payload(s2)) /\ 22 + 12 = 34
    BY <1>1, <2>1
  <2>3. Holds(pop_front(s2, 12), 22 + 12) /\ payload(pop_front(s2, 12)) = Rest(payload(s2), 12)
    BY <1>8, <2>2, PopFront
  <2>4. Rest(p2, 12) = p1
    <3>1. Rest(p2, Len(f)) = p1
      BY <1>18, SplitConcat, Zenon
    <3>2. QED
      BY <1>18, <3>1
  <2>5. QED
    BY <1>4, <1>9, <2>1, <2>2, <2>3, <2>4
<1>11. p2 \in Seq(Byte) /\ Len(p2) = 12 + N /\ p2[28 + 1] = 0 /\ p2[28 + 2] = 0
  <2>1. p2 \in Seq(Byte) /\ Len(p2) = 12 + N /\ Has(p2, 12, p1)
    <3>1. p2 \in Seq(Byte) /\ Len(p2) = Len(f) + Len(p1) /\ Has(p2, Len(f), p1)
      BY <1>18, HasConcat, Zenon
    <3>2. QED
      BY <1>18, <3>1
  <2> HIDE DEF p2
  <2>2. \A i \in 1 .. N : p2[12 + i] = p1[i]
    BY <1>7, <2>1 DEF Has
  <2>3. 17 \in 1 .. N /\ 18 \in 1 .. N /\ 12 + 17 = 28 + 1 /\ 12 + 18 = 28 + 2
    BY <1>1
  <2>4. p2[12 + 17] = p1[17] /\ p2[12 + 18] = p1[18]
    BY <2>2, <2>3
  <2>5. QED
    BY <1>7, <2>1, <2>3, <2>4
<1> HIDE DEF s3
<1>12. c \in Seq(Byte) /\ Len(c) = 2 /\ Verifies(Patch(p2, 28, c))
  <2>1. 28 \in Nat /\ 28 % 2 = 0 /\ 28 + 2 <= Len(p2)
    BY <1>1, <1>11
  <2> HIDE DEF p2
  <2>2. checksum(p2) \in Seq(Byte) /\ Len(checksum(p2)) = 2 /\ Verifies(Patch(p2, 28, checksum(p2)))
    BY <1>11, <2>1, ChecksumVerifies
  <2>3. QED
    BY <1>8, <2>2
<1> HIDE DEF c
<1>13. Patch(p2, 28, c) = f \o p4
  <2>1. 16 \in Nat /\ 16 + Len(c) <= Len(p1) /\ Len(f) + 16 = 28
    BY <1>1, <1>4, <1>7, <1>12
  <2>2. Patches(f, p1, 16, c, 28)
    BY <1>12, <1>18, <2>1 DEF Patches
  <2>3. QED
    BY <2>2, PatchBehind
<1>14. /\ p4 \in Seq(Byte) /\ Len(p4) = N
       /\ \A i \in 1 .. N : i # 17 /\ i # 18 => p4[i] = p[i]
  <2>1. 16 \in Nat /\ 16 + 2 <= Len(p1) /\ 16 + 1 = 17 /\ 16 + 2 = 18
    BY <1>1, <1>18
  <2>2. /\ p4 \in Seq(Byte) /\ Len(p4) = Len(p1)
        /\ \A i \in 1 .. Len(p1) : i # 16 + 1 /\ i # 16 + 2 => p4[i] = p1[i]
    BY <1>12, <1>18, <2>1, TwoPatched
  <2> HIDE DEF p4, p, N
  <2>3. \A i \in 1 .. N : i # 17 /\ i # 18 => p4[i] = p1[i]
    BY <1>18, <2>1, <2>2
  <2>4. QED
    BY <1>7, <2>2, <2>3
<1>15. Holds(s4, 34) /\ payload(s4) = p4
  <2>1. c \in Seq(Cell) /\ 16 \in Nat /\ 16 + Len(c) <= Len(payload(s3))
    BY <1>1, <1>7, <1>10, <1>12, BytesAreCells
  <2>2. Holds(put(s3, 16, c), 34) /\ payload(put(s3, 16, c)) = Patch(payload(s3), 16, c)
    BY <1>10, <2>1, Put
  <2>3. QED
    BY <1>10, <2>2
<1> HIDE DEF s4, p4
<1>16. IsSegment(p4, m, pad)
  <2>1. Like(p, p4)
    BY <1>1, <1>14 DEF Like
  <2>2. QED
    BY <1>14, <2>1, LikeSegment
<1>17. QED
  BY <1>3, <1>12, <1>13, <1>14, <1>15, <1>16 DEF f

\* x is written into s.
PatchesFront(s, n, x) == s \in Seq(Byte) /\ n \in Nat /\ x \in Seq(Byte) /\ n + Len(x) <= Len(s)

\* What is written into the front part leaves the back part alone.
LEMMA PatchFront ==
    ASSUME NEW s, NEW t, NEW n, NEW x, t \in Seq(Byte), PatchesFront(s, n, x)
    PROVE  Patch(s \o t, n, x) = Patch(s, n, x) \o t
<1>0. s \in Seq(Byte) /\ n \in Nat /\ x \in Seq(Byte) /\ n + Len(x) <= Len(s)
  BY DEF PatchesFront
<1> DEFINE u == s \o t
           a == Patch(u, n, x)
           g == Patch(s, n, x)
           b == g \o t
           k == Len(s)
           l == Len(t)
<1>1. k \in Nat /\ l \in Nat /\ Len(x) \in Nat
  BY <1>0
<1>2. IsConcat(s, t, u) /\ u \in Seq(Byte)
  BY <1>0, ConcatIs
<1>3. /\ Len(u) = k + l /\ \A i \in 1 .. k : u[i] = s[i]
      /\ \A i \in 1 .. l : u[k + i] = t[i]
  BY <1>2 DEF IsConcat
<1>4. IsPatch(s, n, x, g)
  BY <1>0, BytePatch
<1>5. IsPatch(u, n, x, a)
  <2>1. n + Len(x) <= Len(u)
    BY <1>0, <1>1, <1>3
  <2>2. QED
    BY <1>0, <1>2, <2>1, BytePatch
<1> HIDE DEF u, a, g
<1>6. g \in Seq(Byte) /\ Len(g) = k
      /\ \A i \in 1 .. k : g[i] = IF n < i /\ i <= n + Len(x) THEN x[i - n] ELSE s[i]
  BY <1>4 DEF IsPatch
<1>7. a \in Seq(Byte) /\ Len(a) = k + l
      /\ \A i \in 1 .. k + l : a[i] = IF n < i /\ i <= n + Len(x) THEN x[i - n] ELSE u[i]
  BY <1>3, <1>5 DEF IsPatch
<1>8. IsConcat(g, t, b) /\ b \in Seq(Byte)
  BY <1>6, ConcatIs
<1>9. /\ Len(b) = k + l /\ \A i \in 1 .. k : b[i] = g[i]
      /\ \A i \in 1 .. l : b[k + i] = t[i]
  BY <1>6, <1>8 DEF IsConcat
<1> HIDE DEF b
<1> DEFINE e(i) == x[i - n]
<1>10. ASSUME NEW i \in 1 .. k + l PROVE a[i] = b[i]
  <2>1. a[i] = IF n < i /\ i <= n + Len(x) THEN e(i) ELSE u[i]
    BY <1>7
  <2> HIDE DEF e, k, l
  <2>2. CASE i <= k
    <3>1. i \in 1 .. k
      BY <1>1, <2>2
    <3>2. b[i] = g[i] /\ u[i] = s[i]
      BY <1>3, <1>9, <3>1
    <3>3. g[i] = IF n < i /\ i <= n + Len(x) THEN e(i) ELSE s[i]
      BY <1>6, <3>1 DEF e
    <3>4. QED
      BY <2>1, <3>2, <3>3
  <2>3. CASE ~(i <= k)
    <3>1. i - k \in 1 .. l /\ k + (i - k) = i /\ ~(i <= n + Len(x))
      BY <1>0, <1>1, <2>3 DEF k
    <3>2. b[i] = t[i - k] /\ u[i] = t[i - k]
      BY <1>3, <1>9, <3>1
    <3>3. QED
      BY <2>1, <3>1, <3>2
  <2>4. QED
    BY <2>2, <2>3
<1>11. a = b
  BY <1>7, <1>8, <1>9, <1>10, SameElements
<1>12. QED
  BY <1>11 DEF a, b, g, u

\* Two parts, one behind the other.
LEMMA HasBoth ==
    ASSUME NEW m, NEW n \in Nat, NEW x, NEW y, NEW k \in Nat, NEW l \in Nat, Bytes(x, k), Bytes(y, l),
           Has(m, n, x), NEW q, q = n + k, Has(m, q, y), NEW j, j = k + l
    PROVE  Has(m, n, x \o y) /\ Bytes(x \o y, j)
<1> DEFINE r == x \o y
<1>1. x \in Seq(Byte) /\ Len(x) = k /\ y \in Seq(Byte) /\ Len(y) = l
  BY DEF Bytes
<1>2. IsConcat(x, y, r) /\ r \in Seq(Byte)
  BY <1>1, ConcatIs
<1>3. /\ Len(r) = k + l /\ \A i \in 1 .. k : r[i] = x[i]
      /\ \A i \in 1 .. l : r[k + i] = y[i]
  BY <1>1, <1>2 DEF IsConcat
<1>4. /\ (n + k) + l <= Len(m) /\ \A i \in 1 .. k : m[n + i] = x[i]
      /\ \A i \in 1 .. l : m[(n + k) + i] = y[i]
  BY <1>1 DEF Has
<1> HIDE DEF r
<1>5. ASSUME NEW i \in 1 .. k + l PROVE m[n + i] = r[i]
  <2>1. CASE i <= k
    <3>1. i \in 1 .. k
      BY <2>1
    <3>2. QED
      BY <1>3, <1>4, <3>1
  <2>2. CASE ~(i <= k)
    <3>1. i - k \in 1 .. l /\ k + (i - k) = i /\ (n + k) + (i - k) = n + i
      BY <2>2
    <3>2. r[k + (i - k)] = y[i - k] /\ m[(n + k) + (i - k)] = y[i - k]
      BY <1>3, <1>4, <3>1
    <3>3. QED
      BY <3>1, <3>2
  <2>3. QED
    BY <2>1, <2>2
<1>6. n + (k + l) <= Len(m)
  <2>1. (n + k) + l = n + (k + l)
    OBVIOUS
  <2>2. QED
    BY <1>4, <2>1
<1>7. QED
  BY <1>2, <1>3, <1>5, <1>6 DEF Has, Bytes, r

\* The positions of the k bytes behind the first n.
Positions(n, k, i, j) == n \in Nat /\ k \in Nat /\ i = n + 1 /\ j = n + k
IsCut(m, i, j, x) == SubSeq(m, i, j) = x

\* k bytes that are there are what is cut out.
LEMMA CutBytes ==
    ASSUME NEW m, m \in Seq(Byte), NEW n, NEW k, NEW x, Bytes(x, k), Has(m, n, x),
           NEW i, NEW j, Positions(n, k, i, j)
    PROVE  IsCut(m, i, j, x)
<1>0. n \in Nat /\ k \in Nat /\ i = n + 1 /\ j = n + k
  BY DEF Positions
<1>1. x \in Seq(Byte) /\ Len(x) = k
  BY DEF Bytes
<1>2. SubSeq(m, n + 1, n + Len(x)) = x
  BY <1>0, <1>1, CutHas
<1>3. QED
  BY <1>0, <1>1, <1>2 DEF IsCut

\* The checksum of an IPv4 header changes nothing else of it.
LEMMA HeaderChecksum ==
    ASSUME NEW a, Bytes(a, 20), NEW len \in Nat, len <= Max16, NEW proto \in Byte, NEW src, NEW dst,
           Bytes(src, 4), Bytes(dst, 4), Ipv4Fields(a, len, proto, src, dst),
           NEW c, c = checksum(a), NEW g, g = Patch(a, 10, c)
    PROVE  /\ Bytes(c, 2) /\ Bytes(g, 20) /\ Verifies(g) /\ g[1] = 69 /\ g[10] = proto
           /\ Has(g, 2, Digits(len)) /\ Has(g, 12, src) /\ Has(g, 16, dst)
<1>1. a \in Seq(Byte) /\ Len(a) = 20
  BY DEF Bytes
<1>2. a[1] = 69 /\ a[10] = proto /\ a[11] = 0 /\ a[12] = 0
  <2> DEFINE x == <<69, 0>>
             y == <<64, proto, 0, 0>>
  <2>1. Len(x) = 2 /\ x[1] = 69 /\ Len(y) = 4 /\ y[2] = proto /\ y[3] = 0 /\ y[4] = 0
    OBVIOUS
  <2>2. Has(a, 0, x) /\ Has(a, 8, y)
    BY DEF Ipv4Fields
  <2> HIDE DEF x, y
  <2>3. (\A i \in 1 .. 2 : a[0 + i] = x[i]) /\ \A i \in 1 .. 4 : a[8 + i] = y[i]
    BY <2>1, <2>2 DEF Has
  <2>4. a[0 + 1] = x[1] /\ a[8 + 2] = y[2] /\ a[8 + 3] = y[3] /\ a[8 + 4] = y[4]
    BY <2>3
  <2>5. QED
    BY <2>1, <2>4
<1>3. Bytes(c, 2) /\ Verifies(g)
  <2>1. 10 \in Nat /\ 10 % 2 = 0 /\ 10 + 2 <= Len(a) /\ a[10 + 1] = 0 /\ a[10 + 2] = 0
    BY <1>1, <1>2
  <2>2. checksum(a) \in Seq(Byte) /\ Len(checksum(a)) = 2 /\ Verifies(Patch(a, 10, checksum(a)))
    BY <1>1, <2>1, ChecksumVerifies
  <2>3. QED
    BY <2>2 DEF Bytes
<1>4. /\ g \in Seq(Byte) /\ Len(g) = 20
      /\ \A i \in 1 .. 20 : i # 11 /\ i # 12 => g[i] = a[i]
  <2>1. c \in Seq(Byte) /\ Len(c) = 2 /\ 10 \in Nat /\ 10 + 2 <= Len(a) /\ 10 + 1 = 11 /\ 10 + 2 = 12
    BY <1>1, <1>3 DEF Bytes
  <2>2. /\ Patch(a, 10, c) \in Seq(Byte) /\ Len(Patch(a, 10, c)) = Len(a)
        /\ \A i \in 1 .. Len(a) : i # 10 + 1 /\ i # 10 + 2 => Patch(a, 10, c)[i] = a[i]
    <3>1. PatchFits(Byte, a, 10, c)
      BY <1>1, <2>1 DEF PatchFits
    <3>2. IsPatchOf(Byte, a, 10, c, Patch(a, 10, c))
      BY <3>1, PatchOf
    <3>3. QED
      BY <2>1, <3>2 DEF IsPatchOf
  <2>3. QED
    BY <1>1, <2>1, <2>2
<1>5. g[1] = 69 /\ g[10] = proto
  <2>1. 1 \in 1 .. 20 /\ 10 \in 1 .. 20
    OBVIOUS
  <2>2. g[1] = a[1] /\ g[10] = a[10]
    BY <1>4, <2>1
  <2>3. QED
    BY <1>2, <2>2
<1>6. ASSUME NEW n \in Nat, NEW x, Len(x) \in Nat, Has(a, n, x), n + Len(x) <= 10 \/ 12 <= n
      PROVE  Has(g, n, x)
  <2>1. n + Len(x) <= 20
    BY <1>1, <1>6 DEF Has
  <2>2. \A i \in 1 .. Len(x) : n + i \in 1 .. 20 /\ n + i # 11 /\ n + i # 12
    BY <1>6, <2>1
  <2>3. \A i \in 1 .. Len(x) : g[n + i] = a[n + i]
    BY <1>4, <2>2
  <2>4. n + Len(x) <= Len(g)
    BY <1>4, <2>1
  <2>5. QED
    BY <1>6, <2>3, <2>4, HasKept
<1>7. Has(a, 2, Digits(len)) /\ Has(a, 12, src) /\ Has(a, 16, dst)
  BY DEF Ipv4Fields
<1>8. Len(Digits(len)) = 2 /\ Len(src) = 4 /\ Len(dst) = 4
  BY DigitsIs DEF Bytes
<1>9. Has(g, 2, Digits(len))
  <2>1. 2 \in Nat /\ Len(Digits(len)) \in Nat /\ 2 + Len(Digits(len)) <= 10
    BY <1>8
  <2>2. QED
    BY <1>6, <1>7, <2>1, Zenon
<1>10. Has(g, 12, src)
  <2>1. 12 \in Nat /\ Len(src) \in Nat /\ 12 <= 12
    BY <1>8
  <2>2. QED
    BY <1>6, <1>7, <2>1, Zenon
<1>11. Has(g, 16, dst)
  <2>1. 16 \in Nat /\ Len(dst) \in Nat /\ 12 <= 16
    BY <1>8
  <2>2. QED
    BY <1>6, <1>7, <2>1, Zenon
<1>12. QED
  BY <1>3, <1>4, <1>5, <1>9, <1>10, <1>11 DEF Bytes

\* ipv4::process: the buffer holds a packet that a receiver accepts.
LEMMA Ipv4Header ==
    ASSUME NEW s, Holds(s, 34), NEW q, Bytes(q.src, 4), Bytes(q.dst, 4), q.proto \in Byte,
           payload(s) \in Seq(Byte), NEW id, Bytes(id, 2)
    PROVE  LET r == with_ipv4_header(s, q, id)
               w == payload(r)
           IN  /\ Holds(r, 14) /\ w \in Seq(Byte) /\ 20 <= Len(w) /\ w[1] = 69 /\ w[10] = q.proto
               /\ Number(SubSeq(w, 3, 4)) = Len(w) /\ Verifies(First(w, 20))
               /\ SubSeq(w, 13, 20) = q.src \o q.dst /\ Rest(w, 20) = payload(s)
<1> DEFINE p == payload(s)
           len == Len(p) + 20
           a == ipv4_header(q, len, id)
           s1 == put(push_front(s, 20), 0, a)
           c == checksum(a)
           s2 == put(s1, 10, c)
           g == Patch(a, 10, c)
           w == g \o p
<1>1. len \in Nat /\ len <= Max16 /\ Len(p) \in Nat
  BY Fits16, Max16Is
<1>2. Bytes(a, 20) /\ Ipv4Fields(a, len, q.proto, q.src, q.dst)
  BY <1>1, Ipv4HeaderIs
<1>3. a \in Seq(Byte) /\ Len(a) = 20 /\ a \in Seq(Cell)
  BY <1>2, BytesAreCells DEF Bytes
<1>4. with_ipv4_header(s, q, id) = put(summed(s1), 10, checksum(bytes_at(s1, 0, 20)))
  BY Zenon DEF with_ipv4_header, Ipv4Size
<1>5. /\ Bytes(c, 2) /\ Bytes(g, 20) /\ Verifies(g) /\ g[1] = 69 /\ g[10] = q.proto
      /\ Has(g, 2, Digits(len)) /\ Has(g, 12, q.src) /\ Has(g, 16, q.dst)
  <2> HIDE DEF a, len
  <2>1. QED
    BY <1>1, <1>2, HeaderChecksum
<1>6. c \in Seq(Byte) /\ c \in Seq(Cell) /\ Len(c) = 2 /\ g \in Seq(Byte) /\ Len(g) = 20
  BY <1>5, BytesAreCells DEF Bytes
<1> HIDE DEF a, c
<1>7. Holds(s1, 14) /\ payload(s1) = a \o p
  <2>1. 20 = Len(a) /\ 20 <= 34 /\ 34 - 20 = 14
    BY <1>3
  <2>2. Holds(put(push_front(s, 20), 0, a), 34 - 20) /\ payload(put(push_front(s, 20), 0, a)) = a \o payload(s)
    BY <1>3, <2>1, Prepend
  <2>3. QED
    BY <2>1, <2>2
<1> HIDE DEF s1
<1>8. summed(s1) = s1
  <2>1. s1 \in Skb /\ s1.ok = TRUE /\ s1.head = 14
    BY <1>7 DEF Holds
  <2>2. s1.head % 2 = 0
    BY <2>1
  <2>3. QED
    BY <2>1, <2>2, CheckHolds DEF summed
<1>9. a \o p \in Seq(Byte) /\ Len(a \o p) = len /\ First(a \o p, 20) = a
  <2>1. a \o p \in Seq(Byte) /\ Len(a \o p) = Len(a) + Len(p)
    BY <1>3, HasConcat, Zenon
  <2>2. First(a \o p, Len(a)) = a
    BY <1>3, SplitConcat, Zenon
  <2>3. QED
    BY <1>1, <1>3, <2>1, <2>2
<1>10. bytes_at(s1, 0, 20) = a
  <2>1. 0 \in Nat /\ 20 \in Nat /\ 0 + 20 <= Len(payload(s1)) /\ 0 + 1 = 1 /\ 0 + 20 = 20
    BY <1>1, <1>7, <1>9
  <2>2. bytes_at(s1, 0, 20) = SubSeq(payload(s1), 0 + 1, 0 + 20)
    BY <1>7, <2>1, BytesAt
  <2>3. QED
    BY <1>7, <1>9, <2>1, <2>2 DEF First
<1>11. with_ipv4_header(s, q, id) = s2
  BY <1>4, <1>8, <1>10 DEF c
<1>12. Holds(s2, 14) /\ payload(s2) = Patch(a \o p, 10, c)
  <2>1. 10 \in Nat /\ 10 + Len(c) <= Len(payload(s1))
    BY <1>1, <1>6, <1>7, <1>9
  <2>2. Holds(put(s1, 10, c), 14) /\ payload(put(s1, 10, c)) = Patch(payload(s1), 10, c)
    BY <1>6, <1>7, <2>1, Put
  <2>3. QED
    BY <1>7, <2>2
<1>13. Patch(a \o p, 10, c) = w
  <2>1. 10 \in Nat /\ 10 + Len(c) <= Len(a)
    BY <1>3, <1>6
  <2>2. p \in Seq(Byte) /\ PatchesFront(a, 10, c)
    BY <1>3, <1>6, <2>1 DEF PatchesFront
  <2> HIDE DEF p
  <2>3. QED
    BY <2>2, PatchFront
<1> DEFINE k == Len(p)
<1>14. Bytes(g, 20) /\ Bytes(p, k) /\ k \in Nat /\ len = 20 + k /\ 20 \in Nat
  BY <1>1, <1>5 DEF Bytes
<1> HIDE DEF g, s2, p, len, k
<1>15. Bytes(w, len) /\ Has(w, 0, g) /\ Within(g, w)
  BY <1>14, Extend, Zenon
<1>16. First(w, 20) = g /\ Rest(w, 20) = p
  <2>1. p \in Seq(Byte)
    BY DEF p
  <2>2. First(w, Len(g)) = g /\ Rest(w, Len(g)) = p
    BY <1>6, <2>1, SplitConcat, Zenon
  <2>3. QED
    BY <1>6, <2>2
<1> HIDE DEF w
<1>17. w \in Seq(Byte) /\ Len(w) = len /\ 20 <= Len(w)
  BY <1>1, <1>14, <1>15 DEF Bytes
<1>18. w[1] = 69 /\ w[10] = q.proto
  <2>1. \A i \in 1 .. 20 : w[0 + i] = g[i]
    BY <1>6, <1>15 DEF Has
  <2>2. w[0 + 1] = g[1] /\ w[0 + 10] = g[10]
    BY <2>1
  <2>3. QED
    BY <1>5, <2>2
<1>19. Bytes(Digits(len), 2) /\ Number(Digits(len)) = len
  BY <1>1, DigitsIs DEF Bytes
<1>20. Has(w, 2, Digits(len)) /\ Has(w, 12, q.src) /\ Has(w, 16, q.dst)
  <2>1. 2 \in Nat /\ 12 \in Nat /\ 16 \in Nat
    OBVIOUS
  <2>2. QED
    BY <1>5, <1>15, <1>19, <2>1, InBoth
<1>21. Number(SubSeq(w, 3, 4)) = Len(w)
  <2>1. Positions(2, 2, 3, 4)
    BY DEF Positions
  <2>2. IsCut(w, 3, 4, Digits(len))
    BY <1>17, <1>19, <1>20, <2>1, CutBytes, Zenon
  <2>3. QED
    BY <1>17, <1>19, <2>2 DEF IsCut
<1>22. SubSeq(w, 13, 20) = q.src \o q.dst
  <2>1. 12 \in Nat /\ 4 \in Nat /\ 16 = 12 + 4 /\ 8 = 4 + 4 /\ 8 \in Nat /\ Positions(12, 8, 13, 20)
    BY DEF Positions
  <2>2. Has(w, 12, q.src \o q.dst) /\ Bytes(q.src \o q.dst, 8)
    BY <1>20, <2>1, HasBoth, Zenon
  <2>3. IsCut(w, 13, 20, q.src \o q.dst)
    BY <1>17, <2>1, <2>2, CutBytes, Zenon
  <2>4. QED
    BY <2>3 DEF IsCut
<1>23. QED
  BY <1>5, <1>11, <1>12, <1>13, <1>16, <1>17, <1>18, <1>21, <1>22 DEF p

-----------------------------------------------------------------------------
(* What is read from a buffer *)

\* The two hosts.
LEMMA OtherIs ==
    ASSUME NEW h \in Host
    PROVE  /\ Other(h) \in Host /\ Other(Other(h)) = h
           /\ h = "a" <=> Other(h) # "a"
           /\ h = "a" \/ h = "b"
  BY DEF Host, Other

\* What is meant is of one kind.
LEMMA KindIs ==
    ASSUME NEW m
    PROVE  /\ MeantTcp(m) => m.kind = "tcp" /\ ProtoOf(m) = 6
           /\ MeantEcho(m) => m.kind = "icmp" /\ ProtoOf(m) = 1
           /\ MeantArp(m) => m.kind = "arp"
<1>1. MeantTcp(m) => m.kind = "tcp"
  BY DEF MeantTcp
<1>2. MeantEcho(m) => m.kind = "icmp"
  BY DEF MeantEcho
<1>3. MeantArp(m) => m.kind = "arp"
  BY DEF MeantArp
<1>4. QED
  BY <1>1, <1>2, <1>3 DEF ProtoOf

\* The k bytes at off of a buffer are x, also when they are converted.
Reads(s, off, k, x) == bytes_at(s, off, k) = x /\ consume_from_net(bytes_at(s, off, k)) = x

\* A field that the payload of a buffer has is what is read there.
LEMMA FieldIs ==
    ASSUME NEW s, NEW h, Holds(s, h), payload(s) \in Seq(Byte), NEW off \in Nat, NEW k \in Nat, NEW x,
           Bytes(x, k), Has(payload(s), off, x)
    PROVE  Reads(s, off, k, x)
<1>1. x \in Seq(Byte) /\ Len(x) = k
  BY DEF Bytes
<1>2. off + k <= Len(payload(s))
  BY <1>1 DEF Has
<1>3. bytes_at(s, off, k) = SubSeq(payload(s), off + 1, off + k)
  BY <1>2, BytesAt
<1>4. SubSeq(payload(s), off + 1, off + k) = x
  <2>1. Positions(off, k, off + 1, off + k)
    BY DEF Positions
  <2>2. QED
    BY <2>1, CutBytes DEF IsCut
<1>5. bytes_at(s, off, k) = x
  BY <1>3, <1>4
<1>6. QED
  BY <1>1, <1>5, Converted DEF Reads

\* r begins as p does.
Grows(p, r) == p \in Seq(Byte) /\ r \in Seq(Byte) /\ Len(p) <= Len(r) /\ \A i \in 1 .. Len(p) : r[i] = p[i]

\* What is there stays there.
LEMMA GrowsHas ==
    ASSUME NEW p, NEW r, Grows(p, r), NEW n \in Nat, NEW x, x \in Seq(Byte), Has(p, n, x)
    PROVE  Has(r, n, x)
<1>1. /\ p \in Seq(Byte) /\ r \in Seq(Byte) /\ Len(p) <= Len(r) /\ Len(p) \in Nat /\ Len(r) \in Nat
      /\ Len(x) \in Nat
      /\ \A i \in 1 .. Len(p) : r[i] = p[i]
  BY DEF Grows
<1>2. n + Len(x) <= Len(p)
  BY DEF Has
<1>3. n + Len(x) <= Len(r)
  BY <1>1, <1>2
<1>4. ASSUME NEW i \in 1 .. Len(x) PROVE r[n + i] = p[n + i]
  <2>1. n + i \in 1 .. Len(p)
    BY <1>1, <1>2
  <2>2. QED
    BY <1>1, <2>1
<1>5. QED
  BY <1>1, <1>3, <1>4, HasKept

\* So do the parts behind the first n bytes.
LEMMA GrowsRest ==
    ASSUME NEW p, NEW r, Grows(p, r), NEW n \in Nat, n <= Len(p)
    PROVE  /\ Grows(Rest(p, n), Rest(r, n)) /\ Len(Rest(p, n)) = Len(p) - n /\ Len(Rest(r, n)) = Len(r) - n
           /\ \A i \in 1 .. n : r[i] = p[i]
<1>1. /\ p \in Seq(Byte) /\ r \in Seq(Byte) /\ Len(p) <= Len(r) /\ Len(p) \in Nat /\ Len(r) \in Nat
      /\ \A i \in 1 .. Len(p) : r[i] = p[i]
  BY DEF Grows
<1>2. /\ Rest(p, n) \in Seq(Byte) /\ Len(Rest(p, n)) = Len(p) - n
      /\ \A i \in 1 .. Len(p) - n : Rest(p, n)[i] = p[n + i]
  BY <1>1, Split
<1>3. n <= Len(r)
  BY <1>1
<1>4. /\ Rest(r, n) \in Seq(Byte) /\ Len(Rest(r, n)) = Len(r) - n
      /\ \A i \in 1 .. Len(r) - n : Rest(r, n)[i] = r[n + i]
  BY <1>1, <1>3, Split
<1> DEFINE u == Rest(p, n)
           v == Rest(r, n)
<1> HIDE DEF u, v
<1>5. ASSUME NEW i \in 1 .. Len(p) - n PROVE v[i] = u[i]
  <2>1. i \in 1 .. Len(r) - n /\ n + i \in 1 .. Len(p)
    BY <1>1
  <2>2. v[i] = r[n + i] /\ u[i] = p[n + i]
    BY <1>2, <1>4, <2>1 DEF u, v
  <2>3. QED
    BY <1>1, <2>1, <2>2
<1>6. Grows(u, v)
  BY <1>1, <1>2, <1>4, <1>5 DEF Grows, u, v
<1>7. \A i \in 1 .. n : r[i] = p[i]
  BY <1>1
<1>8. QED
  BY <1>2, <1>4, <1>6, <1>7 DEF u, v

\* Bytes added behind a frame.
LEMMA PadIs ==
    ASSUME NEW f \in Seq(Byte), NEW n \in Nat, NEW g, g = f \o [i \in 1 .. n |-> 0]
    PROVE  Grows(f, g) /\ (n = 0 => Len(g) = Len(f))
<1> DEFINE z == [i \in 1 .. n |-> 0]
<1>1. z \in Seq(Byte) /\ Len(z) = n
  <2>1. 0 \in Byte
    BY Literals
  <2>2. QED
    BY <2>1
<1>2. g = f \o z
  OBVIOUS
<1> HIDE DEF z
<1>3. IsConcat(f, z, g) /\ g \in Seq(Byte)
  BY <1>1, <1>2, ConcatIs
<1>4. Len(g) = Len(f) + n /\ \A i \in 1 .. Len(f) : g[i] = f[i]
  BY <1>1, <1>3 DEF IsConcat
<1>5. Len(f) \in Nat
  OBVIOUS
<1>6. QED
  BY <1>3, <1>4, <1>5 DEF Grows

\* What is left of bytes that are truncated.
LEMMA TruncatedIs ==
    ASSUME NEW g, g \in Seq(Byte), NEW k \in Nat
    PROVE  LET r == Truncated(g, k)
           IN  /\ r \in Seq(Byte) /\ Grows(r, g) /\ Len(r) \in Nat /\ Len(r) <= k
               /\ (Len(g) <= k => r = g) /\ (k <= Len(g) => Len(r) = k)
<1> DEFINE r == Truncated(g, k)
<1>1. Len(g) \in Nat
  OBVIOUS
<1>2. CASE Len(g) <= k
  <2>1. r = g
    BY <1>2, Zenon DEF Truncated
  <2> HIDE DEF r
  <2>2. Grows(g, g)
    BY <1>1 DEF Grows
  <2>3. k <= Len(g) => Len(g) = k
    BY <1>1, <1>2
  <2>4. QED
    BY <1>1, <1>2, <2>1, <2>2, <2>3 DEF r
<1>3. CASE ~(Len(g) <= k)
  <2>1. r = First(g, k)
    BY <1>3, Zenon DEF Truncated, First
  <2>2. k <= Len(g)
    BY <1>1, <1>3
  <2> HIDE DEF r
  <2>3. r \in Seq(Byte) /\ Len(r) = k /\ \A i \in 1 .. k : r[i] = g[i]
    BY <2>1, <2>2, Split
  <2>4. Grows(r, g)
    BY <2>2, <2>3 DEF Grows
  <2>5. QED
    BY <1>3, <2>3, <2>4 DEF r
<1>4. QED
  BY <1>2, <1>3

\* Bytes p were padded if pad says so, and became r, which has more padding or not.
MorePadded(p, r, pad, more) ==
    pad \in BOOLEAN /\ more \in BOOLEAN /\ (~more => ~pad /\ Len(r) = Len(p))

\* A segment with more behind it, but for the checksum.
LEMMA GrowsMessage ==
    ASSUME NEW p, NEW r, Grows(p, r), NEW m, NEW h, NEW pad, NEW more, MorePadded(p, r, pad, more),
           IsMessage(p, m, h, pad)
    PROVE  IsMessage(r, m, h, more)
<1>1. /\ p \in Seq(Byte) /\ r \in Seq(Byte) /\ pad \in BOOLEAN /\ more \in BOOLEAN
      /\ ~more => ~pad /\ Len(r) = Len(p)
  BY DEF Grows, MorePadded
<1>2. CASE MeantTcp(m) /\ IsSegment(p, m, pad)
  <2>1. Like(p, r)
    BY DEF Grows, Like
  <2>2. IsSegment(r, m, more)
    BY <1>1, <1>2, <2>1, LikeSegment
  <2>3. QED
    BY <1>1, <1>2, <2>2 DEF IsMessage
<1>3. CASE MeantEcho(m) /\ IsEcho(p, m, EchoType(h))
  <2> DEFINE t == <<EchoType(h)>>
  <2>1. t \in Seq(Byte) /\ m.id \in Seq(Byte) /\ m.seq \in Seq(Byte) /\ m.data \in Seq(Byte)
    <3>1. EchoType(h) \in Byte
      BY Literals DEF EchoType
    <3>2. QED
      BY <1>3, <3>1 DEF MeantEcho, Bytes
  <2>2. Has(p, 0, t) /\ Has(p, 4, m.id) /\ Has(p, 6, m.seq) /\ Has(p, 8, m.data)
    BY <1>3 DEF IsEcho
  <2>3. 0 \in Nat /\ 4 \in Nat /\ 6 \in Nat /\ 8 \in Nat
    OBVIOUS
  <2>4. Has(r, 0, t) /\ Has(r, 4, m.id) /\ Has(r, 6, m.seq) /\ Has(r, 8, m.data)
    <3> HIDE DEF t
    <3>1. QED
      BY <2>1, <2>2, <2>3, GrowsHas, Zenon
  <2>5. QED
    BY <1>1, <1>3, <2>4 DEF IsMessage, IsEcho
<1>4. QED
  BY <1>2, <1>3 DEF IsMessage

\* The addresses are digits.
LEMMA Addresses ==
    ASSUME NEW h \in Host
    PROVE  Bytes(Mac[h], 6) /\ Bytes(Ip[h], 4)
<1>1. Mac[h] \in Number_t(6) /\ Ip[h] \in Number_t(4)
  BY FrameConstants
<1>2. QED
  BY <1>1, NumberType DEF Bytes

\* So does an ARP packet.
LEMMA GrowsArp ==
    ASSUME NEW p, NEW r, Grows(p, r), NEW h, IsArp(p, h)
    PROVE  IsArp(r, h)
<1>1. "a" \in Host /\ "b" \in Host
  BY DEF Host
<1>2. /\ Mac["a"] \in Seq(Byte) /\ Mac["b"] \in Seq(Byte) /\ Ip["a"] \in Seq(Byte) /\ Ip["b"] \in Seq(Byte)
      /\ Digits(1) \in Seq(Byte) /\ Digits(2) \in Seq(Byte) /\ Digits(2048) \in Seq(Byte)
  BY <1>1, Addresses, Constants DEF Bytes
<1> DEFINE z == <<0, 0, 0, 0, 0, 0>>
<1>3. z \in Seq(Byte)
  BY Literals, Tuples DEF Bytes
<1> HIDE DEF z
<1>4. 0 \in Nat /\ 2 \in Nat /\ 6 \in Nat /\ 8 \in Nat /\ 14 \in Nat /\ 18 \in Nat /\ 24 \in Nat
  OBVIOUS
<1>5. ASSUME NEW oper, NEW sha, NEW spa, NEW tha, NEW tpa, Digits(oper) \in Seq(Byte), sha \in Seq(Byte),
             spa \in Seq(Byte), tha \in Seq(Byte), tpa \in Seq(Byte), ArpFields(p, oper, sha, spa, tha, tpa)
      PROVE  ArpFields(r, oper, sha, spa, tha, tpa)
  <2> DEFINE d == Digits(2048)
             e == Digits(oper)
             f == Digits(1)
  <2>1. Has(p, 0, f) /\ Has(p, 2, d) /\ Has(p, 6, e)
        /\ Has(p, 8, sha) /\ Has(p, 14, spa) /\ Has(p, 18, tha) /\ Has(p, 24, tpa)
    BY <1>5 DEF ArpFields
  <2>2. f \in Seq(Byte) /\ d \in Seq(Byte) /\ e \in Seq(Byte)
    BY <1>2, <1>5
  <2> HIDE DEF d, e, f
  <2>3. Has(r, 0, f) /\ Has(r, 2, d) /\ Has(r, 6, e)
    BY <1>4, <2>1, <2>2, GrowsHas, Zenon
  <2>4. Has(r, 8, sha) /\ Has(r, 14, spa)
    BY <1>4, <1>5, <2>1, GrowsHas, Zenon
  <2>5. Has(r, 18, tha) /\ Has(r, 24, tpa)
    BY <1>4, <1>5, <2>1, GrowsHas, Zenon
  <2>6. QED
    BY <2>3, <2>4, <2>5 DEF ArpFields, d, e, f
<1>6. QED
  <2>1. CASE h = "a"
    <3>1. ArpFields(p, 1, Mac["a"], Ip["a"], z, Ip["b"])
      BY <2>1 DEF IsArp, z
    <3>2. ArpFields(r, 1, Mac["a"], Ip["a"], z, Ip["b"])
      BY <1>2, <1>3, <1>5, <3>1
    <3>3. QED
      BY <2>1, <3>2 DEF IsArp, z
  <2>2. CASE h # "a"
    <3>1. ArpFields(p, 2, Mac["b"], Ip["b"], Mac["a"], Ip["a"])
      BY <2>2 DEF IsArp
    <3>2. ArpFields(r, 2, Mac["b"], Ip["b"], Mac["a"], Ip["a"])
      BY <1>2, <1>5, <3>1
    <3>3. QED
      BY <2>2, <3>2 DEF IsArp
  <2>3. QED
    BY <2>1, <2>2

\* A frame that is padded on its way still holds what it held.
LEMMA GrowsFrame ==
    ASSUME NEW f, NEW r, Grows(f, r), NEW m, NEW h, NEW pad \in BOOLEAN, NEW more \in BOOLEAN,
           IsFrame(f, m, h, pad), ~more => ~pad /\ Len(r) = Len(f)
    PROVE  IsFrame(r, m, h, more)
<1> DEFINE p == Rest(f, 14)
           q == Rest(r, 14)
           arp == <<8, 6>>
           ip == <<8, 0>>
<1>1. f \in Seq(Byte) /\ r \in Seq(Byte) /\ Len(f) \in Nat /\ Len(r) \in Nat /\ Len(f) <= Len(r)
  BY DEF Grows
<1>2. 14 <= Len(f) /\ 14 <= Len(r) /\ 14 \in Nat /\ 12 \in Nat
  BY <1>1 DEF IsFrame
<1>3. Grows(p, q) /\ Len(p) = Len(f) - 14 /\ Len(q) = Len(r) - 14
  BY <1>2, GrowsRest
<1>4. arp \in Seq(Byte) /\ ip \in Seq(Byte)
  BY Literals, Tuples DEF Bytes
<1>5. CASE MeantArp(m) /\ Has(f, 12, arp) /\ IsArp(p, h)
  <2>1. IsArp(q, h)
    BY <1>3, <1>5, GrowsArp
  <2>2. Has(r, 12, arp)
    <3> HIDE DEF arp
    <3>1. QED
      BY <1>2, <1>4, <1>5, GrowsHas, Zenon
  <2>3. QED
    BY <1>1, <1>2, <1>5, <2>1, <2>2 DEF IsFrame
<1>6. CASE Has(f, 12, ip) /\ IsPacket(p, m, h, pad)
  <2> DEFINE u == Rest(p, 20)
             v == Rest(q, 20)
  <2>1. Has(r, 12, ip)
    <3> HIDE DEF ip
    <3>1. QED
      BY <1>2, <1>4, <1>6, GrowsHas, Zenon
  <2>2. p \in Seq(Byte) /\ 20 <= Len(p) /\ p[1] = 69 /\ p[10] = ProtoOf(m) /\ IsMessage(u, m, h, pad)
    BY <1>6 DEF IsPacket
  <2> HIDE DEF p, q
  <2>3. /\ Grows(u, v) /\ Len(u) = Len(p) - 20 /\ Len(v) = Len(q) - 20
        /\ \A i \in 1 .. 20 : q[i] = p[i]
    <3>1. 20 \in Nat /\ 20 <= Len(p) /\ Grows(p, q)
      BY <1>3, <2>2
    <3>2. QED
      BY <3>1, GrowsRest, Zenon
  <2>4. q[1] = p[1] /\ q[10] = p[10]
    <3>1. 1 \in 1 .. 20 /\ 10 \in 1 .. 20
      OBVIOUS
    <3>2. QED
      BY <2>3, <3>1
  <2>5. q \in Seq(Byte) /\ 20 <= Len(q)
    BY <1>3, <2>2 DEF Grows
  <2>6. ~more => ~pad /\ Len(v) = Len(u)
    BY <1>3, <2>3
  <2> HIDE DEF u, v
  <2>7. IsMessage(v, m, h, more)
    <3>1. MorePadded(u, v, pad, more)
      BY <2>6 DEF MorePadded
    <3>2. QED
      BY <2>2, <2>3, <3>1, GrowsMessage
  <2>8. IsPacket(q, m, h, more)
    BY <2>2, <2>4, <2>5, <2>7 DEF IsPacket, v
  <2>9. QED
    BY <1>1, <1>2, <2>1, <2>8 DEF IsFrame, q
<1>7. QED
  BY <1>5, <1>6 DEF IsFrame

-----------------------------------------------------------------------------
(* Up the layers *)

\* The header that is read is the one that was made.
LEMMA HeaderRead ==
    ASSUME NEW s, NEW h, Holds(s, h), payload(s) \in Seq(Byte), NEW t \in HdrT, TcpFields(payload(s), t)
    PROVE  consume_tcp_header(s) = t
<1> DEFINE p == payload(s)
           d == Digits(OffsetFlags(t))
           field(off, n) == consume_from_net(bytes_at(s, off, n))
<1>1. /\ Bytes(t.src_port, 2) /\ Bytes(t.dst_port, 2) /\ Bytes(t.seq_no, 4) /\ Bytes(t.ack_no, 4)
      /\ Bytes(t.window, 2) /\ Bytes(d, 2)
  BY HdrIs DEF Bytes
<1>2. /\ Has(p, 0, t.src_port) /\ Has(p, 2, t.dst_port) /\ Has(p, 4, t.seq_no) /\ Has(p, 8, t.ack_no)
      /\ Has(p, 12, d) /\ Has(p, 14, t.window)
  BY DEF TcpFields
<1>3. 0 \in Nat /\ 2 \in Nat /\ 4 \in Nat /\ 8 \in Nat /\ 12 \in Nat /\ 14 \in Nat
  OBVIOUS
<1> HIDE DEF d
<1>4. Reads(s, 0, 2, t.src_port) /\ Reads(s, 2, 2, t.dst_port)
  BY <1>1, <1>2, <1>3, FieldIs, Zenon
<1>5. Reads(s, 4, 4, t.seq_no) /\ Reads(s, 8, 4, t.ack_no)
  BY <1>1, <1>2, <1>3, FieldIs, Zenon
<1>6. Reads(s, 12, 2, d) /\ Reads(s, 14, 2, t.window)
  BY <1>1, <1>2, <1>3, FieldIs, Zenon
<1>7. /\ field(0, 2) = t.src_port /\ field(2, 2) = t.dst_port /\ field(4, 4) = t.seq_no
      /\ field(8, 4) = t.ack_no /\ field(12, 2) = d /\ field(14, 2) = t.window
  BY <1>4, <1>5, <1>6, Zenon DEF Reads
<1> HIDE DEF field
<1> DEFINE fl(b) == {f \in DOMAIN FlagBit : (b \div FlagBit[f]) % 2 = 1}
           off(b) == b \div 4096
<1>8. /\ Number(d) = OffsetFlags(t) /\ off(OffsetFlags(t)) = t.data_offset
      /\ fl(OffsetFlags(t)) = t.flags
  BY HdrIs DEF d
<1>9. t = [src_port |-> t.src_port, dst_port |-> t.dst_port, seq_no |-> t.seq_no, ack_no |-> t.ack_no,
           data_offset |-> t.data_offset, flags |-> t.flags, window |-> t.window]
  BY DEF HdrT
<1> DEFINE bits == Number(field(12, 2))
<1>10. consume_tcp_header(s) =
         [src_port |-> field(0, 2), dst_port |-> field(2, 2), seq_no |-> field(4, 4),
          ack_no |-> field(8, 4), data_offset |-> off(bits), flags |-> fl(bits), window |-> field(14, 2)]
  BY Zenon DEF consume_tcp_header, field
<1> HIDE DEF fl, off
<1>11. bits = OffsetFlags(t)
  BY <1>7, <1>8
<1> HIDE DEF bits
<1>12. fl(bits) = t.flags /\ off(bits) = t.data_offset
  BY <1>8, <1>11
<1>13. QED
  BY <1>7, <1>9, <1>10, <1>12

\* A part of the back part.
LEMMA CutRest ==
    ASSUME NEW S, NEW p \in Seq(S), NEW n \in Nat, NEW k \in Nat, n + k <= Len(p)
    PROVE  SubSeq(Rest(p, n), 1, k) = SubSeq(p, n + 1, n + k)
<1> DEFINE u == Rest(p, n)
           v == SubSeq(u, 0 + 1, 0 + k)
           w == SubSeq(p, n + 1, n + k)
<1>1. u \in Seq(S) /\ Len(u) = Len(p) - n /\ \A i \in 1 .. Len(p) - n : u[i] = p[n + i]
  <2>1. n <= Len(p)
    OBVIOUS
  <2>2. QED
    BY <2>1, Split
<1>2. w \in Seq(S) /\ Len(w) = k /\ Has(p, n, w)
  BY HasCut
<1> HIDE DEF u
<1>3. v \in Seq(S) /\ Len(v) = k /\ Has(u, 0, v)
  <2>1. 0 \in Nat /\ 0 + k <= Len(u)
    BY <1>1
  <2>2. QED
    BY <1>1, <2>1, HasCut
<1> HIDE DEF v, w
<1>4. ASSUME NEW i \in 1 .. k PROVE v[i] = w[i]
  <2>1. u[0 + i] = v[i] /\ p[n + i] = w[i]
    BY <1>2, <1>3 DEF Has
  <2>2. 0 + i = i /\ i \in 1 .. Len(p) - n
    OBVIOUS
  <2>3. QED
    BY <1>1, <2>1, <2>2
<1>5. v = w
  BY <1>2, <1>3, <1>4, SameElements
<1>6. 0 + 1 = 1 /\ 0 + k = k
  OBVIOUS
<1>7. QED
  BY <1>5, <1>6 DEF u, v, w

\* tcb_t::process: a segment is understood as it was meant, if nothing is behind it.
LEMMA SegmentIs ==
    ASSUME NEW s, Holds(s, 34), payload(s) \in Seq(Byte), NEW m, MeantTcp(m), NEW pad \in BOOLEAN,
           IsSegment(payload(s), m, pad)
    PROVE  /\ \E h : Holds(Segment(s).skb, h)
           /\ ~pad => Segment(s).what = m
<1> DEFINE p == payload(s)
           t == m.hdr
           n == 4 * t.data_offset
           c == check(s, Len(p) >= TcpSize)
           rest == pop_front(c, TcpSize)
           k == t.data_offset * 4 - TcpSize
           text == pop_front(rest, k)
           opts == IF "SYN" \in t.flags THEN decode_options(bytes_at(rest, 0, k))
                   ELSE [ok |-> TRUE, mss |-> <<>>, past |-> FALSE]
           cond == opts.ok /\ (opts.past => rest.head + k < RxBuffer)
<1>1. /\ Len(p) \in Nat /\ 20 <= Len(p) /\ n \in Nat /\ 20 <= n /\ n + Len(m.data) <= Len(p)
      /\ m.data \in Seq(Byte) /\ Len(m.data) \in Nat
  BY SegmentLong
<1>2. t \in HdrT /\ m = [kind |-> "tcp", hdr |-> m.hdr, mss |-> m.mss, data |-> m.data]
  BY DEF MeantTcp
<1>3. /\ TcpFields(p, t) /\ Has(p, n, m.data)
      /\ IF "SYN" \in t.flags
         THEN Says(SubSeq(p, 21, n), m.mss)
         ELSE m.mss = <<>>
      /\ ~pad => Len(p) = n + Len(m.data)
  BY DEF IsSegment
<1>4. consume_tcp_header(s) = t
  BY <1>2, <1>3, HeaderRead
<1>5. k = n - 20 /\ k \in Nat /\ 20 + k = n /\ TcpSize = 20
  <2>1. t.data_offset \in Nat
    BY <1>2, HdrIs
  <2> DEFINE x == t.data_offset
  <2> HIDE DEF x
  <2>2. x * 4 - 20 = 4 * x - 20
    BY <2>1 DEF x
  <2>3. QED
    BY <1>1, <2>2 DEF x, TcpSize
<1>6. Segment(s) = [what |-> [kind |-> "tcp", hdr |-> t, mss |-> opts.mss, data |-> payload(text)],
                    skb  |-> check(text, cond)]
  BY <1>4, Zenon DEF Segment
<1> HIDE DEF k, n
<1>7. c = s
  <2>1. s \in Skb /\ s.ok = TRUE
    BY DEF Holds
  <2>2. Len(p) >= TcpSize
    BY <1>1, <1>5
  <2> HIDE DEF p
  <2>3. QED
    BY <2>1, <2>2, CheckHolds
<1> HIDE DEF c
<1>8. Holds(rest, 54) /\ payload(rest) = Rest(p, 20)
  <2>1. 20 \in Nat /\ 20 <= Len(p) /\ 34 + 20 = 54
    BY <1>1
  <2>2. Holds(pop_front(s, 20), 34 + 20) /\ payload(pop_front(s, 20)) = Rest(p, 20)
    BY <2>1, PopFront
  <2>3. QED
    BY <1>5, <1>7, <2>1, <2>2
<1> HIDE DEF rest
<1>9. Rest(p, 20) \in Seq(Byte) /\ Len(Rest(p, 20)) = Len(p) - 20 /\ 20 \in Nat /\ 0 \in Nat
  BY <1>1, Split
<1>10. Holds(text, 54 + k) /\ payload(text) = Rest(Rest(p, 20), k)
  <2>1. k <= Len(payload(rest))
    BY <1>1, <1>5, <1>8, <1>9
  <2>2. QED
    BY <1>5, <1>8, <2>1, PopFront
<1>11. opts.ok = TRUE /\ opts.mss = m.mss
  <2>1. bytes_at(rest, 0, k) = SubSeq(p, 21, n)
    <3>1. 0 + k <= Len(payload(rest)) /\ 0 + 1 = 1 /\ 0 + k = k
      BY <1>1, <1>5, <1>8, <1>9
    <3>2. bytes_at(rest, 0, k) = SubSeq(payload(rest), 0 + 1, 0 + k)
      BY <1>5, <1>8, <1>9, <3>1, BytesAt
    <3>3. 20 + k <= Len(p) /\ 20 + 1 = 21
      BY <1>1, <1>5
    <3>4. SubSeq(Rest(p, 20), 1, k) = SubSeq(p, 20 + 1, 20 + k)
      BY <1>5, <1>9, <3>3, CutRest
    <3>5. QED
      BY <1>5, <1>8, <3>1, <3>2, <3>3, <3>4
  <2>2. CASE "SYN" \in t.flags
    <3>1. Says(bytes_at(rest, 0, k), m.mss)
      BY <1>3, <2>1, <2>2, Zenon
    <3>2. opts = decode_options(bytes_at(rest, 0, k))
      BY <2>2
    <3> HIDE DEF opts
    <3>3. QED
      BY <3>1, <3>2 DEF Says
  <2>3. CASE "SYN" \notin t.flags
    <3>1. opts = [ok |-> TRUE, mss |-> <<>>, past |-> FALSE] /\ m.mss = <<>>
      BY <1>3, <2>3
    <3> HIDE DEF opts
    <3>2. QED
      BY <3>1
  <2>4. QED
    BY <2>2, <2>3
<1> HIDE DEF opts, text
<1>16. cond
  <2>1. rest.head = 54
    BY <1>8 DEF Holds
  <2>2. 34 + n < RxBuffer
    BY DEF MeantTcp, HeaderFits, n
  <2>3. 54 + k = 34 + n
    BY <1>1, <1>5
  <2>4. QED
    BY <1>11, <2>1, <2>2, <2>3
<1> HIDE DEF cond
<1>12. \E h : Holds(Segment(s).skb, h)
  <2>1. text \in Skb /\ text.ok = TRUE
    BY <1>10 DEF Holds
  <2>2. check(text, cond) = text
    BY <1>16, <2>1, CheckHolds
  <2>3. Segment(s).skb = text
    BY <1>6, <2>2
  <2>4. QED
    BY <1>10, <2>3
<1>13. ASSUME ~pad PROVE payload(text) = m.data
  <2>1. Len(p) = n + Len(m.data)
    BY <1>3, <1>13
  <2> DEFINE u == Rest(p, 20)
             v == Rest(u, k)
             x == SubSeq(p, n + 1, n + Len(m.data))
  <2>2. k <= Len(u)
    BY <1>1, <1>5, <1>9
  <2>3. /\ v \in Seq(Byte) /\ Len(v) = Len(u) - k
        /\ \A i \in 1 .. Len(u) - k : v[i] = u[k + i]
    <3>1. u \in Seq(Byte) /\ k \in Nat
      BY <1>5, <1>9
    <3> HIDE DEF u
    <3>2. QED
      BY <2>2, <3>1, Split
  <2>4. \A i \in 1 .. Len(p) - 20 : u[i] = p[20 + i]
    BY <1>1, <1>9, Split
  <2>5. \A i \in 1 .. Len(m.data) : p[n + i] = m.data[i]
    BY <1>3 DEF Has
  <2>6. Len(v) = Len(m.data)
    BY <1>1, <1>5, <1>9, <2>1, <2>3
  <2> HIDE DEF u, v
  <2>7. ASSUME NEW i \in 1 .. Len(m.data) PROVE v[i] = m.data[i]
    <3>1. i \in 1 .. Len(u) - k /\ k + i \in 1 .. Len(p) - 20 /\ 20 + (k + i) = n + i
      <4>1. Len(u) = Len(p) - 20
        BY <1>9 DEF u
      <4>2. QED
        BY <1>1, <1>5, <2>1, <4>1
    <3>2. v[i] = u[k + i] /\ u[k + i] = p[20 + (k + i)]
      BY <2>3, <2>4, <3>1
    <3>3. QED
      BY <2>5, <3>1, <3>2
  <2>8. v = m.data
    BY <1>1, <2>3, <2>6, <2>7, SameElements
  <2>9. QED
    BY <1>10, <2>8 DEF u, v
<1>14. ASSUME ~pad PROVE Segment(s).what = m
  BY <1>2, <1>6, <1>11, <1>13, <1>14
<1>15. QED
  BY <1>12, <1>14

\* The fields of an echo message.
LEMMA EchoRead ==
    ASSUME NEW s, Holds(s, 34), payload(s) \in Seq(Byte), NEW m, MeantEcho(m), NEW h,
           IsEcho(payload(s), m, EchoType(h))
    PROVE  /\ consume_icmp_header(s) = [type |-> <<EchoType(h)>>, id |-> m.id, seq |-> m.seq]
           /\ Bytes(m.id, 2) /\ Bytes(m.seq, 2) /\ m.data \in Seq(Byte)
           /\ LET r == pop_front(check(s, Len(payload(s)) >= IcmpSize), IcmpSize)
              IN  /\ Holds(r, 42) /\ payload(r) \in Seq(Byte) /\ Has(payload(r), 0, m.data)
                  /\ payload(r) = Rest(payload(s), 8)
<1> DEFINE p == payload(s)
           t == <<EchoType(h)>>
           c == check(s, Len(p) >= IcmpSize)
           r == pop_front(c, IcmpSize)
           u == Rest(p, 8)
<1>1. Bytes(t, 1) /\ Bytes(m.id, 2) /\ Bytes(m.seq, 2) /\ m.data \in Seq(Byte)
  <2>1. EchoType(h) \in Byte
    BY Literals DEF EchoType
  <2>2. QED
    BY <2>1, Tuples DEF MeantEcho
<1>2. Has(p, 0, t) /\ Has(p, 4, m.id) /\ Has(p, 6, m.seq) /\ Has(p, 8, m.data)
  BY DEF IsEcho
<1>3. 0 \in Nat /\ 1 \in Nat /\ 2 \in Nat /\ 4 \in Nat /\ 6 \in Nat
  OBVIOUS
<1> HIDE DEF t
<1>4. Reads(s, 0, 1, t) /\ Reads(s, 4, 2, m.id) /\ Reads(s, 6, 2, m.seq)
  BY <1>1, <1>2, <1>3, FieldIs, Zenon
<1>5. consume_icmp_header(s) = [type |-> t, id |-> m.id, seq |-> m.seq]
  BY <1>4, Zenon DEF consume_icmp_header, Reads
<1>6. Len(m.data) \in Nat /\ Len(p) \in Nat /\ 8 + Len(m.data) <= Len(p) /\ 8 <= Len(p)
      /\ \A i \in 1 .. Len(m.data) : p[8 + i] = m.data[i]
  BY <1>1, <1>2 DEF Has
<1>7. c = s
  <2>1. s \in Skb /\ s.ok = TRUE
    BY DEF Holds
  <2>2. Len(p) >= IcmpSize
    BY <1>6 DEF IcmpSize
  <2> HIDE DEF p
  <2>3. QED
    BY <2>1, <2>2, CheckHolds
<1> HIDE DEF c
<1>8. Holds(r, 42) /\ payload(r) = u
  <2>1. 8 \in Nat /\ 8 <= Len(p) /\ 34 + 8 = 42 /\ IcmpSize = 8
    BY <1>6 DEF IcmpSize
  <2>2. Holds(pop_front(s, 8), 34 + 8) /\ payload(pop_front(s, 8)) = u
    BY <2>1, PopFront
  <2>3. QED
    BY <1>7, <2>1, <2>2
<1>9. u \in Seq(Byte) /\ Len(u) = Len(p) - 8 /\ \A i \in 1 .. Len(p) - 8 : u[i] = p[8 + i]
  BY <1>6, Split
<1> HIDE DEF u, p
<1>10. ASSUME NEW i \in 1 .. Len(m.data) PROVE u[0 + i] = m.data[i]
  <2>1. 0 + i = i /\ i \in 1 .. Len(p) - 8
    BY <1>6
  <2>2. QED
    BY <1>6, <1>9, <2>1
<1>11. Has(u, 0, m.data)
  BY <1>6, <1>9, <1>10 DEF Has
<1>12. QED
  BY <1>1, <1>5, <1>8, <1>9, <1>11 DEF p, t, c, r, u

\* icmp::async_reply: the reply verifies and has the data of the request.
LEMMA EchoReply ==
    ASSUME NEW s, Holds(s, 42), payload(s) \in Seq(Byte), NEW id, NEW seq, Bytes(id, 2), Bytes(seq, 2)
    PROVE  LET r == icmp_reply(s, id, seq)
               w == payload(r)
           IN  /\ Holds(r, 34) /\ w \in Seq(Byte) /\ Verifies(w)
               /\ Has(w, 0, <<0>>) /\ Has(w, 4, id) /\ Has(w, 6, seq)
               /\ Len(w) = 8 + Len(payload(s)) /\ \A i \in 1 .. Len(payload(s)) : w[8 + i] = payload(s)[i]
<1> DEFINE p == payload(s)
           x == icmp_header(0, id, seq)
           t == <<0, 0, 0, 0>>
           r1 == put(push_front(s, 8), 0, x)
           y == x \o p
           c == checksum(y)
           r2 == put(r1, 2, c)
           w == Patch(y, 2, c)
<1>1. Bytes(x, 8) /\ Has(x, 0, t) /\ Has(x, 4, id) /\ Has(x, 6, seq)
  <2>1. 0 \in Byte
    BY Literals
  <2>2. QED
    BY <2>1, IcmpHeaderIs
<1>2. x \in Seq(Byte) /\ x \in Seq(Cell) /\ Len(x) = 8 /\ id \in Seq(Byte) /\ seq \in Seq(Byte)
  BY <1>1, BytesAreCells DEF Bytes
<1>3. icmp_reply(s, id, seq) = put(summed(r1), 2, checksum(payload(r1)))
  BY Zenon DEF icmp_reply, IcmpSize
<1> HIDE DEF x
<1>4. Holds(r1, 34) /\ payload(r1) = y
  <2>1. 8 = Len(x) /\ 8 <= 42 /\ 42 - 8 = 34
    BY <1>2
  <2>2. Holds(put(push_front(s, 8), 0, x), 42 - 8) /\ payload(put(push_front(s, 8), 0, x)) = x \o payload(s)
    BY <1>2, <2>1, Prepend
  <2>3. QED
    BY <2>1, <2>2
<1> HIDE DEF r1
<1>5. summed(r1) = r1
  <2>1. r1 \in Skb /\ r1.ok = TRUE /\ r1.head = 34
    BY <1>4 DEF Holds
  <2>2. r1.head % 2 = 0
    BY <2>1
  <2>3. QED
    BY <2>1, <2>2, CheckHolds DEF summed
<1>6. icmp_reply(s, id, seq) = r2
  BY <1>3, <1>4, <1>5, Zenon
<1>7. IsConcat(x, p, y) /\ y \in Seq(Byte)
  BY <1>2, ConcatIs
<1>8. /\ Len(p) \in Nat /\ Len(y) = 8 + Len(p) /\ \A i \in 1 .. 8 : y[i] = x[i]
      /\ \A i \in 1 .. Len(p) : y[8 + i] = p[i]
  BY <1>2, <1>7 DEF IsConcat
<1> HIDE DEF y, p
<1>9. y[1] = 0 /\ y[3] = 0 /\ y[4] = 0
  <2>1. Len(t) = 4 /\ t[1] = 0 /\ t[3] = 0 /\ t[4] = 0
    OBVIOUS
  <2> HIDE DEF t
  <2>2. \A i \in 1 .. 4 : x[0 + i] = t[i]
    BY <1>1, <2>1 DEF Has
  <2>3. x[1] = 0 /\ x[3] = 0 /\ x[4] = 0
    <3>1. x[0 + 1] = t[1] /\ x[0 + 3] = t[3] /\ x[0 + 4] = t[4]
      BY <2>2
    <3>2. QED
      BY <2>1, <3>1
  <2>4. y[1] = x[1] /\ y[3] = x[3] /\ y[4] = x[4]
    BY <1>8
  <2>5. QED
    BY <2>3, <2>4
<1>10. c \in Seq(Byte) /\ Len(c) = 2 /\ Verifies(w)
  <2>1. 2 \in Nat /\ 2 % 2 = 0 /\ 2 + 2 <= Len(y) /\ y[2 + 1] = 0 /\ y[2 + 2] = 0
    BY <1>8, <1>9
  <2>2. QED
    BY <1>7, <2>1, ChecksumVerifies
<1> HIDE DEF c
<1>11. Holds(r2, 34) /\ payload(r2) = w
  <2>1. c \in Seq(Cell) /\ 2 \in Nat /\ 2 + Len(c) <= Len(payload(r1))
    BY <1>4, <1>8, <1>10, BytesAreCells
  <2>2. Holds(put(r1, 2, c), 34) /\ payload(put(r1, 2, c)) = Patch(payload(r1), 2, c)
    BY <1>4, <2>1, Put
  <2>3. QED
    BY <1>4, <2>2
<1> HIDE DEF r2
<1>12. w \in Seq(Byte) /\ Len(w) = Len(y) /\ \A i \in 1 .. Len(y) : i # 3 /\ i # 4 => w[i] = y[i]
  <2>1. 2 \in Nat /\ 2 + 2 <= Len(y) /\ 2 + 1 = 3 /\ 2 + 2 = 4
    BY <1>8
  <2>2. /\ Patch(y, 2, c) \in Seq(Byte) /\ Len(Patch(y, 2, c)) = Len(y)
        /\ \A i \in 1 .. Len(y) : i # 2 + 1 /\ i # 2 + 2 => Patch(y, 2, c)[i] = y[i]
    BY <1>7, <1>10, <2>1, TwoPatched
  <2>3. QED
    BY <2>1, <2>2
<1> HIDE DEF w
<1>13. Has(w, 0, <<0>>)
  <2>1. w[0 + 1] = 0 /\ 0 + 1 <= Len(w)
    BY <1>8, <1>9, <1>12
  <2>2. QED
    BY <2>1 DEF Has
<1>14. ASSUME NEW n \in {4, 6}, NEW v, Bytes(v, 2), Has(x, n, v) PROVE Has(w, n, v)
  <2>1. Len(v) = 2 /\ \A i \in 1 .. 2 : x[n + i] = v[i]
    BY <1>14 DEF Has, Bytes
  <2>2. \A i \in 1 .. 2 : n + i \in 1 .. 8 /\ n + i # 3 /\ n + i # 4
    OBVIOUS
  <2>3. \A i \in 1 .. 2 : w[n + i] = x[n + i]
    BY <1>8, <1>12, <2>2
  <2>4. n + 2 <= Len(w)
    BY <1>8, <1>12
  <2>5. QED
    BY <2>1, <2>3, <2>4 DEF Has
<1>15. Has(w, 4, id) /\ Has(w, 6, seq)
  BY <1>1, <1>14
<1>16. ASSUME NEW i \in 1 .. Len(p) PROVE w[8 + i] = p[i]
  <2>1. 8 + i \in 1 .. Len(y) /\ 8 + i # 3 /\ 8 + i # 4
    BY <1>8
  <2>2. QED
    BY <1>8, <1>12, <2>1
<1>17. QED
  BY <1>6, <1>8, <1>10, <1>11, <1>12, <1>13, <1>15, <1>16 DEF p

\* The fields of an ARP packet that are read.
LEMMA ArpRead ==
    ASSUME NEW s, NEW h, Holds(s, h), payload(s) \in Seq(Byte), NEW oper \in {1, 2}, NEW sha, NEW spa, NEW tha, NEW tpa,
           Bytes(sha, 6), Bytes(spa, 4), Bytes(tha, 6), Bytes(tpa, 4),
           ArpFields(payload(s), oper, sha, spa, tha, tpa)
    PROVE  /\ consume_arpv4_header(s) = [htype |-> <<0, 1>>, ptype |-> <<8, 0>>, oper |-> <<0, oper>>,
                                         sha |-> sha, spa |-> spa, tpa |-> tpa]
           /\ 28 <= Len(payload(s))
<1> DEFINE p == payload(s)
           a == Digits(1)
           b == Digits(2048)
           d == Digits(oper)
<1>1. /\ Bytes(a, 2) /\ Bytes(b, 2) /\ Bytes(d, 2) /\ a = <<0, 1>> /\ b = <<8, 0>> /\ d = <<0, oper>>
  BY Constants
<1>2. /\ Has(p, 0, a) /\ Has(p, 2, b) /\ Has(p, 6, d)
      /\ Has(p, 8, sha) /\ Has(p, 14, spa) /\ Has(p, 18, tha) /\ Has(p, 24, tpa)
  BY DEF ArpFields
<1> HIDE DEF a, b, d
<1>3. 0 \in Nat /\ 2 \in Nat /\ 4 \in Nat /\ 6 \in Nat /\ 8 \in Nat /\ 14 \in Nat /\ 24 \in Nat
  OBVIOUS
<1>4. Reads(s, 0, 2, a) /\ Reads(s, 2, 2, b) /\ Reads(s, 6, 2, d)
  <2>1. Bytes(a, 2) /\ Bytes(b, 2) /\ Bytes(d, 2)
    BY <1>1
  <2>2. QED
    BY <1>2, <1>3, <2>1, FieldIs, Zenon
<1>5. Reads(s, 8, 6, sha) /\ Reads(s, 14, 4, spa) /\ Reads(s, 24, 4, tpa)
  BY <1>2, <1>3, FieldIs, Zenon
<1>6. consume_arpv4_header(s) = [htype |-> a, ptype |-> b, oper |-> d, sha |-> sha, spa |-> spa, tpa |-> tpa]
  BY <1>4, <1>5, Zenon DEF consume_arpv4_header, Reads
<1>7. 28 <= Len(p)
  <2>1. Len(tpa) = 4 /\ 24 + Len(tpa) <= Len(p)
    BY <1>2 DEF Has, Bytes
  <2>2. Len(p) \in Nat
    OBVIOUS
  <2> HIDE DEF p
  <2>3. QED
    BY <2>1, <2>2
<1>8. QED
  BY <1>1, <1>6, <1>7

\* A packet that is answered in its own buffer.
LEMMA Rewritten ==
    ASSUME NEW s, NEW h, Holds(s, h), payload(s) \in Seq(Byte), NEW n \in Nat, NEW x, Bytes(x, n),
           n <= Len(payload(s))
    PROVE  LET r == put(push_front(pop_front(s, n), n), 0, x)
           IN  Holds(r, h) /\ payload(r) \in Seq(Byte) /\ Within(x, payload(r))
<1> DEFINE p == payload(s)
           s1 == pop_front(s, n)
           u == Rest(p, n)
           r == put(push_front(s1, n), 0, x)
           k == Len(u)
           l == n + k
<1>1. Holds(s1, h + n) /\ payload(s1) = u /\ h \in Nat
  <2>1. Holds(s1, h + n) /\ payload(s1) = u
    BY PopFront
  <2>2. h \in Nat
    BY DEF Holds
  <2>3. QED
    BY <2>1, <2>2
<1>2. u \in Seq(Byte) /\ k \in Nat /\ l \in Nat
  <2>1. u \in Seq(Byte)
    BY Split
  <2> HIDE DEF u
  <2>2. QED
    BY <2>1
<1>3. x \in Seq(Cell) /\ Len(x) = n
  BY BytesAreCells DEF Bytes
<1> HIDE DEF s1, u
<1>4. Holds(r, (h + n) - n) /\ payload(r) = x \o payload(s1)
  <2>1. n = Len(x) /\ n <= h + n
    BY <1>1, <1>3
  <2>2. QED
    BY <1>1, <1>3, <2>1, Prepend
<1>5. (h + n) - n = h
  BY <1>1
<1>6. Bytes(x \o u, l) /\ Within(x, x \o u)
  <2>1. Bytes(u, k)
    BY <1>2 DEF Bytes
  <2> HIDE DEF k
  <2>2. QED
    BY <1>2, <2>1, Extend, Zenon
<1> HIDE DEF r
<1>7. QED
  BY <1>1, <1>4, <1>5, <1>6 DEF Bytes, r, s1

\* Such a packet is the answer of host b.
LEMMA WithinArp ==
    ASSUME NEW x, NEW r, Within(x, r), NEW oper \in {1, 2}, NEW sha, NEW spa, NEW tha, NEW tpa,
           Bytes(sha, 6), Bytes(spa, 4), Bytes(tha, 6), Bytes(tpa, 4), ArpFields(x, oper, sha, spa, tha, tpa)
    PROVE  ArpFields(r, oper, sha, spa, tha, tpa)
<1> DEFINE a == Digits(1)
           b == Digits(2048)
           d == Digits(oper)
<1>1. /\ Bytes(a, 2) /\ Bytes(b, 2) /\ Bytes(d, 2)
  BY Constants
<1>2. /\ Has(x, 0, a) /\ Has(x, 2, b) /\ Has(x, 6, d)
      /\ Has(x, 8, sha) /\ Has(x, 14, spa) /\ Has(x, 18, tha) /\ Has(x, 24, tpa)
  BY DEF ArpFields
<1>3. 0 \in Nat /\ 2 \in Nat /\ 6 \in Nat /\ 8 \in Nat /\ 14 \in Nat /\ 18 \in Nat /\ 24 \in Nat
  OBVIOUS
<1> HIDE DEF a, b, d
<1>4. Has(r, 0, a) /\ Has(r, 2, b) /\ Has(r, 6, d)
  BY <1>1, <1>2, <1>3, InBoth, Zenon
<1>5. Has(r, 8, sha) /\ Has(r, 14, spa) /\ Has(r, 18, tha) /\ Has(r, 24, tpa)
  BY <1>2, <1>3, InBoth, Zenon
<1>6. QED
  BY <1>4, <1>5 DEF ArpFields, a, b, d

\* What the cache says of the host itself.
LEMMA CacheIs ==
    ASSUME NEW i, NEW m, NEW j, NEW n
    PROVE  LET cache == [ip \in {i, j} |-> IF ip = i THEN m ELSE n]
           IN  i \in DOMAIN cache /\ cache[i] = m
  OBVIOUS

\* Who receives what.
LEMMA DispatchIs ==
    /\ dispatch(eth_protos, <<8, 0>>) = "ipv4_in" /\ dispatch(eth_protos, <<8, 6>>) = "arp_in"
    /\ dispatch(ipv4_protos, 1) = "icmp_in" /\ dispatch(ipv4_protos, 6) = "tcp_in"
<1>1. <<8, 0>> # <<8, 6>>
  OBVIOUS
<1>2. dispatch(eth_protos, <<8, 0>>) = "ipv4_in" /\ dispatch(eth_protos, <<8, 6>>) = "arp_in"
  <2> DEFINE a == <<8, 0>>
             b == <<8, 6>>
  <2>1. a # b /\ eth_protos = [t \in {a, b} |-> IF t = a THEN "ipv4_in" ELSE "arp_in"]
    BY <1>1 DEF eth_protos
  <2> HIDE DEF a, b
  <2>2. dispatch(eth_protos, a) = "ipv4_in" /\ dispatch(eth_protos, b) = "arp_in"
    BY <2>1 DEF dispatch
  <2>3. QED
    BY <2>2 DEF a, b
<1>3. dispatch(ipv4_protos, 1) = "icmp_in" /\ dispatch(ipv4_protos, 6) = "tcp_in"
  BY DEF dispatch, ipv4_protos
<1>4. QED
  BY <1>2, <1>3

-----------------------------------------------------------------------------
(* Packets to send *)

\* A new buffer.
LEMMA NewSkb ==
    ASSUME NEW n \in Nat, NEW h \in Nat, h <= n, n <= Max16
    PROVE  Holds(new_skb(n, h), h) /\ Len(payload(new_skb(n, h))) = n - h
<1> DEFINE mem == [i \in 1 .. n |-> Uninit]
           s == new_skb(n, h)
<1>1. mem \in Seq(Cell) /\ Len(mem) = n
  <2>1. Uninit \in Cell
    BY DEF Cell
  <2>2. QED
    BY <2>1
<1>2. s = [mem |-> mem, head |-> h, tail |-> n, ok |-> h <= n]
  BY DEF new_skb
<1>3. (h <= n) = TRUE
  OBVIOUS
<1> HIDE DEF mem
<1>4. s = [mem |-> mem, head |-> h, tail |-> n, ok |-> TRUE]
  BY <1>2, <1>3
<1> HIDE DEF s
<1>5. s.mem = mem /\ s.head = h /\ s.tail = n /\ s.ok = TRUE
  BY <1>4
<1>6. s \in Skb
  BY <1>1, <1>4 DEF Skb
<1>7. Holds(s, h)
  BY <1>1, <1>5, <1>6 DEF Holds
<1>8. Len(payload(s)) = n - h
  <2>1. Len(payload(s)) = Len(s.mem) - h
    BY <1>7, PayloadIs
  <2>2. QED
    BY <1>1, <1>5, <2>1
<1>9. QED
  BY <1>7, <1>8 DEF s

\* Memory that is written to as a whole, at once or in two parts.
LEMMA PatchWhole ==
    ASSUME NEW S, NEW m \in Seq(S), NEW x \in Seq(S), Len(x) = Len(m)
    PROVE  Patch(m, 0, x) = x
<1> DEFINE a == Patch(m, 0, x)
<1>1. 0 \in Nat /\ 0 + Len(x) <= Len(m) /\ 0 + Len(x) = Len(x)
  OBVIOUS
<1>2. a \in Seq(S) /\ Len(a) = Len(m) /\ Has(a, 0, x)
  BY <1>1, PatchIs
<1> HIDE DEF a
<1>3. ASSUME NEW i \in 1 .. Len(x) PROVE a[i] = x[i]
  <2>1. 0 + i = i
    OBVIOUS
  <2>2. QED
    BY <1>2, <2>1 DEF Has
<1>4. a = x
  BY <1>2, <1>3, SameElements
<1>5. QED
  BY <1>4 DEF a

\* In two parts.
LEMMA PatchTwice ==
    ASSUME NEW S, NEW m \in Seq(S), NEW x \in Seq(S), NEW y \in Seq(S), NEW k, k = Len(x),
           Len(m) = k + Len(y)
    PROVE  Patch(Patch(m, 0, x), k, y) = x \o y
<1> DEFINE a == Patch(m, 0, x)
           b == Patch(a, k, y)
           c == x \o y
           l == Len(y)
<1>1. 0 \in Nat /\ k \in Nat /\ l \in Nat /\ 0 + Len(x) <= Len(m) /\ k + Len(y) <= Len(m)
  OBVIOUS
<1>2. a \in Seq(S) /\ Len(a) = k + l /\ Has(a, 0, x)
  <2>1. PatchFits(S, m, 0, x)
    BY <1>1 DEF PatchFits
  <2>2. IsPatchOf(S, m, 0, x, a)
    BY <2>1, PatchOf
  <2> HIDE DEF a
  <2>3. QED
    BY <2>2 DEF IsPatchOf
<1> HIDE DEF a
<1>3. /\ b \in Seq(S) /\ Len(b) = k + l /\ Has(b, k, y)
      /\ \A i \in 1 .. k + l : b[i] = IF k < i /\ i <= k + Len(y) THEN y[i - k] ELSE a[i]
  <2>1. k + Len(y) <= Len(a)
    BY <1>1, <1>2
  <2>2. PatchFits(S, a, k, y)
    BY <1>1, <1>2, <2>1 DEF PatchFits
  <2>3. IsPatchOf(S, a, k, y, b)
    BY <2>2, PatchOf
  <2> HIDE DEF b
  <2>4. QED
    BY <1>2, <2>3 DEF IsPatchOf
<1>4. IsConcat(x, y, c) /\ c \in Seq(S)
  BY ConcatIs
<1>5. /\ Len(c) = k + l /\ \A i \in 1 .. k : c[i] = x[i]
      /\ \A i \in 1 .. l : c[k + i] = y[i]
  BY <1>4 DEF IsConcat
<1> HIDE DEF b, c, l
<1>6. ASSUME NEW i \in 1 .. k + l PROVE b[i] = c[i]
  <2>1. CASE i <= k
    <3>1. i \in 1 .. k /\ ~(k < i) /\ 0 + i = i
      BY <1>1, <2>1
    <3>2. b[i] = a[i]
      BY <1>3, <3>1
    <3>3. a[0 + i] = x[i]
      BY <1>2, <3>1 DEF Has
    <3>4. QED
      BY <1>5, <3>1, <3>2, <3>3
  <2>2. CASE ~(i <= k)
    <3>1. i - k \in 1 .. l /\ k + (i - k) = i
      BY <1>1, <2>2
    <3>2. b[k + (i - k)] = y[i - k]
      BY <1>3, <3>1 DEF Has, l
    <3>3. QED
      BY <1>5, <3>1, <3>2
  <2>3. QED
    BY <2>1, <2>2
<1>7. b = c
  BY <1>1, <1>3, <1>4, <1>5, <1>6, SameElements
<1>8. QED
  BY <1>7 DEF a, b, c

\* The buffer of a segment holds its header and what is behind it.
LEMMA TcpSkb ==
    ASSUME NEW h \in HdrT, NEW rest \in Seq(Byte), 54 + Len(rest) <= Max16
    PROVE  /\ Holds(tcp_skb(h, rest), 34) /\ payload(tcp_skb(h, rest)) = tcp_header(h) \o rest
<1> DEFINE x == tcp_header(h)
           l == Len(rest)
           s == new_skb(54 + l, 34)
           s1 == put(s, 0, x)
           s2 == put(s1, 20, rest)
           p == payload(s)
<1>1. x \in Seq(Byte) /\ Len(x) = 20 /\ x \in Seq(Cell) /\ rest \in Seq(Cell) /\ l \in Nat
  BY TcpHeaderIs, BytesAreCells DEF Bytes
<1>2. tcp_skb(h, rest) = s2
  <2>1. EthSize + Ipv4Size + TcpSize = 54 /\ EthSize + Ipv4Size = 34 /\ TcpSize = 20
    BY DEF EthSize, Ipv4Size, TcpSize
  <2>2. QED
    BY <2>1 DEF tcp_skb
<1>3. Holds(s, 34) /\ Len(p) = 20 + l
  <2>1. 54 + l \in Nat /\ 34 \in Nat /\ 34 <= 54 + l /\ (54 + l) - 34 = 20 + l
    BY <1>1
  <2>2. Holds(s, 34) /\ Len(p) = (54 + l) - 34
    BY <2>1, NewSkb
  <2>3. QED
    BY <2>1, <2>2
<1> HIDE DEF x, s, l
<1>4. p \in Seq(Cell)
  BY <1>3, PayloadIs
<1>5. Holds(s1, 34) /\ payload(s1) = Patch(p, 0, x)
  <2>1. 0 \in Nat /\ 0 + Len(x) <= Len(payload(s))
    BY <1>1, <1>3
  <2>2. QED
    BY <1>1, <1>3, <2>1, Put
<1>6. Len(payload(s1)) = 20 + l
  <2>1. 0 \in Nat /\ 0 + Len(x) <= Len(p)
    BY <1>1, <1>3
  <2> HIDE DEF p
  <2>4. PatchFits(Cell, p, 0, x)
    BY <1>1, <1>4, <2>1 DEF PatchFits
  <2>5. IsPatchOf(Cell, p, 0, x, Patch(p, 0, x))
    BY <2>4, PatchOf
  <2>2. Len(Patch(p, 0, x)) = Len(p)
    BY <2>5 DEF IsPatchOf
  <2>3. QED
    BY <1>3, <1>5, <2>2
<1> HIDE DEF s1
<1>7. Holds(s2, 34) /\ payload(s2) = Patch(payload(s1), 20, rest)
  <2>1. 20 \in Nat /\ 20 + Len(rest) <= Len(payload(s1))
    BY <1>1, <1>6 DEF l
  <2>2. QED
    BY <1>1, <1>5, <2>1, Put
<1>8. Patch(Patch(p, 0, x), 20, rest) = x \o rest
  <2>1. 20 = Len(x) /\ Len(p) = 20 + Len(rest)
    BY <1>1, <1>3 DEF l
  <2> HIDE DEF p
  <2>2. QED
    BY <1>1, <1>4, <2>1, PatchTwice
<1>9. QED
  BY <1>2, <1>5, <1>7, <1>8 DEF x

\* The data offset tells how long the options are.
OptionsFit(m, opts) == 4 * m.hdr.data_offset = 20 + Len(opts)

\* A header, options and text are a segment.
LEMMA SegmentMade ==
    ASSUME NEW m, MeantTcp(m), NEW opts, NEW S, LaidOut(opts, S, m.mss), opts \in Seq(Byte),
           OptionsFit(m, opts), "SYN" \notin m.hdr.flags => m.mss = <<>>
    PROVE  LET p == tcp_header(m.hdr) \o (opts \o m.data)
           IN  p \in Seq(Byte) /\ IsSegment(p, m, FALSE) /\ Len(p) = (20 + Len(opts)) + Len(m.data)
<1> DEFINE t == m.hdr
           x == tcp_header(t)
           n == 4 * t.data_offset
           y == opts \o m.data
           p == x \o y
           l == Len(opts)
           k == Len(m.data)
<1>1. t \in HdrT /\ m.data \in Seq(Byte) /\ l \in Nat /\ k \in Nat
  BY DEF MeantTcp
<1>2. Bytes(x, 20) /\ TcpFields(x, t)
  BY <1>1, TcpHeaderIs
<1>3. IsConcat(opts, m.data, y) /\ y \in Seq(Byte)
  BY <1>1, ConcatIs
<1>4. /\ Len(y) = l + k /\ \A i \in 1 .. l : y[i] = opts[i]
      /\ \A i \in 1 .. k : y[l + i] = m.data[i]
  BY <1>3 DEF IsConcat
<1> DEFINE j == l + k
           N == 20 + j
<1> HIDE DEF x, y
<1>5. Bytes(p, N) /\ Has(p, 20, y) /\ Within(x, p)
  <2>1. Bytes(y, j) /\ j \in Nat /\ 20 \in Nat
    BY <1>1, <1>3, <1>4 DEF Bytes
  <2> HIDE DEF j
  <2>2. QED
    BY <1>2, <2>1, Extend, Zenon
<1> HIDE DEF p, l, k
<1>6. p \in Seq(Byte) /\ Len(p) = (20 + l) + k
  <2>1. p \in Seq(Byte) /\ Len(p) = N
    BY <1>5 DEF Bytes
  <2>2. l \in Nat /\ k \in Nat
    BY <1>1
  <2>4. N = (20 + l) + k
    BY <2>2
  <2>5. QED
    BY <2>1, <2>4
<1>7. TcpFields(p, t)
  <2> DEFINE d == Digits(OffsetFlags(t))
  <2>1. /\ Bytes(t.src_port, 2) /\ Bytes(t.dst_port, 2) /\ Bytes(t.seq_no, 4) /\ Bytes(t.ack_no, 4)
        /\ Bytes(t.window, 2) /\ Bytes(d, 2)
    BY <1>1, HdrIs DEF Bytes
  <2>2. /\ Has(x, 0, t.src_port) /\ Has(x, 2, t.dst_port) /\ Has(x, 4, t.seq_no) /\ Has(x, 8, t.ack_no)
        /\ Has(x, 12, d) /\ Has(x, 14, t.window)
    BY <1>2 DEF TcpFields
  <2>3. 0 \in Nat /\ 2 \in Nat /\ 4 \in Nat /\ 8 \in Nat /\ 12 \in Nat /\ 14 \in Nat
    OBVIOUS
  <2> HIDE DEF d
  <2>4. /\ Has(p, 0, t.src_port) /\ Has(p, 2, t.dst_port) /\ Has(p, 4, t.seq_no)
    BY <1>5, <2>1, <2>2, <2>3, InBoth, Zenon
  <2>5. Has(p, 8, t.ack_no) /\ Has(p, 12, d) /\ Has(p, 14, t.window)
    BY <1>5, <2>1, <2>2, <2>3, InBoth, Zenon
  <2>6. QED
    BY <2>4, <2>5 DEF TcpFields, d
<1>8. n = 20 + l /\ n \in Nat
  BY <1>1 DEF OptionsFit, l
<1> HIDE DEF n
<1>9. \A i \in 1 .. l + k : p[20 + i] = y[i]
  BY <1>4, <1>5 DEF Has
<1>10. Has(p, n, m.data)
  <2>1. ASSUME NEW i \in 1 .. k PROVE p[n + i] = m.data[i]
    <3>1. l + i \in 1 .. l + k /\ 20 + (l + i) = n + i
      BY <1>1, <1>8
    <3>2. p[20 + (l + i)] = y[l + i] /\ y[l + i] = m.data[i]
      BY <1>4, <1>9, <3>1
    <3>3. QED
      BY <3>1, <3>2
  <2>2. QED
    BY <1>1, <1>6, <1>8, <2>1 DEF Has, k
<1>11. SubSeq(p, 21, n) = opts
  <2>1. ASSUME NEW i \in 1 .. l PROVE p[20 + i] = opts[i]
    <3>1. i \in 1 .. l + k
      BY <1>1
    <3>2. QED
      BY <1>4, <1>9, <3>1
  <2>2. Has(p, 20, opts) /\ Bytes(opts, l)
    <3>1. 20 + l <= Len(p)
      BY <1>1, <1>6
    <3>2. QED
      BY <2>1, <3>1 DEF Has, Bytes, l
  <2>3. Positions(20, l, 21, n)
    BY <1>1, <1>8 DEF Positions
  <2>4. IsCut(p, 21, n, opts)
    BY <1>6, <2>2, <2>3, CutBytes, Zenon
  <2>5. QED
    BY <2>4 DEF IsCut
<1>12. Says(opts, m.mss)
  BY DecodeIs
<1>13. Len(p) = n + Len(m.data)
  BY <1>6, <1>8 DEF k
<1>14. IsSegment(p, m, FALSE)
  BY <1>7, <1>10, <1>11, <1>12, <1>13 DEF IsSegment, n
<1>15. QED
  BY <1>6, <1>14 DEF p, x, y, l, k

-----------------------------------------------------------------------------
(* The layers *)

\* The fields of an IPv4 packet, and those of a frame.
IpIs(q, proto) ==
    /\ q = [src |-> q.src, dst |-> q.dst, proto |-> q.proto, ether |-> q.ether,
            src_mac |-> q.src_mac, dst_mac |-> q.dst_mac]
    /\ Bytes(q.src, 4) /\ Bytes(q.dst, 4) /\ q.proto = proto
MacIs(q, ether) == Bytes(q.src_mac, 6) /\ Bytes(q.dst_mac, 6) /\ q.ether = ether

\* The checksum of message p is right, and those of packet w.
Covered(q, p) == IF q.proto = 6 THEN Verifies(Pseudo(q.src, q.dst, Len(p)) \o p) ELSE Verifies(p)
Accepted(w, proto) ==
    /\ Number(SubSeq(w, 3, 4)) = Len(w) /\ Verifies(First(w, 20))
    /\ IF proto = 6
       THEN Verifies(SubSeq(w, 13, 20) \o <<0, 6>> \o Digits(Len(Rest(w, 20))) \o Rest(w, 20))
       ELSE Verifies(Rest(w, 20))

\* What buffer s and fields q hold at each layer of host h.
AtTcp(s, q, m, pad) ==
    /\ Holds(s, 34) /\ IpIs(q, 6)
    /\ MeantTcp(m) /\ payload(s) \in Seq(Byte) /\ IsSegment(payload(s), m, pad)
AtIpv4(s, q, m, h, pad) ==
    /\ Holds(s, 34) /\ IpIs(q, ProtoOf(m)) /\ IsMessage(payload(s), m, h, pad)
    /\ Covered(q, payload(s)) /\ (MeantEcho(m) => h = "b")
ArpOut(s, q, m, h) ==
    /\ MeantArp(m) /\ MacIs(q, <<8, 6>>) /\ payload(s) \in Seq(Byte) /\ IsArp(payload(s), h)
PacketOut(s, q, m, h, pad) ==
    /\ MacIs(q, <<8, 0>>) /\ q.proto = ProtoOf(m) /\ IsPacket(payload(s), m, h, pad)
    /\ Accepted(payload(s), q.proto)
AtEth(s, q, m, h, pad) == Holds(s, 14) /\ (ArpOut(s, q, m, h) \/ PacketOut(s, q, m, h, pad))
AtAir(s, q, m, h, pad) ==
    /\ Holds(s, 0) /\ IsFrame(payload(s), m, h, pad)
    /\ \/ q = <<>>
       \/ q.ether = <<8, 6>>
       \/ Accepted(Rest(payload(s), 14), q.proto)
AtEthIn(s, m, h, pad) == Holds(s, 0) /\ IsFrame(payload(s), m, Other(h), pad)
AtIpv4In(s, m, h, pad) == Holds(s, 14) /\ IsPacket(payload(s), m, Other(h), pad)
AtArpIn(s, m, h) == Holds(s, 14) /\ MeantArp(m) /\ payload(s) \in Seq(Byte) /\ IsArp(payload(s), Other(h))
AtIcmpIn(s, q, m, h) ==
    /\ Holds(s, 34) /\ IpIs(q, 1)
    /\ MeantEcho(m) /\ payload(s) \in Seq(Byte) /\ IsEcho(payload(s), m, EchoType(Other(h)))

\* What was understood in the end.
EchoUnderstood(g, m) ==
    /\ g # <<>> /\ IsPrefix(m.data, g.data)
    /\ g = [kind |-> "icmp", type |-> <<0>>, id |-> m.id, seq |-> m.seq, data |-> g.data]
AtEnd(s, m, g, h, pad) ==
    /\ \E k : Holds(s, k)
    /\ \/ MeantTcp(m) /\ (~pad => g = m)
       \/ MeantEcho(m) /\ h = "a" /\ EchoUnderstood(g, m)
       \/ MeantArp(m) /\ h = "a" /\ g # <<>> /\ g = m

\* The sizes of the headers against the read buffer.
LEMMA Sizes ==
    /\ EthSize = 14 /\ Ipv4Size = 20 /\ TcpSize = 20 /\ IcmpSize = 8 /\ ArpSize = 28
    /\ RxBuffer \in Nat /\ Mss \in Nat /\ Mss + 54 = RxBuffer /\ 62 < RxBuffer /\ 8 < Mss
    /\ Mss <= Max16 /\ RxBuffer <= Max16 /\ Max16 \in Nat
<1>1. EthSize = 14 /\ Ipv4Size = 20 /\ TcpSize = 20 /\ IcmpSize = 8 /\ ArpSize = 28
  BY DEF EthSize, Ipv4Size, TcpSize, IcmpSize, ArpSize
<1>2. RxBuffer \in Nat /\ RxBuffer <= Max16 /\ Mss > 8
  BY FrameConstants
<1>3. Mss = RxBuffer - 14 - 20 - 20
  BY <1>1 DEF Mss
<1>4. Max16 \in Nat
  BY Max16Is
<1> DEFINE x == Max16
<1> HIDE DEF x
<1>5. QED
  BY <1>1, <1>2, <1>3, <1>4

\* What is sent fits into a packet.
LEMMA PayloadFits ==
    ASSUME NEW p \in Payloads
    PROVE  p \in Seq(Byte) /\ 54 + Len(p) <= Max16 /\ Len(p) \in Nat
<1>1. p \in Seq(Byte) /\ EthSize + Ipv4Size + TcpSize + Len(p) <= Max16
  BY FrameConstants, Zenon
<1>2. EthSize + Ipv4Size + TcpSize = 54
  BY Sizes
<1>3. Len(p) \in Nat
  BY <1>1
<1>4. QED
  BY <1>1, <1>2, <1>3

\* The fields of a header that is made.
LEMMA HdrMade ==
    ASSUME NEW h \in Headers, NEW l \in Nat, l % 4 = 0, l <= 40, NEW flags \in SUBSET Flag
    PROVE  LET t == tcp_header_t(h, 20 + l, flags)
           IN  t \in HdrT /\ t.flags = flags /\ 4 * t.data_offset = 20 + l
<1> DEFINE t == tcp_header_t(h, 20 + l, flags)
           n == (20 + l) \div 4
<1>1. n \in Nat /\ 5 <= n /\ n <= 15 /\ 4 * n = 20 + l
  OBVIOUS
<1> HIDE DEF n
<1>2. /\ h.src_port \in Number_t(2) /\ h.dst_port \in Number_t(2)
      /\ h.seq_no \in Number_t(4) /\ h.ack_no \in Number_t(4) /\ h.window \in Number_t(2)
  BY FrameConstants
<1>3. t = [src_port |-> h.src_port, dst_port |-> h.dst_port, seq_no |-> h.seq_no, ack_no |-> h.ack_no,
           data_offset |-> n, flags |-> flags, window |-> h.window]
  BY DEF tcp_header_t, n
<1> HIDE DEF t
<1>4. t \in HdrT
  BY <1>1, <1>2, <1>3 DEF HdrT
<1>5. QED
  BY <1>1, <1>3, <1>4 DEF t

\* The addresses of a packet to h.
LEMMA ToIs ==
    ASSUME NEW h \in Host, NEW proto
    PROVE  IpIs(To(h, proto), proto)
<1>1. Bytes(Ip[Other(h)], 4) /\ Bytes(Ip[h], 4)
  BY OtherIs, Addresses
<1>2. To(h, proto) = [src |-> Ip[Other(h)], dst |-> Ip[h], proto |-> proto, ether |-> <<8, 0>>,
                      src_mac |-> <<>>, dst_mac |-> <<>>]
  BY DEF To
<1>3. QED
  BY <1>1, <1>2 DEF IpIs

\* A segment is handed to tcp.
LEMMA SegmentOut ==
    ASSUME NEW m, MeantTcp(m), NEW opts, NEW S, LaidOut(opts, S, m.mss), opts \in Seq(Byte),
           OptionsFit(m, opts), "SYN" \notin m.hdr.flags => m.mss = <<>>,
           NEW rest, rest = opts \o m.data, 54 + (Len(opts) + Len(m.data)) <= Max16
    PROVE  AtTcp(tcp_skb(m.hdr, rest), To("b", 6), m, FALSE)
<1> DEFINE s == tcp_skb(m.hdr, rest)
           p == tcp_header(m.hdr) \o rest
<1>1. m.hdr \in HdrT /\ m.data \in Seq(Byte)
  BY DEF MeantTcp
<1>2. rest \in Seq(Byte) /\ Len(rest) = Len(opts) + Len(m.data)
  BY <1>1, HasConcat
<1>3. 54 + Len(rest) <= Max16
  BY <1>2
<1>4. Holds(s, 34) /\ payload(s) = p
  BY <1>1, <1>2, <1>3, TcpSkb
<1>5. p \in Seq(Byte) /\ IsSegment(p, m, FALSE)
  BY SegmentMade
<1>6. IpIs(To("b", 6), 6)
  BY ToIs DEF Host
<1> HIDE DEF s, p
<1>7. QED
  BY <1>4, <1>5, <1>6 DEF AtTcp, s

\* What a segment without options, and one with options only, is made of.
LEMMA Empty ==
    ASSUME NEW x, x \in Seq(Byte)
    PROVE  x = <<>> \o x /\ x = x \o <<>> /\ <<>> \in Seq(Byte) /\ Len(<<>>) = 0
  OBVIOUS

\* tcb_t::make_packet.
LEMMA MakePacketOut ==
    ASSUME MakePacket
    PROVE  at = "tcp" /\ AtTcp(skb, pkt, meant, FALSE)
<1>1. PICK h \in Headers, data \in Payloads, syn \in BOOLEAN :
        LET hdr == tcp_header_t(h, TcpSize, {"ACK"} \cup (IF data # <<>> THEN {"PSH"} ELSE {})
                                                   \cup (IF syn THEN {"SYN"} ELSE {}))
        IN  /\ syn => data = <<>>
            /\ meant = [kind |-> "tcp", hdr |-> hdr, mss |-> <<>>, data |-> data]
            /\ skb = tcp_skb(hdr, data)
            /\ at = "tcp" /\ pkt = To("b", 6)
  BY DEF MakePacket
<1> DEFINE fl == {"ACK"} \cup (IF data # <<>> THEN {"PSH"} ELSE {}) \cup (IF syn THEN {"SYN"} ELSE {})
           t == tcp_header_t(h, TcpSize, fl)
<1>2. /\ meant = [kind |-> "tcp", hdr |-> t, mss |-> <<>>, data |-> data]
      /\ skb = tcp_skb(t, data) /\ at = "tcp" /\ pkt = To("b", 6)
  BY <1>1
<1>3. fl \in SUBSET Flag
  BY DEF Flag
<1> HIDE DEF fl
<1>4. t \in HdrT /\ 4 * t.data_offset = 20
  <2>1. 0 \in Nat /\ 0 % 4 = 0 /\ 0 <= 40 /\ 20 + 0 = 20 /\ TcpSize = 20
    BY Sizes
  <2>2. tcp_header_t(h, 20 + 0, fl) \in HdrT /\ 4 * tcp_header_t(h, 20 + 0, fl).data_offset = 20 + 0
    BY <1>3, <2>1, HdrMade
  <2>3. QED
    BY <2>1, <2>2
<1> HIDE DEF t
<1>5. data \in Seq(Byte) /\ 54 + Len(data) <= Max16 /\ Len(data) \in Nat
  BY PayloadFits
<1>6. meant.hdr = t /\ meant.mss = <<>> /\ meant.data = data
  BY <1>2
<1>14. HeaderFits(meant)
  <2>1. t.data_offset \in Nat
    BY <1>4, HdrIs
  <2>2. t.data_offset = 5 /\ 34 + 4 * t.data_offset < RxBuffer
    BY <1>4, <2>1, Sizes
  <2>3. QED
    BY <1>6, <2>2 DEF HeaderFits
<1>7. MeantTcp(meant)
  BY <1>2, <1>4, <1>5, <1>6, <1>14 DEF MeantTcp
<1>8. data = <<>> \o data /\ <<>> \in Seq(Byte) /\ Len(<<>>) = 0
  BY <1>5, Empty
<1> DEFINE e == <<>>
<1>9. LaidOut(e, {1}, meant.mss)
  BY <1>6, OwnOptions
<1>10. OptionsFit(meant, e)
  BY <1>4, <1>6, <1>8 DEF OptionsFit
<1>11. e \in Seq(Byte) /\ meant.mss = <<>> /\ data = e \o meant.data
       /\ 54 + (Len(e) + Len(meant.data)) <= Max16
  BY <1>5, <1>6, <1>8, Sizes
<1> HIDE DEF e
<1>12. AtTcp(tcp_skb(meant.hdr, data), To("b", 6), meant, FALSE)
  BY <1>7, <1>9, <1>10, <1>11, SegmentOut
<1>13. QED
  BY <1>2, <1>6, <1>12

\* start_connecting.
LEMMA StartConnectingOut ==
    ASSUME StartConnecting
    PROVE  at = "tcp" /\ AtTcp(skb, pkt, meant, FALSE)
<1>1. PICK h \in Headers :
        LET hdr == tcp_header_t(h, TcpSize + 8, {"SYN"})
            s   == new_skb(EthSize + Ipv4Size + TcpSize + 8, EthSize + Ipv4Size)
        IN  /\ meant = [kind |-> "tcp", hdr |-> hdr, mss |-> Digits(Mss), data |-> <<>>]
            /\ skb = put(put(s, 0, tcp_header(hdr)), TcpSize, encode_options(Mss))
            /\ at = "tcp" /\ pkt = To("b", 6)
  BY DEF StartConnecting
<1> DEFINE fl == {"SYN"}
           t == tcp_header_t(h, TcpSize + 8, fl)
           o == encode_options(Mss)
           d == Digits(Mss)
           S == {1, 5, 6, 7, 9}
<1>2. o \in Seq(Byte) /\ Len(o) = 8 /\ LaidOut(o, S, d)
  BY Sizes, OwnOptions
<1>3. /\ meant = [kind |-> "tcp", hdr |-> t, mss |-> d, data |-> <<>>]
      /\ skb = put(put(new_skb(EthSize + Ipv4Size + TcpSize + 8, EthSize + Ipv4Size), 0, tcp_header(t)), TcpSize, o)
      /\ at = "tcp" /\ pkt = To("b", 6)
  BY <1>1
<1> HIDE DEF o
<1>4. skb = tcp_skb(t, o)
  BY <1>2, <1>3 DEF tcp_skb
<1>5. fl \in SUBSET Flag /\ "SYN" \in fl
  BY DEF Flag
<1> HIDE DEF fl, S, d
<1>6. t \in HdrT /\ t.flags = fl /\ 4 * t.data_offset = 28
  <2>1. 8 \in Nat /\ 8 % 4 = 0 /\ 8 <= 40 /\ 20 + 8 = 28 /\ TcpSize = 20
    BY Sizes
  <2>2. /\ tcp_header_t(h, 20 + 8, fl) \in HdrT /\ tcp_header_t(h, 20 + 8, fl).flags = fl
        /\ 4 * tcp_header_t(h, 20 + 8, fl).data_offset = 20 + 8
    BY <1>5, <2>1, HdrMade
  <2>3. QED
    BY <2>1, <2>2
<1> HIDE DEF t
<1> DEFINE e == <<>>
<1>7. meant.hdr = t /\ meant.mss = d /\ meant.data = e
  BY <1>3
<1>8. o = o \o e /\ e \in Seq(Byte) /\ Len(e) = 0
  BY <1>2, Empty
<1>15. HeaderFits(meant)
  <2>1. 34 + 4 * t.data_offset < RxBuffer
    BY <1>6, Sizes
  <2>2. QED
    BY <1>7, <2>1 DEF HeaderFits
<1>9. MeantTcp(meant)
  BY <1>3, <1>6, <1>7, <1>8, <1>15 DEF MeantTcp
<1> HIDE DEF e
<1>10. OptionsFit(meant, o)
  BY <1>2, <1>6, <1>7 DEF OptionsFit
<1>11. /\ "SYN" \in meant.hdr.flags /\ LaidOut(o, S, meant.mss) /\ o = o \o meant.data
  BY <1>2, <1>5, <1>6, <1>7, <1>8
<1>12. 54 + (Len(o) + Len(meant.data)) <= Max16
  <2>1. 54 + (8 + 0) <= Max16
    BY Sizes
  <2>2. QED
    BY <1>2, <1>7, <1>8, <2>1
<1>13. AtTcp(tcp_skb(meant.hdr, o), To("b", 6), meant, FALSE)
  BY <1>2, <1>9, <1>10, <1>11, <1>12, SegmentOut
<1>14. QED
  BY <1>3, <1>4, <1>7, <1>13

\* arp::async_request.
LEMMA ArpRequestOut ==
    ASSUME ArpRequest
    PROVE  at = "eth" /\ AtEth(skb, pkt, meant, "a", FALSE)
<1> DEFINE z == <<0, 0, 0, 0, 0, 0>>
           f == <<255, 255, 255, 255, 255, 255>>
           x == arpv4_header(1, Mac["a"], Ip["a"], z, Ip["b"])
           s == new_skb(42, 14)
           e == <<8, 6>>
<1>1. /\ meant = [kind |-> "arp", sha |-> Mac["b"], spa |-> Ip["b"]]
      /\ skb = put(new_skb(EthSize + ArpSize, EthSize), 0, x)
      /\ at = "eth" /\ pkt = [src_mac |-> Mac["a"], dst_mac |-> f, ether |-> e]
  BY DEF ArpRequest
<1>2. EthSize + ArpSize = 42 /\ EthSize = 14
  BY Sizes
<1>3. skb = put(s, 0, x)
  BY <1>1, <1>2
<1>4. Bytes(Mac["a"], 6) /\ Bytes(Ip["a"], 4) /\ Bytes(Ip["b"], 4) /\ Bytes(z, 6) /\ Bytes(f, 6)
  <2>1. "a" \in Host /\ "b" \in Host
    BY DEF Host
  <2>2. Bytes(z, 6) /\ Bytes(f, 6)
    BY Literals, Tuples
  <2>3. QED
    BY <2>1, <2>2, Addresses
<1> HIDE DEF f, z
<1>5. Bytes(x, 28) /\ ArpFields(x, 1, Mac["a"], Ip["a"], z, Ip["b"])
  <2>1. 1 \in {1, 2}
    OBVIOUS
  <2>2. QED
    BY <1>4, <2>1, ArpHeaderIs
<1> HIDE DEF x
<1>6. x \in Seq(Byte) /\ x \in Seq(Cell) /\ Len(x) = 28
  BY <1>5, BytesAreCells DEF Bytes
<1>7. Holds(s, 14) /\ Len(payload(s)) = 28 /\ payload(s) \in Seq(Cell)
  <2>1. 42 \in Nat /\ 14 \in Nat /\ 14 <= 42 /\ 42 <= Max16 /\ 42 - 14 = 28
    BY Sizes
  <2>2. Holds(s, 14) /\ Len(payload(s)) = 42 - 14
    BY <2>1, NewSkb
  <2>3. QED
    BY <2>1, <2>2, PayloadIs
<1> HIDE DEF s
<1>8. Holds(skb, 14) /\ payload(skb) = x
  <2>1. 0 \in Nat /\ 0 + Len(x) <= Len(payload(s))
    BY <1>6, <1>7
  <2>2. Holds(put(s, 0, x), 14) /\ payload(put(s, 0, x)) = Patch(payload(s), 0, x)
    BY <1>6, <1>7, <2>1, Put
  <2>3. Len(x) = Len(payload(s))
    BY <1>6, <1>7
  <2>4. Patch(payload(s), 0, x) = x
    BY <1>6, <1>7, <2>3, PatchWhole
  <2>5. QED
    BY <1>3, <2>2, <2>4
<1>9. MacIs(pkt, e)
  BY <1>1, <1>4 DEF MacIs
<1>10. IsArp(payload(skb), "a")
  BY <1>5, <1>8 DEF IsArp, z
<1>11. MeantArp(meant)
  BY <1>1 DEF MeantArp
<1>12. QED
  BY <1>1, <1>6, <1>8, <1>9, <1>10, <1>11 DEF AtEth, ArpOut

\* A packet in a frame.
LEMMA FrameIs ==
    ASSUME NEW q, Bytes(q.dst_mac, 6), Bytes(q.src_mac, 6), Bytes(q.ether, 2), NEW w, w \in Seq(Byte)
    PROVE  LET f == ethernetv2_header(q) \o w
           IN  /\ f \in Seq(Byte) /\ Len(f) = 14 + Len(w) /\ Has(f, 12, q.ether) /\ Rest(f, 14) = w
<1> DEFINE x == ethernetv2_header(q)
           k == Len(w)
           l == 14 + k
           f == x \o w
<1>1. Bytes(x, 14) /\ Has(x, 12, q.ether)
  BY EthernetHeaderIs
<1> HIDE DEF x
<1>2. Bytes(w, k) /\ k \in Nat /\ 14 \in Nat /\ 12 \in Nat
  BY DEF Bytes
<1> HIDE DEF k
<1>3. Bytes(f, l) /\ Within(x, f)
  BY <1>1, <1>2, Extend, Zenon
<1>4. x \in Seq(Byte) /\ Len(x) = 14
  BY <1>1 DEF Bytes
<1>5. Rest(f, 14) = w
  <2>1. Rest(f, Len(x)) = w
    BY <1>4, SplitConcat, Zenon
  <2>2. QED
    BY <1>4, <2>1
<1> HIDE DEF f
<1>6. Has(f, 12, q.ether)
  BY <1>1, <1>2, <1>3, InBoth, Zenon
<1>7. QED
  BY <1>3, <1>5, <1>6 DEF Bytes, f, x, k

\* The fields of a packet, and how they are set.
Pkt(a, b, c, d, e, f) == [src |-> a, dst |-> b, proto |-> c, ether |-> d, src_mac |-> e, dst_mac |-> f]
Macs(p, x, y) == [p EXCEPT !.src_mac = x, !.dst_mac = y]
EtherMacs(p, z, x, y) == [p EXCEPT !.ether = z, !.src_mac = x, !.dst_mac = y]
Ends(p, x, y) == [p EXCEPT !.src = x, !.dst = y]

\* The addresses of the frame, ...
LEMMA MacsSet ==
    ASSUME NEW a, NEW b, NEW c, NEW d, NEW e, NEW f, NEW x, NEW y
    PROVE  Macs(Pkt(a, b, c, d, e, f), x, y) = Pkt(a, b, c, d, x, y)
<1> DEFINE p == Pkt(a, b, c, d, e, f)
           p1 == Pkt(a, b, c, d, x, f)
<1>1. [p EXCEPT !.src_mac = x] = p1 /\ [p1 EXCEPT !.dst_mac = y] = Pkt(a, b, c, d, x, y)
  BY DEF Pkt
<1> HIDE DEF p, p1
<1>2. Macs(p, x, y) = [[p EXCEPT !.src_mac = x] EXCEPT !.dst_mac = y]
  BY DEF Macs
<1>3. Macs(p, x, y) = Pkt(a, b, c, d, x, y)
  BY <1>1, <1>2, Zenon
<1>4. QED
  BY <1>3 DEF p

\* ... also with its type, ...
LEMMA EtherMacsSet ==
    ASSUME NEW a, NEW b, NEW c, NEW d, NEW e, NEW f, NEW x, NEW y, NEW z
    PROVE  EtherMacs(Pkt(a, b, c, d, e, f), z, x, y) = Pkt(a, b, c, z, x, y)
<1> DEFINE p == Pkt(a, b, c, d, e, f)
           p2 == Pkt(a, b, c, z, e, f)
           p3 == Pkt(a, b, c, z, x, f)
<1>1. [p EXCEPT !.ether = z] = p2 /\ [p2 EXCEPT !.src_mac = x] = p3 /\ [p3 EXCEPT !.dst_mac = y] = Pkt(a, b, c, z, x, y)
  BY DEF Pkt
<1> HIDE DEF p, p2, p3
<1>2. EtherMacs(p, z, x, y) = [[[p EXCEPT !.ether = z] EXCEPT !.src_mac = x] EXCEPT !.dst_mac = y]
  BY DEF EtherMacs
<1>3. EtherMacs(p, z, x, y) = Pkt(a, b, c, z, x, y)
  BY <1>1, <1>2, Zenon
<1>4. QED
  BY <1>3 DEF p

\* ... and those of the packet.
LEMMA EndsSet ==
    ASSUME NEW a, NEW b, NEW c, NEW d, NEW e, NEW f, NEW x, NEW y
    PROVE  Ends(Pkt(a, b, c, d, e, f), x, y) = Pkt(x, y, c, d, e, f)
<1> DEFINE p == Pkt(a, b, c, d, e, f)
           p4 == Pkt(x, b, c, d, e, f)
<1>1. [p EXCEPT !.src = x] = p4 /\ [p4 EXCEPT !.dst = y] = Pkt(x, y, c, d, e, f)
  BY DEF Pkt
<1> HIDE DEF p, p4
<1>2. Ends(p, x, y) = [[p EXCEPT !.src = x] EXCEPT !.dst = y]
  BY DEF Ends
<1>3. Ends(p, x, y) = Pkt(x, y, c, d, e, f)
  BY <1>1, <1>2, Zenon
<1>4. QED
  BY <1>3 DEF p

\* What another stack sends is a frame with a packet.
LEMMA ForeignIs ==
    ASSUME NEW proto \in {1, 6}, NEW rest, rest \in Seq(Byte), 34 + Len(rest) <= Max16, Foreign(proto, rest)
    PROVE  /\ at = "air" /\ pkt = <<>> /\ Holds(skb, 0)
           /\ LET f == payload(skb)
                  w == Rest(f, 14)
              IN  /\ f \in Seq(Byte) /\ 14 <= Len(f) /\ Has(f, 12, <<8, 0>>)
                  /\ w \in Seq(Byte) /\ 20 <= Len(w) /\ w[1] = 69 /\ w[10] = proto
                  /\ Rest(w, 20) = rest
<1> DEFINE p == [To("b", proto) EXCEPT !.src_mac = Mac["a"], !.dst_mac = Mac["b"]]
           len == 20 + Len(rest)
           id == <<0, 0>>
           x == ethernetv2_header(p)
           y == ipv4_header(p, len, id)
           w == y \o rest
           f == x \o y \o rest
           e == <<8, 0>>
<1>1. /\ skb = [mem |-> f, head |-> 0, tail |-> Len(f), ok |-> TRUE] /\ at = "air" /\ pkt = <<>>
  BY Sizes DEF Foreign
<1>2. p = [src |-> Ip["a"], dst |-> Ip["b"], proto |-> proto, ether |-> e, src_mac |-> Mac["a"], dst_mac |-> Mac["b"]]
  <2> DEFINE t == To("b", proto)
  <2>1. Other("b") = "a"
    BY DEF Other
  <2>2. t = [src |-> Ip["a"], dst |-> Ip["b"], proto |-> proto, ether |-> e, src_mac |-> <<>>, dst_mac |-> <<>>]
    BY <2>1, Zenon DEF To
  <2> HIDE DEF t, e
  <2>3. t = Pkt(Ip["a"], Ip["b"], proto, e, <<>>, <<>>)
    BY <2>2, Zenon DEF Pkt
  <2>4. p = Macs(Pkt(Ip["a"], Ip["b"], proto, e, <<>>, <<>>), Mac["a"], Mac["b"])
    BY <2>3, Zenon DEF t, Macs
  <2> HIDE DEF p
  <2> DEFINE n == <<>>
  <2> HIDE DEF n
  <2>7. Macs(Pkt(Ip["a"], Ip["b"], proto, e, n, n), Mac["a"], Mac["b"]) = Pkt(Ip["a"], Ip["b"], proto, e, Mac["a"], Mac["b"])
    BY MacsSet, SMT
  <2>5. p = Pkt(Ip["a"], Ip["b"], proto, e, Mac["a"], Mac["b"])
    BY <2>4, <2>7, Zenon DEF n
  <2>6. QED
    BY <2>5, Zenon DEF Pkt
<1>3. Bytes(Mac["a"], 6) /\ Bytes(Mac["b"], 6) /\ Bytes(Ip["a"], 4) /\ Bytes(Ip["b"], 4)
  BY Addresses DEF Host
<1>4. Bytes(e, 2) /\ Bytes(id, 2) /\ proto \in Byte
  BY Literals, Tuples
<1> HIDE DEF p, e, id
<1>5. /\ Bytes(p.src, 4) /\ Bytes(p.dst, 4) /\ p.proto = proto /\ p.proto \in Byte
      /\ Bytes(p.dst_mac, 6) /\ Bytes(p.src_mac, 6) /\ p.ether = e /\ Bytes(p.ether, 2)
  BY <1>2, <1>3, <1>4
<1>6. len \in Nat /\ len <= Max16 /\ Len(rest) \in Nat
  <2>1. Max16 \in Nat
    BY Max16Is
  <2>2. QED
    BY <2>1
<1> HIDE DEF len
<1>7. Bytes(y, 20) /\ Ipv4Fields(y, len, proto, p.src, p.dst)
  BY <1>4, <1>5, <1>6, Ipv4HeaderIs
<1> HIDE DEF y
<1>8. y \in Seq(Byte) /\ Len(y) = 20
  BY <1>7 DEF Bytes
<1>9. y[1] = 69 /\ y[10] = proto
  <2> DEFINE a == <<69, 0>>
             b == <<64, proto, 0, 0>>
  <2>1. Len(a) = 2 /\ a[1] = 69 /\ Len(b) = 4 /\ b[2] = proto
    OBVIOUS
  <2>2. Has(y, 0, a) /\ Has(y, 8, b)
    BY <1>7 DEF Ipv4Fields
  <2> HIDE DEF a, b
  <2>3. (\A i \in 1 .. 2 : y[0 + i] = a[i]) /\ \A i \in 1 .. 4 : y[8 + i] = b[i]
    BY <2>1, <2>2 DEF Has
  <2>4. y[0 + 1] = a[1] /\ y[8 + 2] = b[2]
    BY <2>3
  <2>5. QED
    BY <2>1, <2>4
<1>10. IsConcat(y, rest, w) /\ w \in Seq(Byte)
  BY <1>8, ConcatIs
<1>11. Len(w) = 20 + Len(rest) /\ \A i \in 1 .. 20 : w[i] = y[i]
  BY <1>8, <1>10 DEF IsConcat
<1>12. Rest(w, 20) = rest
  <2>1. Rest(w, Len(y)) = rest
    BY <1>8, SplitConcat, Zenon
  <2>2. QED
    BY <1>8, <2>1
<1>13. f = x \o w
  <2>1. x \in Seq(Byte)
    BY <1>5, EthernetHeaderIs DEF Bytes
  <2> HIDE DEF x
  <2>2. QED
    BY <1>8, <2>1, ConcatAssociative
<1> HIDE DEF w
<1>14. f \in Seq(Byte) /\ Len(f) = 14 + Len(w) /\ Has(f, 12, e) /\ Rest(f, 14) = w
  BY <1>5, <1>10, <1>13, FrameIs
<1> HIDE DEF f
<1>15. w[1] = 69 /\ w[10] = proto
  <2>1. 1 \in 1 .. 20 /\ 10 \in 1 .. 20
    OBVIOUS
  <2>2. QED
    BY <1>9, <1>11, <2>1
<1>16. f \in Seq(Cell) /\ Len(f) \in Nat /\ Len(f) = 34 + Len(rest) /\ Len(f) <= Max16
  BY <1>6, <1>11, <1>14, BytesAreCells
<1>17. Holds(skb, 0)
  <2>1. skb.mem = f /\ skb.head = 0 /\ skb.tail = Len(f) /\ skb.ok = TRUE
    BY <1>1
  <2>2. skb \in Skb
    BY <1>1, <1>16 DEF Skb
  <2>3. QED
    BY <1>16, <2>1, <2>2 DEF Holds
<1>18. payload(skb) = f
  <2>1. skb.mem = f /\ skb.head = 0 /\ skb.tail = Len(f) /\ 0 + 1 = 1
    BY <1>1
  <2>2. payload(skb) = SubSeq(f, 1, Len(f))
    BY <2>1 DEF payload
  <2>3. QED
    BY <1>14, <2>2
<1>19. 14 <= Len(f) /\ 20 <= Len(w)
  <2>1. \A k \in Nat : 14 <= 34 + k /\ 20 <= 20 + k
    OBVIOUS
  <2>2. Len(rest) \in Nat /\ Len(f) = 34 + Len(rest) /\ Len(w) = 20 + Len(rest)
    BY <1>6, <1>11, <1>16
  <2>3. 14 <= 34 + Len(rest) /\ 20 <= 20 + Len(rest)
    BY <2>1, <2>2
  <2>4. QED
    BY <2>2, <2>3
<1>20. QED
  BY <1>1, <1>10, <1>12, <1>14, <1>15, <1>17, <1>18, <1>19 DEF e

\* So it is what was meant.
LEMMA ForeignMessage ==
    ASSUME NEW rest, rest \in Seq(Byte), 34 + Len(rest) <= Max16, Foreign(ProtoOf(meant), rest),
           IsMessage(rest, meant, "a", FALSE)
    PROVE  at = "air" /\ AtAir(skb, pkt, meant, "a", FALSE)
<1> DEFINE f == payload(skb)
           w == Rest(f, 14)
<1>1. ProtoOf(meant) \in {1, 6}
  BY DEF ProtoOf
<1>2. /\ at = "air" /\ pkt = <<>> /\ Holds(skb, 0) /\ f \in Seq(Byte) /\ 14 <= Len(f) /\ Has(f, 12, <<8, 0>>)
      /\ w \in Seq(Byte) /\ 20 <= Len(w) /\ w[1] = 69 /\ w[10] = ProtoOf(meant)
      /\ Rest(w, 20) = rest
  BY <1>1, ForeignIs
<1>3. IsPacket(w, meant, "a", FALSE)
  BY <1>2 DEF IsPacket
<1>4. IsFrame(f, meant, "a", FALSE)
  BY <1>2, <1>3 DEF IsFrame
<1>5. QED
  BY <1>2, <1>4 DEF AtAir

\* A SYN of another stack.
LEMMA ForeignSynOut ==
    ASSUME ForeignSyn
    PROVE  at = "air" /\ AtAir(skb, pkt, meant, "a", FALSE)
<1>1. PICK h \in Headers, o \in Options :
        LET hdr == tcp_header_t(h, TcpSize + Len(o.bytes), {"SYN"})
        IN  /\ meant = [kind |-> "tcp", hdr |-> hdr, mss |-> o.mss, data |-> <<>>]
            /\ Foreign(6, tcp_header(hdr) \o o.bytes)
  BY DEF ForeignSyn
<1> DEFINE fl == {"SYN"}
           y == o.bytes
           l == Len(y)
           t == tcp_header_t(h, 20 + l, fl)
           e == <<>>
           rest == tcp_header(t) \o y
<1>2. meant = [kind |-> "tcp", hdr |-> t, mss |-> o.mss, data |-> e] /\ Foreign(6, rest)
  BY <1>1, Sizes
<1>3. y \in Seq(Byte) /\ l \in Nat /\ l % 4 = 0 /\ l <= 40 /\ l < Mss /\ LaidOut(y, o.starts, o.mss)
  <2>1. /\ o.bytes \in Seq(Byte) /\ Len(o.bytes) % 4 = 0 /\ Len(o.bytes) < Mss /\ Len(o.bytes) <= 40
        /\ LaidOut(o.bytes, o.starts, o.mss)
    BY OptionsLaidOut, Zenon
  <2>2. Len(o.bytes) \in Nat
    BY <2>1
  <2>3. QED
    BY <2>1, <2>2, Zenon
<1>4. fl \in SUBSET Flag /\ "SYN" \in fl
  BY DEF Flag
<1> HIDE DEF y, l, fl
<1>5. t \in HdrT /\ t.flags = fl /\ 4 * t.data_offset = 20 + l
  BY <1>3, <1>4, HdrMade
<1> HIDE DEF t
<1>6. meant.hdr = t /\ meant.mss = o.mss /\ meant.data = e /\ meant.kind = "tcp"
  BY <1>2
<1>7. y = y \o e /\ e \in Seq(Byte) /\ Len(e) = 0
  BY <1>3, Empty
<1>17. HeaderFits(meant)
  <2>1. 34 + 4 * t.data_offset < RxBuffer
    BY <1>3, <1>5, Sizes
  <2>2. QED
    BY <1>6, <2>1 DEF HeaderFits
<1>8. MeantTcp(meant)
  BY <1>2, <1>5, <1>6, <1>7, <1>17 DEF MeantTcp
<1> HIDE DEF e
<1>9. OptionsFit(meant, y)
  BY <1>5, <1>6 DEF OptionsFit, l
<1>10. LaidOut(y, o.starts, meant.mss) /\ "SYN" \in meant.hdr.flags /\ rest = tcp_header(meant.hdr) \o (y \o meant.data)
  BY <1>3, <1>4, <1>5, <1>6, <1>7
<1>11. /\ tcp_header(meant.hdr) \o (y \o meant.data) \in Seq(Byte)
       /\ IsSegment(tcp_header(meant.hdr) \o (y \o meant.data), meant, FALSE)
       /\ Len(tcp_header(meant.hdr) \o (y \o meant.data)) = (20 + Len(y)) + Len(meant.data)
  BY <1>3, <1>8, <1>9, <1>10, SegmentMade
<1>12. rest \in Seq(Byte) /\ IsSegment(rest, meant, FALSE) /\ Len(rest) = (20 + l) + 0
  BY <1>6, <1>7, <1>10, <1>11 DEF l
<1> HIDE DEF rest
<1>13. 34 + Len(rest) <= Max16
  BY <1>3, <1>12, Sizes
<1>14. ProtoOf(meant) = 6
  BY <1>8, KindIs
<1>15. IsMessage(rest, meant, "a", FALSE)
  BY <1>8, <1>12 DEF IsMessage
<1>16. QED
  BY <1>2, <1>12, <1>13, <1>14, <1>15, ForeignMessage

\* An echo request of another stack.
LEMMA ForeignEchoOut ==
    ASSUME ForeignEcho
    PROVE  at = "air" /\ AtAir(skb, pkt, meant, "a", FALSE)
<1>1. PICK h \in Headers, data \in Payloads :
        /\ meant = [kind |-> "icmp", type |-> <<0>>, id |-> h.src_port, seq |-> h.dst_port, data |-> data]
        /\ Foreign(1, icmp_header(8, h.src_port, h.dst_port) \o data)
  BY DEF ForeignEcho
<1> DEFINE i == h.src_port
           j == h.dst_port
           x == icmp_header(8, i, j)
           rest == x \o data
           k == Len(data)
           l == 8 + k
           z == <<8, 0, 0, 0>>
<1>2. Bytes(i, 2) /\ Bytes(j, 2)
  <2>1. i \in Number_t(2) /\ j \in Number_t(2) /\ 2 \in Nat
    BY FrameConstants
  <2>2. QED
    BY <2>1, NumberType DEF Bytes
<1> HIDE DEF i, j
<1>3. data \in Seq(Byte) /\ k \in Nat /\ 54 + k <= Max16 /\ Bytes(data, k)
  BY PayloadFits DEF Bytes
<1>4. Bytes(x, 8) /\ Has(x, 0, z) /\ Has(x, 4, i) /\ Has(x, 6, j)
  BY <1>2, Literals, IcmpHeaderIs
<1>5. meant = [kind |-> "icmp", type |-> <<0>>, id |-> i, seq |-> j, data |-> data] /\ Foreign(1, rest)
  BY <1>1 DEF i, j
<1> HIDE DEF x
<1>6. Bytes(rest, l) /\ Has(rest, 8, data) /\ Within(x, rest)
  <2>1. 8 \in Nat /\ l = 8 + k
    OBVIOUS
  <2> HIDE DEF l, k
  <2>2. QED
    BY <1>3, <1>4, <2>1, Extend, Zenon
<1> HIDE DEF rest
<1>7. Has(rest, 0, z) /\ Has(rest, 4, i) /\ Has(rest, 6, j)
  <2>1. 0 \in Nat /\ 4 \in Nat /\ 6 \in Nat /\ Bytes(z, 4)
    BY Literals, Tuples
  <2> HIDE DEF z
  <2>2. QED
    BY <1>2, <1>4, <1>6, <2>1, InBoth, Zenon
<1>8. Has(rest, 0, <<8>>)
  <2>1. Len(z) = 4 /\ z[1] = 8 /\ Len(<<8>>) = 1 /\ <<8>>[1] = 8
    OBVIOUS
  <2> HIDE DEF z
  <2>2. 0 + 4 <= Len(rest) /\ \A n \in 1 .. 4 : rest[0 + n] = z[n]
    BY <1>7, <2>1 DEF Has
  <2>3. Len(rest) \in Nat
    BY <1>3, <1>6 DEF Bytes
  <2>4. 0 + 1 <= Len(rest) /\ rest[0 + 1] = 8
    BY <2>1, <2>2, <2>3
  <2>5. QED
    BY <2>1, <2>4 DEF Has
<1>9. meant.id = i /\ meant.seq = j /\ meant.data = data
  BY <1>5
<1>10. MeantEcho(meant)
  BY <1>2, <1>3, <1>5, <1>9 DEF MeantEcho
<1>11. IsMessage(rest, meant, "a", FALSE)
  <2>1. EchoType("a") = 8
    BY DEF EchoType
  <2>2. IsEcho(rest, meant, 8)
    BY <1>6, <1>7, <1>8, <1>9 DEF IsEcho
  <2>3. QED
    BY <1>6, <1>10, <2>1, <2>2 DEF IsMessage, Bytes
<1>12. rest \in Seq(Byte) /\ Len(rest) = 8 + k
  BY <1>6 DEF Bytes
<1>13. 34 + Len(rest) <= Max16
  BY <1>3, <1>12, Sizes
<1>14. ProtoOf(meant) = 1
  BY <1>10, KindIs
<1>15. QED
  BY <1>5, <1>11, <1>12, <1>13, <1>14, ForeignMessage

-----------------------------------------------------------------------------
(* What the read buffer has no room for *)

\* The text or the data that fits, and what is told then.
Room(m) == IF m.kind = "tcp" THEN Mss ELSE RxBuffer - 42
Fit(m) == IF m.kind = "arp" THEN m ELSE [m EXCEPT !.data = Truncated(m.data, Room(m))]

\* What it means that r begins as p does.
LEMMA GrowsIs ==
    ASSUME NEW p, NEW r, Grows(p, r)
    PROVE  /\ p \in Seq(Byte) /\ r \in Seq(Byte) /\ Len(p) \in Nat /\ Len(r) \in Nat
           /\ Len(p) <= Len(r) /\ \A i \in 1 .. Len(p) : r[i] = p[i]
  BY DEF Grows

\* What is there, and is not cut off, is still there.
LEMMA ShrinksHas ==
    ASSUME NEW v, NEW u, Grows(v, u), NEW n \in Nat, NEW x, x \in Seq(Byte), Has(u, n, x),
           n + Len(x) <= Len(v)
    PROVE  Has(v, n, x)
<1>1. Len(v) \in Nat /\ \A i \in 1 .. Len(v) : u[i] = v[i]
  BY GrowsIs, Zenon
<1>2. ASSUME NEW i \in 1 .. Len(x) PROVE v[n + i] = x[i]
  <2>1. n + i \in 1 .. Len(v)
    BY <1>1
  <2>2. u[n + i] = x[i]
    BY DEF Has
  <2>3. QED
    BY <1>1, <2>1, <2>2
<1>3. QED
  BY <1>2 DEF Has

\* The beginning of what is there is there.
LEMMA BeginsHas ==
    ASSUME NEW u, NEW n \in Nat, NEW x, NEW y, Grows(y, x), Has(u, n, x), u \in Seq(Byte)
    PROVE  Has(u, n, y)
<1>1. Len(y) \in Nat /\ Len(x) \in Nat /\ Len(y) <= Len(x) /\ \A i \in 1 .. Len(y) : x[i] = y[i]
  BY GrowsIs, Zenon
<1>2. n + Len(x) <= Len(u) /\ \A i \in 1 .. Len(x) : u[n + i] = x[i]
  BY DEF Has
<1>3. ASSUME NEW i \in 1 .. Len(y) PROVE u[n + i] = y[i]
  <2>1. i \in 1 .. Len(x)
    BY <1>1
  <2>2. QED
    BY <1>1, <1>2, <2>1
<1>4. n + Len(y) <= Len(u)
  BY <1>1, <1>2
<1>5. QED
  BY <1>3, <1>4 DEF Has

\* A segment that is cut off tells the rest.
LEMMA FitTcp ==
    ASSUME NEW m, MeantTcp(m)
    PROVE  LET f == Fit(m)
           IN  /\ f = [m EXCEPT !.data = Truncated(m.data, Mss)]
               /\ MeantTcp(f) /\ f.hdr = m.hdr /\ f.mss = m.mss /\ f.data = Truncated(m.data, Mss)
               /\ Fit(f) = f /\ (Len(m.data) <= Mss => f = m)
<1> DEFINE f == Fit(m)
           d == Truncated(m.data, Mss)
<1>1. /\ m = [kind |-> "tcp", hdr |-> m.hdr, mss |-> m.mss, data |-> m.data]
      /\ m.hdr \in HdrT /\ m.data \in Seq(Byte) /\ HeaderFits(m)
  BY DEF MeantTcp
<1>2. m.kind = "tcp" /\ Mss \in Nat
  BY KindIs, Sizes
<1>3. /\ d \in Seq(Byte) /\ Len(d) \in Nat /\ Len(d) <= Mss /\ (Len(m.data) <= Mss => d = m.data)
  BY <1>1, <1>2, TruncatedIs
<1>4. Truncated(d, Mss) = d
  BY <1>2, <1>3, TruncatedIs
<1>5. f = [m EXCEPT !.data = d]
  BY <1>2, Zenon DEF Fit, Room
<1>6. m.data = <<>> => d = <<>>
  <2>1. ASSUME m.data = <<>> PROVE Len(m.data) <= Mss
    BY <1>2, <2>1
  <2>2. QED
    BY <1>3, <2>1
<1> HIDE DEF d
<1>7. f = [kind |-> "tcp", hdr |-> m.hdr, mss |-> m.mss, data |-> d]
  BY <1>1, <1>5
<1> HIDE DEF f
<1>8. f.kind = "tcp" /\ f.hdr = m.hdr /\ f.mss = m.mss /\ f.data = d
  BY <1>7
<1>9. HeaderFits(f)
  BY <1>1, <1>6, <1>8 DEF HeaderFits
<1>10. MeantTcp(f)
  BY <1>1, <1>3, <1>7, <1>8, <1>9 DEF MeantTcp
<1>11. Fit(f) = f
  <2>1. Fit(f) = [f EXCEPT !.data = Truncated(f.data, Mss)]
    BY <1>8, Zenon DEF Fit, Room
  <2>2. Fit(f) = [f EXCEPT !.data = d]
    BY <1>4, <1>8, <2>1 DEF d
  <2>3. [f EXCEPT !.data = d] = f
    BY <1>7
  <2>4. QED
    BY <2>2, <2>3
<1>12. Len(m.data) <= Mss => f = m
  BY <1>1, <1>3, <1>7
<1>13. QED
  BY <1>5, <1>8, <1>10, <1>11, <1>12 DEF f, d

\* So does an echo message.
LEMMA FitEcho ==
    ASSUME NEW m, MeantEcho(m)
    PROVE  LET f == Fit(m)
           IN  /\ f = [m EXCEPT !.data = Truncated(m.data, RxBuffer - 42)]
               /\ MeantEcho(f) /\ f.id = m.id /\ f.seq = m.seq /\ f.data = Truncated(m.data, RxBuffer - 42)
               /\ Fit(f) = f /\ (Len(m.data) <= RxBuffer - 42 => f = m)
<1> DEFINE f == Fit(m)
           k == RxBuffer - 42
           d == Truncated(m.data, k)
           z == <<0>>
<1>1. /\ m = [kind |-> "icmp", type |-> z, id |-> m.id, seq |-> m.seq, data |-> m.data]
      /\ Bytes(m.id, 2) /\ Bytes(m.seq, 2) /\ m.data \in Seq(Byte)
  BY DEF MeantEcho
<1>2. m.kind = "icmp" /\ k \in Nat
  BY KindIs, Sizes
<1>3. /\ d \in Seq(Byte) /\ Len(d) \in Nat /\ Len(d) <= k /\ (Len(m.data) <= k => d = m.data)
  BY <1>1, <1>2, TruncatedIs
<1>4. Truncated(d, k) = d
  BY <1>2, <1>3, TruncatedIs
<1>5. f = [m EXCEPT !.data = d]
  BY <1>2, Zenon DEF Fit, Room
<1> HIDE DEF d, z
<1>7. f = [kind |-> "icmp", type |-> z, id |-> m.id, seq |-> m.seq, data |-> d]
  BY <1>1, <1>5
<1> HIDE DEF f
<1>8. f.kind = "icmp" /\ f.id = m.id /\ f.seq = m.seq /\ f.data = d
  BY <1>7
<1>10. MeantEcho(f)
  BY <1>1, <1>3, <1>7, <1>8 DEF MeantEcho, z
<1>11. Fit(f) = f
  <2>1. Fit(f) = [f EXCEPT !.data = Truncated(f.data, k)]
    BY <1>8, Zenon DEF Fit, Room
  <2>2. Fit(f) = [f EXCEPT !.data = d]
    BY <1>4, <1>8, <2>1 DEF d
  <2>3. [f EXCEPT !.data = d] = f
    BY <1>7
  <2>4. QED
    BY <2>2, <2>3
<1>12. Len(m.data) <= k => f = m
  BY <1>1, <1>3, <1>7
<1>13. QED
  BY <1>5, <1>8, <1>10, <1>11, <1>12 DEF f, d

\* Bytes whose beginning stays have the same parts there.
LEMMA ShrinksCut ==
    ASSUME NEW v, NEW u, Grows(v, u), NEW i \in Nat, NEW n \in Nat, i <= n, n <= Len(v)
    PROVE  SubSeq(v, i + 1, n) = SubSeq(u, i + 1, n)
<1>1. /\ v \in Seq(Byte) /\ u \in Seq(Byte) /\ Len(v) \in Nat /\ Len(u) \in Nat /\ Len(v) <= Len(u)
      /\ \A j \in 1 .. Len(v) : u[j] = v[j]
  BY GrowsIs, Zenon
<1> DEFINE k == n - i
           x == SubSeq(v, i + 1, i + k)
<1>2. k \in Nat /\ i + k = n
  OBVIOUS
<1>3. i + k <= Len(v)
  BY <1>2
<1> HIDE DEF k
<1>4. x \in Seq(Byte) /\ Len(x) = k /\ Has(v, i, x)
  BY <1>1, <1>2, <1>3, HasCut
<1> HIDE DEF x
<1>5. Has(u, i, x)
  BY <1>4, GrowsHas
<1>6. SubSeq(u, i + 1, i + Len(x)) = x
  BY <1>1, <1>4, <1>5, CutHas
<1>7. QED
  BY <1>2, <1>4, <1>6 DEF x

\* Of the message u the read buffer has kept v.
Kept(v, u, k) == Grows(v, u) /\ k \in Nat /\ Len(v) = k /\ k + 34 = RxBuffer

\* What is kept of a segment is the segment with as much text as fits.
LEMMA CutSegment ==
    ASSUME NEW v, NEW u, NEW k, Kept(v, u, k), NEW m, MeantTcp(m), NEW pad, IsSegment(u, m, pad)
    PROVE  IsSegment(v, Fit(m), pad)
<1> DEFINE h == m.hdr
           n == 4 * h.data_offset
           f == Fit(m)
           d == Truncated(m.data, Mss)
           l == Len(m.data)
<1>1. Grows(v, u) /\ k \in Nat /\ Len(v) = k /\ k = 20 + Mss /\ Mss \in Nat /\ RxBuffer \in Nat
  BY Sizes DEF Kept
<1>2. u \in Seq(Byte) /\ v \in Seq(Byte) /\ Len(u) \in Nat /\ k <= Len(u)
  BY <1>1, GrowsIs
<1>3. /\ n \in Nat /\ 20 <= n /\ n + l <= Len(u) /\ m.data \in Seq(Byte) /\ l \in Nat
  BY <1>2, SegmentLong
<1>4. h \in HdrT /\ h.data_offset \in Nat /\ HeaderFits(m)
  BY HdrIs DEF MeantTcp
<1>5. n <= k /\ (n = 20 \/ m.data = <<>>)
  <2>1. 34 + n < RxBuffer /\ (h.data_offset = 5 \/ m.data = <<>>)
    BY <1>4 DEF HeaderFits
  <2>2. k + 34 = RxBuffer
    BY DEF Kept
  <2>3. n <= k
    BY <1>1, <1>3, <2>1, <2>2
  <2>4. QED
    BY <2>1, <2>3
<1>6. /\ TcpFields(u, h) /\ Has(u, n, m.data) /\ (~pad => Len(u) = n + l)
      /\ IF "SYN" \in h.flags THEN Says(SubSeq(u, 21, n), m.mss) ELSE m.mss = <<>>
  BY DEF IsSegment
<1>7. f.hdr = h /\ f.mss = m.mss /\ f.data = d
  BY FitTcp
<1>8. d \in Seq(Byte) /\ Grows(d, m.data) /\ Len(d) \in Nat /\ Len(d) <= Mss /\ Len(d) <= l
      /\ (Mss <= l => Len(d) = Mss)
  <2>1. d \in Seq(Byte) /\ Grows(d, m.data) /\ Len(d) \in Nat /\ Len(d) <= Mss /\ (Mss <= l => Len(d) = Mss)
    BY <1>1, <1>3, TruncatedIs
  <2>2. Len(d) <= Len(m.data)
    BY <2>1, GrowsIs, Zenon
  <2>3. QED
    BY <2>1, <2>2
<1> HIDE DEF f, d, n, h, l
<1>9. TcpFields(v, h)
  <2>1. /\ Has(u, 0, h.src_port) /\ Has(u, 2, h.dst_port) /\ Has(u, 4, h.seq_no) /\ Has(u, 8, h.ack_no)
        /\ Has(u, 12, Digits(OffsetFlags(h))) /\ Has(u, 14, h.window)
    BY <1>6 DEF TcpFields
  <2>2. ASSUME NEW i \in Nat, NEW j \in Nat, NEW x, Bytes(x, i), Has(u, j, x), j + i <= 16
        PROVE  Has(v, j, x)
    <3>1. x \in Seq(Byte) /\ j + Len(x) <= Len(v)
      BY <1>1, <2>2 DEF Bytes
    <3>2. QED
      BY <1>1, <2>2, <3>1, ShrinksHas, Zenon
  <2>3. /\ Bytes(h.src_port, 2) /\ Bytes(h.dst_port, 2) /\ Bytes(h.seq_no, 4) /\ Bytes(h.ack_no, 4)
        /\ Bytes(Digits(OffsetFlags(h)), 2) /\ Bytes(h.window, 2)
    BY <1>4, HdrIs DEF Bytes
  <2>4. /\ 0 + 2 <= 16 /\ 2 + 2 <= 16 /\ 4 + 4 <= 16 /\ 8 + 4 <= 16 /\ 12 + 2 <= 16 /\ 14 + 2 <= 16
        /\ 0 \in Nat /\ 2 \in Nat /\ 4 \in Nat /\ 8 \in Nat /\ 12 \in Nat /\ 14 \in Nat
    OBVIOUS
  <2>5. /\ Has(v, 0, h.src_port) /\ Has(v, 2, h.dst_port) /\ Has(v, 4, h.seq_no) /\ Has(v, 8, h.ack_no)
        /\ Has(v, 12, Digits(OffsetFlags(h))) /\ Has(v, 14, h.window)
    BY <2>1, <2>2, <2>3, <2>4, Zenon
  <2>6. QED
    BY <2>5 DEF TcpFields
<1>10. n + Len(d) <= Len(v)
  <2>1. CASE n = 20
    BY <1>1, <1>8, <2>1
  <2>2. CASE m.data = <<>>
    <3>1. l = 0
      BY <2>2 DEF l
    <3>2. QED
      BY <1>1, <1>3, <1>5, <1>8, <3>1
  <2>3. QED
    BY <1>5, <2>1, <2>2
<1>11. Has(v, n, d)
  <2>1. Has(u, n, d)
    BY <1>2, <1>3, <1>6, <1>8, BeginsHas, Zenon
  <2>2. QED
    BY <1>1, <1>3, <1>8, <1>10, <2>1, ShrinksHas, Zenon
<1>12. SubSeq(v, 21, n) = SubSeq(u, 21, n)
  <2> DEFINE c == 20
  <2>1. c \in Nat /\ c <= n /\ n <= Len(v) /\ n \in Nat /\ Grows(v, u)
    BY <1>1, <1>3, <1>5
  <2>2. c + 1 = 21
    OBVIOUS
  <2> HIDE DEF c
  <2>3. SubSeq(v, c + 1, n) = SubSeq(u, c + 1, n)
    BY <2>1, ShrinksCut, Zenon
  <2>4. QED
    BY <2>2, <2>3
<1>13. ~pad => Len(v) = n + Len(d)
  <2> SUFFICES ASSUME ~pad PROVE Len(v) = n + Len(d)
    OBVIOUS
  <2>1. CASE n = 20
    <3>1. Mss <= l
      BY <1>1, <1>2, <1>3, <1>6, <2>1
    <3>2. QED
      BY <1>1, <1>8, <2>1, <3>1
  <2>2. CASE m.data = <<>>
    <3>1. l = 0
      BY <2>2 DEF l
    <3>2. n = k
      BY <1>1, <1>2, <1>3, <1>5, <1>6, <3>1
    <3>3. QED
      BY <1>1, <1>8, <3>1, <3>2
  <2>3. QED
    BY <1>5, <2>1, <2>2
<1>14. IF "SYN" \in h.flags THEN Says(SubSeq(v, 21, n), m.mss) ELSE m.mss = <<>>
  BY <1>6, <1>12, Zenon
<1>15. QED
  BY <1>7, <1>9, <1>11, <1>13, <1>14, Zenon DEF IsSegment, f, n, h

\* The same of an echo message.
LEMMA CutEcho ==
    ASSUME NEW v, NEW u, NEW k, Kept(v, u, k), NEW m, MeantEcho(m), NEW type \in {0, 8}, IsEcho(u, m, type)
    PROVE  IsEcho(v, Fit(m), type)
<1> DEFINE f == Fit(m)
           r == RxBuffer - 42
           d == Truncated(m.data, r)
           t == <<type>>
<1>1. Grows(v, u) /\ k \in Nat /\ Len(v) = k /\ k = 8 + r /\ r \in Nat /\ RxBuffer \in Nat
  BY Sizes DEF Kept
<1>2. u \in Seq(Byte) /\ v \in Seq(Byte)
  BY <1>1, GrowsIs
<1>3. Bytes(m.id, 2) /\ Bytes(m.seq, 2) /\ m.data \in Seq(Byte)
  BY DEF MeantEcho
<1>4. Has(u, 0, t) /\ Has(u, 4, m.id) /\ Has(u, 6, m.seq) /\ Has(u, 8, m.data)
  BY DEF IsEcho
<1>5. f.id = m.id /\ f.seq = m.seq /\ f.data = d
  BY FitEcho
<1> HIDE DEF r
<1>6. d \in Seq(Byte) /\ Grows(d, m.data) /\ Len(d) \in Nat /\ Len(d) <= r
  BY <1>1, <1>3, TruncatedIs
<1>7. Bytes(t, 1)
  BY Literals DEF Bytes
<1> HIDE DEF f, d, t
<1>8. ASSUME NEW i \in Nat, NEW j \in Nat, NEW x, Bytes(x, i), Has(u, j, x), j + i <= 8
      PROVE  Has(v, j, x)
  <2>1. x \in Seq(Byte) /\ j + Len(x) <= Len(v)
    BY <1>1, <1>8 DEF Bytes
  <2>2. QED
    BY <1>1, <1>8, <2>1, ShrinksHas, Zenon
<1>9. 0 \in Nat /\ 1 \in Nat /\ 2 \in Nat /\ 4 \in Nat /\ 6 \in Nat /\ 8 \in Nat
      /\ 0 + 1 <= 8 /\ 4 + 2 <= 8 /\ 6 + 2 <= 8
  OBVIOUS
<1>10. Has(v, 0, t) /\ Has(v, 4, m.id) /\ Has(v, 6, m.seq)
  BY <1>3, <1>4, <1>7, <1>8, <1>9, Zenon
<1>11. Has(v, 8, d)
  <2>1. Has(u, 8, d)
    BY <1>2, <1>4, <1>6, <1>9, BeginsHas, Zenon
  <2>2. 8 + Len(d) <= Len(v)
    BY <1>1, <1>6
  <2>3. QED
    BY <1>1, <1>6, <1>9, <2>1, <2>2, ShrinksHas, Zenon
<1>12. QED
  BY <1>5, <1>10, <1>11 DEF IsEcho, f, t

\* An ARP packet is not cut off.
LEMMA CutArp ==
    ASSUME NEW v, NEW u, Grows(v, u), 28 <= Len(v), NEW h, IsArp(u, h)
    PROVE  IsArp(v, h)
<1> DEFINE z == <<0, 0, 0, 0, 0, 0>>
<1>1. /\ Bytes(Mac["a"], 6) /\ Bytes(Mac["b"], 6) /\ Bytes(Ip["a"], 4) /\ Bytes(Ip["b"], 4)
      /\ Bytes(Digits(1), 2) /\ Bytes(Digits(2), 2) /\ Bytes(Digits(2048), 2) /\ Bytes(z, 6)
  <2>1. "a" \in Host /\ "b" \in Host
    BY DEF Host
  <2>2. Bytes(Mac["a"], 6) /\ Bytes(Mac["b"], 6) /\ Bytes(Ip["a"], 4) /\ Bytes(Ip["b"], 4)
    BY <2>1, Addresses
  <2>3. Bytes(Digits(1), 2) /\ Bytes(Digits(2), 2) /\ Bytes(Digits(2048), 2)
    BY Constants
  <2>4. Bytes(z, 6)
    BY Literals, Tuples
  <2>5. QED
    BY <2>2, <2>3, <2>4
<1> HIDE DEF z
<1>2. ASSUME NEW k \in Nat, NEW n \in Nat, NEW x, Bytes(x, k), n + k <= 28, Has(u, n, x)
      PROVE  Has(v, n, x)
  <2>1. x \in Seq(Byte) /\ n + Len(x) <= Len(v)
    <3>1. Len(v) \in Nat
      BY GrowsIs, Zenon
    <3>2. QED
      BY <1>2, <3>1 DEF Bytes
  <2>2. QED
    BY <1>2, <2>1, ShrinksHas, Zenon
<1>3. /\ 0 \in Nat /\ 2 \in Nat /\ 4 \in Nat /\ 6 \in Nat /\ 8 \in Nat /\ 14 \in Nat /\ 18 \in Nat /\ 24 \in Nat
      /\ 0 + 2 <= 28 /\ 2 + 2 <= 28 /\ 6 + 2 <= 28 /\ 8 + 6 <= 28 /\ 14 + 4 <= 28 /\ 18 + 6 <= 28 /\ 24 + 4 <= 28
  OBVIOUS
<1>4. ASSUME NEW oper, NEW sha, NEW spa, NEW tha, NEW tpa, Bytes(Digits(oper), 2), Bytes(sha, 6),
             Bytes(spa, 4), Bytes(tha, 6), Bytes(tpa, 4), ArpFields(u, oper, sha, spa, tha, tpa)
      PROVE  ArpFields(v, oper, sha, spa, tha, tpa)
  <2> DEFINE d == Digits(2048)
             e == Digits(oper)
             f == Digits(1)
  <2>1. Has(u, 0, f) /\ Has(u, 2, d) /\ Has(u, 6, e)
        /\ Has(u, 8, sha) /\ Has(u, 14, spa) /\ Has(u, 18, tha) /\ Has(u, 24, tpa)
    BY <1>4 DEF ArpFields
  <2>2. Bytes(f, 2) /\ Bytes(d, 2) /\ Bytes(e, 2)
    BY <1>1, <1>4
  <2> HIDE DEF d, e, f
  <2>3. Has(v, 0, f) /\ Has(v, 2, d) /\ Has(v, 6, e)
    BY <1>2, <1>3, <2>1, <2>2, Zenon
  <2>4. Has(v, 8, sha) /\ Has(v, 14, spa)
    BY <1>2, <1>3, <1>4, <2>1, Zenon
  <2>5. Has(v, 18, tha) /\ Has(v, 24, tpa)
    BY <1>2, <1>3, <1>4, <2>1, Zenon
  <2>6. QED
    BY <2>3, <2>4, <2>5 DEF ArpFields, d, e, f
<1>5. CASE h = "a"
  <2>1. ArpFields(u, 1, Mac["a"], Ip["a"], z, Ip["b"])
    BY <1>5 DEF IsArp, z
  <2>2. ArpFields(v, 1, Mac["a"], Ip["a"], z, Ip["b"])
    BY <1>1, <1>4, <2>1
  <2>3. QED
    BY <1>5, <2>2 DEF IsArp, z
<1>6. CASE h # "a"
  <2>1. ArpFields(u, 2, Mac["b"], Ip["b"], Mac["a"], Ip["a"])
    BY <1>6 DEF IsArp
  <2>2. ArpFields(v, 2, Mac["b"], Ip["b"], Mac["a"], Ip["a"])
    BY <1>1, <1>4, <2>1
  <2>3. QED
    BY <1>6, <2>2 DEF IsArp
<1>7. QED
  BY <1>5, <1>6

\* What is told by a frame that fits is not cut off.
LEMMA FitsFrame ==
    ASSUME NEW f, NEW m, NEW h, NEW pad, IsFrame(f, m, h, pad), Len(f) <= RxBuffer
    PROVE  Fit(m) = m
<1> DEFINE p == Rest(f, 14)
           u == Rest(p, 20)
           l == Len(m.data)
<1>1. f \in Seq(Byte) /\ 14 <= Len(f) /\ Len(f) \in Nat /\ RxBuffer \in Nat
  BY Sizes DEF IsFrame
<1>2. CASE MeantArp(m)
  BY <1>2, KindIs DEF Fit
<1>3. CASE IsPacket(p, m, h, pad)
  <2>1. p \in Seq(Byte) /\ 20 <= Len(p) /\ IsMessage(u, m, h, pad)
    BY <1>3 DEF IsPacket
  <2>2. Len(p) = Len(f) - 14 /\ Len(p) \in Nat
    BY <1>1, Split
  <2> HIDE DEF p
  <2>3. u \in Seq(Byte) /\ Len(u) = Len(p) - 20 /\ Len(u) \in Nat
    BY <2>1, <2>2, Split
  <2> HIDE DEF u
  <2>4. CASE MeantTcp(m) /\ IsSegment(u, m, pad)
    <3>1. 20 <= 4 * m.hdr.data_offset /\ 4 * m.hdr.data_offset + l <= Len(u) /\ l \in Nat
          /\ 4 * m.hdr.data_offset \in Nat
      BY <2>3, <2>4, SegmentLong
    <3> DEFINE n == 4 * m.hdr.data_offset
    <3> HIDE DEF n, l
    <3>2. \A x, y \in Nat : 20 <= x /\ x + y <= Len(u) => y <= Mss
      BY <1>1, <2>2, <2>3, Sizes
    <3>3. l <= Mss
      BY <3>1, <3>2 DEF n
    <3>4. QED
      BY <2>4, <3>3, FitTcp DEF l
  <2>5. CASE MeantEcho(m) /\ IsEcho(u, m, EchoType(h))
    <3>1. 8 + l <= Len(u)
      BY <2>5 DEF IsEcho, Has
    <3>2. l \in Nat
      BY <2>5 DEF MeantEcho
    <3> HIDE DEF l
    <3>3. l <= RxBuffer - 42
      BY <1>1, <2>2, <2>3, <3>1, <3>2
    <3>4. QED
      BY <2>5, <3>3, FitEcho DEF l
  <2>6. QED
    BY <2>1, <2>4, <2>5 DEF IsMessage
<1>4. QED
  BY <1>2, <1>3 DEF IsFrame

\* What a device reads of a frame is a frame that tells what fits.
LEMMA CutFrame ==
    ASSUME NEW f, NEW m, NEW h, NEW pad, IsFrame(f, m, h, pad)
    PROVE  IsFrame(Truncated(f, RxBuffer), Fit(m), h, pad)
<1> DEFINE r == Truncated(f, RxBuffer)
           p == Rest(f, 14)
           q == Rest(r, 14)
           arp == <<8, 6>>
           ip == <<8, 0>>
<1>1. f \in Seq(Byte) /\ 14 <= Len(f) /\ Len(f) \in Nat /\ RxBuffer \in Nat /\ 62 < RxBuffer
  BY Sizes DEF IsFrame
<1>2. /\ r \in Seq(Byte) /\ Grows(r, f) /\ Len(r) \in Nat
      /\ (Len(f) <= RxBuffer => r = f) /\ (RxBuffer <= Len(f) => Len(r) = RxBuffer)
  BY <1>1, TruncatedIs
<1>3. CASE Len(f) <= RxBuffer
  <2>1. Fit(m) = m /\ r = f
    BY <1>2, <1>3, FitsFrame
  <2>2. QED
    BY <2>1
<1>4. CASE ~(Len(f) <= RxBuffer)
  <2>1. Len(r) = RxBuffer /\ 14 <= Len(r) /\ 14 \in Nat /\ 12 \in Nat
    BY <1>1, <1>2, <1>4
  <2> HIDE DEF r
  <2>2. Grows(q, p) /\ Len(q) = RxBuffer - 14
    BY <1>2, <2>1, GrowsRest
  <2>3. Bytes(arp, 2) /\ Bytes(ip, 2)
    BY Literals, Tuples
  <2> HIDE DEF arp, ip, p, q
  <2>4. ASSUME NEW x, Bytes(x, 2), Has(f, 12, x) PROVE Has(r, 12, x)
    <3>1. x \in Seq(Byte) /\ 12 + Len(x) <= Len(r)
      BY <2>1, <2>4 DEF Bytes
    <3>2. QED
      BY <1>2, <2>1, <2>4, <3>1, ShrinksHas, Zenon
  <2>8. r \in Seq(Byte) /\ 14 <= Len(r)
    BY <1>2, <2>1
  <2>5. CASE MeantArp(m) /\ Has(f, 12, arp) /\ IsArp(p, h)
    <3>1. IsArp(q, h)
      <4>1. 28 <= Len(q)
        BY <1>1, <2>2
      <4>2. QED
        BY <2>2, <2>5, <4>1, CutArp
    <3>2. Fit(m) = m
      BY <2>5, KindIs DEF Fit
    <3>3. Has(r, 12, arp)
      BY <2>3, <2>4, <2>5
    <3>4. QED
      BY <2>5, <2>8, <3>1, <3>2, <3>3, Zenon DEF IsFrame, arp, q, r
  <2>6. CASE Has(f, 12, ip) /\ IsPacket(p, m, h, pad)
    <3> DEFINE u == Rest(p, 20)
               v == Rest(q, 20)
               k == RxBuffer - 34
    <3>1. p \in Seq(Byte) /\ 20 <= Len(p) /\ p[1] = 69 /\ p[10] = ProtoOf(m) /\ IsMessage(u, m, h, pad)
      BY <2>6 DEF IsPacket
    <3>2. q \in Seq(Byte) /\ Len(q) \in Nat /\ 20 <= Len(q)
      BY <1>1, <2>2, GrowsIs
    <3>3. /\ Grows(v, u) /\ Len(v) = Len(q) - 20 /\ \A i \in 1 .. 20 : p[i] = q[i]
      <4>1. 20 \in Nat
        OBVIOUS
      <4>2. QED
        BY <2>2, <3>2, <4>1, GrowsRest, Zenon
    <3>4. q[1] = 69 /\ q[10] = ProtoOf(m)
      <4>1. 1 \in 1 .. 20 /\ 10 \in 1 .. 20
        OBVIOUS
      <4>2. QED
        BY <3>1, <3>3, <4>1
    <3> HIDE DEF u, v
    <3>5. Kept(v, u, k)
      <4>1. k \in Nat /\ k + 34 = RxBuffer /\ Len(v) = k
        BY <1>1, <2>2, <3>3
      <4>2. QED
        BY <3>3, <4>1 DEF Kept
    <3> HIDE DEF k
    <3>6. v \in Seq(Byte)
      BY <3>3, GrowsIs
    <3>10. Has(r, 12, ip)
      BY <2>3, <2>4, <2>6
    <3>7. CASE MeantTcp(m) /\ IsSegment(u, m, pad)
      <4>1. IsSegment(v, Fit(m), pad)
        BY <3>5, <3>7, CutSegment, Zenon
      <4>2. MeantTcp(Fit(m))
        BY <3>7, FitTcp
      <4>3. ProtoOf(Fit(m)) = ProtoOf(m)
        BY <3>7, <4>2, KindIs
      <4>4. IsMessage(v, Fit(m), h, pad)
        BY <3>6, <4>1, <4>2 DEF IsMessage
      <4>5. IsPacket(q, Fit(m), h, pad)
        BY <3>2, <3>4, <4>3, <4>4, Zenon DEF IsPacket, v
      <4>6. QED
        BY <2>8, <3>10, <4>5, Zenon DEF IsFrame, ip, q, r
    <3>8. CASE MeantEcho(m) /\ IsEcho(u, m, EchoType(h))
      <4>1. EchoType(h) \in {0, 8}
        BY DEF EchoType
      <4>2. IsEcho(v, Fit(m), EchoType(h))
        BY <3>5, <3>8, <4>1, CutEcho, Zenon
      <4>3. MeantEcho(Fit(m))
        BY <3>8, FitEcho
      <4>4. ProtoOf(Fit(m)) = ProtoOf(m)
        BY <3>8, <4>3, KindIs
      <4>5. IsMessage(v, Fit(m), h, pad)
        BY <3>6, <4>2, <4>3 DEF IsMessage
      <4>6. IsPacket(q, Fit(m), h, pad)
        BY <3>2, <3>4, <4>4, <4>5, Zenon DEF IsPacket, v
      <4>7. QED
        BY <2>8, <3>10, <4>6, Zenon DEF IsFrame, ip, q, r
    <3>9. QED
      BY <3>1, <3>7, <3>8 DEF IsMessage
  <2>7. QED
    BY <2>5, <2>6 DEF IsFrame, arp, ip, p
<1>5. QED
  BY <1>3, <1>4

-----------------------------------------------------------------------------
(* Every layer hands what it was given to the next one *)

\* tcp::process.
LEMMA TcpStep ==
    ASSUME NEW s, NEW q, NEW m, NEW h, NEW pad \in BOOLEAN, AtTcp(s, q, m, pad)
    PROVE  AtIpv4(with_tcp_checksum(s, q), q, m, h, pad)
<1> DEFINE r == with_tcp_checksum(s, q)
           p == payload(r)
<1>1. /\ Holds(s, 34) /\ IpIs(q, 6) /\ MeantTcp(m) /\ payload(s) \in Seq(Byte) /\ IsSegment(payload(s), m, pad)
  BY DEF AtTcp
<1>2. Bytes(q.src, 4) /\ Bytes(q.dst, 4) /\ q.proto = 6
  BY <1>1 DEF IpIs
<1>3. Holds(r, 34) /\ p \in Seq(Byte) /\ IsSegment(p, m, pad) /\ Verifies(Pseudo(q.src, q.dst, Len(p)) \o p)
  BY <1>1, <1>2, TcpChecksum
<1> HIDE DEF r
<1>4. ProtoOf(m) = 6 /\ ~MeantEcho(m)
  BY <1>1, KindIs
<1>5. IsMessage(p, m, h, pad)
  BY <1>1, <1>3 DEF IsMessage
<1>6. Covered(q, p)
  BY <1>2, <1>3 DEF Covered
<1>7. QED
  BY <1>1, <1>3, <1>4, <1>5, <1>6 DEF AtIpv4, r

\* ipv4::process.
LEMMA Ipv4Step ==
    ASSUME NEW s, NEW q, NEW m, NEW h \in Host, NEW pad \in BOOLEAN, AtIpv4(s, q, m, h, pad), NEW id \in Idents
    PROVE  AtEth(with_ipv4_header(s, q, id), EtherMacs(q, <<8, 0>>, Mac[h], Mac[Other(h)]), m, h, pad)
<1> DEFINE r == with_ipv4_header(s, q, id)
           w == payload(r)
           p == payload(s)
           e == <<8, 0>>
           q2 == EtherMacs(q, e, Mac[h], Mac[Other(h)])
<1>1. /\ Holds(s, 34) /\ IpIs(q, ProtoOf(m)) /\ IsMessage(p, m, h, pad) /\ Covered(q, p)
  BY DEF AtIpv4
<1>2. Bytes(q.src, 4) /\ Bytes(q.dst, 4) /\ q.proto = ProtoOf(m) /\ q.proto \in Byte /\ q.proto \in {1, 6}
  BY <1>1, Literals DEF IpIs, ProtoOf
<1>3. p \in Seq(Byte)
  BY <1>1 DEF IsMessage
<1>4. Bytes(id, 2)
  <2>1. id \in Number_t(2) /\ 2 \in Nat
    BY FrameConstants
  <2>2. QED
    BY <2>1, NumberType DEF Bytes
<1>5. /\ Holds(r, 14) /\ w \in Seq(Byte) /\ 20 <= Len(w) /\ w[1] = 69 /\ w[10] = q.proto
      /\ Number(SubSeq(w, 3, 4)) = Len(w) /\ Verifies(First(w, 20))
      /\ SubSeq(w, 13, 20) = q.src \o q.dst /\ Rest(w, 20) = p
  BY <1>1, <1>2, <1>3, <1>4, Ipv4Header
<1> HIDE DEF r
<1>6. MacIs(q2, e) /\ q2.proto = q.proto
  <2> DEFINE a == Mac[h]
             b == Mac[Other(h)]
  <2>1. Bytes(a, 6) /\ Bytes(b, 6)
    BY OtherIs, Addresses
  <2> HIDE DEF a, b, e
  <2>2. q = Pkt(q.src, q.dst, q.proto, q.ether, q.src_mac, q.dst_mac)
    BY <1>1 DEF IpIs, Pkt
  <2>3. EtherMacs(Pkt(q.src, q.dst, q.proto, q.ether, q.src_mac, q.dst_mac), e, a, b)
            = Pkt(q.src, q.dst, q.proto, e, a, b)
    BY EtherMacsSet, SMT
  <2>4. EtherMacs(q, e, a, b) = Pkt(q.src, q.dst, q.proto, e, a, b)
    BY <2>2, <2>3, Zenon
  <2>5. q2 = Pkt(q.src, q.dst, q.proto, e, a, b)
    BY <2>4, Zenon DEF a, b
  <2> HIDE DEF q2
  <2>6. QED
    BY <2>1, <2>5 DEF Pkt, MacIs
<1>7. IsPacket(w, m, h, pad)
  BY <1>1, <1>2, <1>5 DEF IsPacket
<1>8. Accepted(w, q.proto)
  <2>1. CASE q.proto = 6
    <3>1. Verifies(Pseudo(q.src, q.dst, Len(p)) \o p)
      BY <1>1, <2>1 DEF Covered
    <3>2. Pseudo(q.src, q.dst, Len(p)) = SubSeq(w, 13, 20) \o <<0, 6>> \o Digits(Len(p))
      BY <1>5, Zenon DEF Pseudo
    <3> HIDE DEF p, w
    <3>3. Verifies(SubSeq(w, 13, 20) \o <<0, 6>> \o Digits(Len(Rest(w, 20))) \o Rest(w, 20))
      BY <1>5, <3>1, <3>2, Zenon
    <3>4. QED
      BY <1>5, <2>1, <3>3, Zenon DEF Accepted
  <2>2. CASE q.proto # 6
    <3>1. Verifies(p)
      BY <1>1, <2>2, Zenon DEF Covered
    <3> HIDE DEF p, w
    <3>2. QED
      BY <1>5, <2>2, <3>1, Zenon DEF Accepted
  <2>3. QED
    BY <2>1, <2>2
<1> HIDE DEF q2
<1>9. PacketOut(r, q2, m, h, pad)
  BY <1>2, <1>6, <1>7, <1>8, Zenon DEF PacketOut, e
<1>10. QED
  BY <1>5, <1>9 DEF AtEth, r, q2

\* ethernetv2::process.
LEMMA EthStep ==
    ASSUME NEW s, NEW q, NEW m, NEW h, NEW pad \in BOOLEAN, AtEth(s, q, m, h, pad)
    PROVE  AtAir(put(push_front(s, EthSize), 0, ethernetv2_header(q)), q, m, h, pad)
<1> DEFINE x == ethernetv2_header(q)
           r == put(push_front(s, 14), 0, x)
           w == payload(s)
           f == x \o w
<1>1. Holds(s, 14) /\ (ArpOut(s, q, m, h) \/ PacketOut(s, q, m, h, pad))
  BY DEF AtEth
<1>2. w \in Seq(Byte)
  BY <1>1 DEF ArpOut, PacketOut, IsPacket
<1>3. Bytes(q.src_mac, 6) /\ Bytes(q.dst_mac, 6) /\ Bytes(q.ether, 2)
  <2>1. Bytes(<<8, 0>>, 2) /\ Bytes(<<8, 6>>, 2)
    BY Literals, Tuples
  <2>2. Bytes(q.src_mac, 6) /\ Bytes(q.dst_mac, 6) /\ (q.ether = <<8, 0>> \/ q.ether = <<8, 6>>)
    BY <1>1, Zenon DEF ArpOut, PacketOut, MacIs
  <2>3. QED
    BY <2>1, <2>2
<1>4. f \in Seq(Byte) /\ Len(f) = 14 + Len(w) /\ Has(f, 12, q.ether) /\ Rest(f, 14) = w
  BY <1>2, <1>3, FrameIs
<1>5. Bytes(x, 14)
  BY <1>3, EthernetHeaderIs
<1> HIDE DEF x
<1>6. Holds(r, 0) /\ payload(r) = f
  <2>1. x \in Seq(Cell) /\ 14 = Len(x) /\ 14 <= 14 /\ 14 - 14 = 0
    BY <1>5, BytesAreCells DEF Bytes
  <2>2. Holds(r, 14 - 14) /\ payload(r) = x \o payload(s)
    BY <1>1, <2>1, Prepend
  <2>3. QED
    BY <2>1, <2>2
<1>7. EthSize = 14
  BY Sizes
<1>8. Len(w) \in Nat /\ 14 <= Len(f)
  BY <1>2, <1>4
<1> HIDE DEF r, f, w
<1>9. CASE ArpOut(s, q, m, h)
  <2>1. MeantArp(m) /\ q.ether = <<8, 6>> /\ IsArp(w, h)
    BY <1>9 DEF ArpOut, MacIs, w
  <2>2. IsFrame(f, m, h, pad)
    BY <1>4, <1>8, <2>1, Zenon DEF IsFrame
  <2>3. AtAir(r, q, m, h, pad)
    BY <1>6, <2>1, <2>2, Zenon DEF AtAir
  <2>4. QED
    BY <1>7, <2>3 DEF r, x
<1>10. CASE PacketOut(s, q, m, h, pad)
  <2>1. q.ether = <<8, 0>> /\ IsPacket(w, m, h, pad) /\ Accepted(w, q.proto)
    BY <1>10 DEF PacketOut, MacIs, w
  <2>2. IsFrame(f, m, h, pad)
    BY <1>4, <1>8, <2>1, Zenon DEF IsFrame
  <2>3. AtAir(r, q, m, h, pad)
    BY <1>4, <1>6, <2>1, <2>2, Zenon DEF AtAir
  <2>4. QED
    BY <1>7, <2>3 DEF r, x
<1>11. QED
  BY <1>1, <1>9, <1>10

\* device::async_receive of the other host.
LEMMA ReceiveStep ==
    ASSUME NEW s, NEW q, NEW m, NEW h \in Host, NEW pad \in BOOLEAN, AtAir(s, q, m, h, pad), NEW n \in Pads,
           NEW read, read = Read(payload(s), n)
    PROVE  AtEthIn([mem |-> read, head |-> 0, tail |-> Len(read), ok |-> TRUE], Fit(m), Other(h), pad \/ n > 0)
<1> DEFINE f == payload(s)
           g == f \o [i \in 1 .. n |-> 0]
           r == [mem |-> read, head |-> 0, tail |-> Len(read), ok |-> TRUE]
           more == pad \/ n > 0
<1>1. Holds(s, 0) /\ IsFrame(f, m, h, pad)
  BY DEF AtAir
<1>2. f \in Seq(Byte)
  BY <1>1 DEF IsFrame
<1>4. n \in Nat
  BY FrameConstants
<1>3. read = Truncated(g, RxBuffer)
  BY DEF Read
<1>5. Grows(f, g) /\ (n = 0 => Len(g) = Len(f))
  BY <1>2, <1>4, PadIs
<1> HIDE DEF f, g
<1>6. read \in Seq(Byte) /\ Len(read) <= RxBuffer /\ RxBuffer \in Nat /\ RxBuffer <= Max16 /\ Max16 \in Nat
  <2>1. g \in Seq(Byte) /\ RxBuffer \in Nat /\ RxBuffer <= Max16 /\ Max16 \in Nat
    BY <1>5, GrowsIs, Sizes
  <2>2. QED
    BY <1>3, <2>1, TruncatedIs
<1>7. more \in BOOLEAN /\ (~more => ~pad /\ Len(g) = Len(f))
  BY <1>4, <1>5
<1> HIDE DEF more
<1>15. IsFrame(g, m, h, more)
  BY <1>1, <1>5, <1>7, GrowsFrame
<1>8. IsFrame(read, Fit(m), h, more)
  BY <1>3, <1>15, CutFrame
<1>9. read \in Seq(Cell) /\ Len(read) \in Nat
  BY <1>6, BytesAreCells
<1>10. Holds(r, 0)
  <2>1. r.mem = read /\ r.head = 0 /\ r.tail = Len(read) /\ r.ok = TRUE
    OBVIOUS
  <2>2. r \in Skb
    BY <1>9 DEF Skb
  <2> HIDE DEF r
  <2>3. Len(read) <= Max16
    BY <1>6, <1>9
  <2>4. QED
    BY <1>9, <2>1, <2>2, <2>3 DEF Holds
<1>11. payload(r) = read
  <2>1. r.mem = read /\ r.head = 0 /\ r.tail = Len(read) /\ 0 + 1 = 1
    OBVIOUS
  <2> HIDE DEF r
  <2>2. payload(r) = SubSeq(read, 1, Len(read))
    BY <2>1 DEF payload
  <2>3. QED
    BY <1>6, <2>2
<1>12. Other(Other(h)) = h
  BY OtherIs
<1> HIDE DEF r
<1>13. AtEthIn(r, Fit(m), Other(h), more)
  BY <1>8, <1>10, <1>11, <1>12 DEF AtEthIn
<1>14. QED
  BY <1>13 DEF r, more

\* ethernetv2::make_packet.
LEMMA EthInStep ==
    ASSUME NEW s, NEW m, NEW h, NEW pad \in BOOLEAN, AtEthIn(s, m, h, pad)
    PROVE  LET l == dispatch(eth_protos, consume_ethernetv2_header(s).ether)
               r == pop_front(s, EthSize)
           IN  \/ l = "arp_in" /\ AtArpIn(r, m, h)
               \/ l = "ipv4_in" /\ AtIpv4In(r, m, h, pad)
<1> DEFINE f == payload(s)
           r == pop_front(s, 14)
           w == Rest(f, 14)
           e == consume_ethernetv2_header(s).ether
           l == dispatch(eth_protos, e)
<1>1. Holds(s, 0) /\ IsFrame(f, m, Other(h), pad)
  BY DEF AtEthIn
<1>2. f \in Seq(Byte) /\ 14 <= Len(f)
  BY <1>1 DEF IsFrame
<1>3. Holds(r, 14) /\ payload(r) = w
  <2>1. 14 \in Nat /\ 0 + 14 = 14
    OBVIOUS
  <2>2. Holds(r, 0 + 14) /\ payload(r) = w
    BY <1>1, <1>2, <2>1, PopFront
  <2>3. QED
    BY <2>1, <2>2
<1>4. w \in Seq(Byte)
  BY <1>2, Split
<1>5. e = consume_from_net(bytes_at(s, 12, 2))
  BY DEF consume_ethernetv2_header
<1>6. EthSize = 14
  BY Sizes
<1>7. Bytes(<<8, 0>>, 2) /\ Bytes(<<8, 6>>, 2) /\ 12 \in Nat /\ 2 \in Nat
  BY Literals, Tuples
<1> HIDE DEF f, r, w, e
<1>8. CASE MeantArp(m) /\ Has(f, 12, <<8, 6>>) /\ IsArp(w, Other(h))
  <2>1. Reads(s, 12, 2, <<8, 6>>)
    BY <1>1, <1>2, <1>7, <1>8, FieldIs DEF f
  <2>2. e = <<8, 6>>
    BY <1>5, <2>1, Zenon DEF Reads
  <2>3. l = "arp_in"
    BY <2>2, DispatchIs, Zenon
  <2>4. AtArpIn(r, m, h)
    BY <1>3, <1>4, <1>8 DEF AtArpIn
  <2>5. QED
    BY <1>6, <2>3, <2>4 DEF e, r
<1>9. CASE Has(f, 12, <<8, 0>>) /\ IsPacket(w, m, Other(h), pad)
  <2>1. Reads(s, 12, 2, <<8, 0>>)
    BY <1>1, <1>2, <1>7, <1>9, FieldIs DEF f
  <2>2. e = <<8, 0>>
    BY <1>5, <2>1, Zenon DEF Reads
  <2>3. l = "ipv4_in"
    BY <2>2, DispatchIs, Zenon
  <2>4. AtIpv4In(r, m, h, pad)
    BY <1>3, <1>9 DEF AtIpv4In
  <2>5. QED
    BY <1>6, <2>3, <2>4 DEF e, r
<1>10. QED
  BY <1>1, <1>8, <1>9 DEF IsFrame, w

\* The k bytes at off of a buffer are in its payload.
Inside(s, off, k) == off \in Nat /\ k \in Nat /\ off + k <= Len(payload(s))
Slice(s, off, k) ==
    /\ Bytes(consume_from_net(bytes_at(s, off, k)), k)
    /\ \A i \in 1 .. k : bytes_at(s, off, k)[i] = payload(s)[off + i]

\* They are bytes of it.
LEMMA SliceIs ==
    ASSUME NEW s, NEW h, Holds(s, h), payload(s) \in Seq(Byte), NEW off, NEW k, Inside(s, off, k)
    PROVE  Slice(s, off, k)
<1> DEFINE p == payload(s)
           b == bytes_at(s, off, k)
<1>1. off \in Nat /\ k \in Nat /\ off + k <= Len(p)
  BY DEF Inside
<1>2. b = SubSeq(p, off + 1, off + k)
  BY <1>1, BytesAt
<1>3. b \in Seq(Byte) /\ Len(b) = k /\ Has(p, off, b)
  <2> DEFINE c == SubSeq(p, off + 1, off + k)
  <2>1. p \in Seq(Byte)
    OBVIOUS
  <2> HIDE DEF p
  <2>2. c \in Seq(Byte) /\ Len(c) = k /\ Has(p, off, c)
    BY <1>1, <2>1, HasCut
  <2> HIDE DEF b, c
  <2>3. b = c
    BY <1>2 DEF c
  <2>4. QED
    BY <2>2, <2>3
<1> HIDE DEF b, p
<1>4. consume_from_net(b) = b
  BY <1>3, Converted
<1>5. QED
  BY <1>3, <1>4 DEF Slice, Has, Bytes, b, p

\* The fields that ipv4 takes out of a packet.
LEMMA Ipv4Read ==
    ASSUME NEW s, Holds(s, 14), payload(s) \in Seq(Byte), 20 <= Len(payload(s)), NEW proto,
           payload(s)[1] = 69, payload(s)[10] = proto
    PROVE  LET x == consume_ipv4_header(s)
           IN  x.version = 4 /\ x.proto = proto /\ Bytes(x.src, 4) /\ Bytes(x.dst, 4)
<1> DEFINE p == payload(s)
           x == consume_ipv4_header(s)
           b1 == bytes_at(s, 0, 1)
           b2 == bytes_at(s, 9, 1)
           b3 == bytes_at(s, 12, 4)
           b4 == bytes_at(s, 16, 4)
<1>1. x = [version |-> b1[1] \div 16, proto |-> b2[1], src |-> consume_from_net(b3), dst |-> consume_from_net(b4)]
  BY DEF consume_ipv4_header
<1>2. Inside(s, 0, 1) /\ Inside(s, 9, 1) /\ Inside(s, 12, 4) /\ Inside(s, 16, 4)
  BY DEF Inside
<1>3. Slice(s, 0, 1) /\ Slice(s, 9, 1) /\ Slice(s, 12, 4) /\ Slice(s, 16, 4)
  BY <1>2, SliceIs
<1>4. b1[1] = p[0 + 1] /\ b2[1] = p[9 + 1]
  <2>1. 1 \in 1 .. 1
    OBVIOUS
  <2>2. QED
    BY <1>3, <2>1 DEF Slice
<1>6. Bytes(consume_from_net(b3), 4) /\ Bytes(consume_from_net(b4), 4)
  BY <1>3 DEF Slice
<1> HIDE DEF x, b1, b2, b3, b4
<1>7. 69 \div 16 = 4
  OBVIOUS
<1>8. p[0 + 1] = 69 /\ p[9 + 1] = proto
  OBVIOUS
<1>9. QED
  BY <1>1, <1>4, <1>6, <1>7, <1>8 DEF x

\* ipv4::make_packet.
LEMMA Ipv4InStep ==
    ASSUME NEW s, NEW q, NEW m, NEW h, NEW pad \in BOOLEAN, AtIpv4In(s, m, h, pad)
    PROVE  LET x == consume_ipv4_header(s)
               l == dispatch(ipv4_protos, x.proto)
               r == pop_front(check(s, Len(payload(s)) >= Ipv4Size), Ipv4Size)
               t == [src |-> x.src, dst |-> x.dst, proto |-> x.proto, ether |-> q.ether,
                     src_mac |-> q.src_mac, dst_mac |-> q.dst_mac]
           IN  /\ x.version = 4
               /\ \/ l = "tcp_in" /\ AtTcp(r, t, m, pad)
                  \/ l = "icmp_in" /\ AtIcmpIn(r, t, m, h)
<1> DEFINE x == consume_ipv4_header(s)
           l == dispatch(ipv4_protos, x.proto)
           r == pop_front(s, 20)
           w == payload(s)
           p == Rest(w, 20)
           t == [src |-> x.src, dst |-> x.dst, proto |-> x.proto, ether |-> q.ether,
                 src_mac |-> q.src_mac, dst_mac |-> q.dst_mac]
<1>1. Holds(s, 14) /\ IsPacket(w, m, Other(h), pad)
  BY DEF AtIpv4In
<1>2. /\ w \in Seq(Byte) /\ 20 <= Len(w) /\ w[1] = 69 /\ w[10] = ProtoOf(m)
      /\ IsMessage(p, m, Other(h), pad)
  BY <1>1 DEF IsPacket
<1>3. x.version = 4 /\ x.proto = ProtoOf(m) /\ Bytes(x.src, 4) /\ Bytes(x.dst, 4)
  BY <1>1, <1>2, Ipv4Read
<1>4. Holds(r, 34) /\ payload(r) = p
  <2>1. 20 \in Nat /\ 14 + 20 = 34
    OBVIOUS
  <2>2. Holds(r, 14 + 20) /\ payload(r) = p
    BY <1>1, <1>2, <2>1, PopFront
  <2>3. QED
    BY <2>1, <2>2
<1>5. r = pop_front(check(s, Len(w) >= Ipv4Size), Ipv4Size)
  <2>1. Ipv4Size = 20
    BY Sizes
  <2>2. s \in Skb /\ s.ok = TRUE
    BY <1>1 DEF Holds
  <2>3. Len(w) \in Nat /\ Len(w) >= 20
    BY <1>2
  <2>4. check(s, Len(w) >= 20) = s
    BY <2>2, <2>3, CheckHolds
  <2>5. QED
    BY <2>1, <2>4, Zenon
<1> HIDE DEF x, r, p, w
<1>6. t.src = x.src /\ t.dst = x.dst /\ t.proto = x.proto /\ t.ether = q.ether /\ t.src_mac = q.src_mac /\ t.dst_mac = q.dst_mac
  OBVIOUS
<1>7. IpIs(t, ProtoOf(m))
  BY <1>3, <1>6 DEF IpIs
<1> HIDE DEF t
<1>8. p \in Seq(Byte)
  BY <1>2 DEF IsMessage
<1>9. CASE MeantTcp(m) /\ IsSegment(p, m, pad)
  <2>1. ProtoOf(m) = 6
    BY <1>9, KindIs
  <2>2. l = "tcp_in"
    BY <1>3, <2>1, DispatchIs, Zenon
  <2>3. AtTcp(r, t, m, pad)
    BY <1>4, <1>7, <1>8, <1>9, <2>1 DEF AtTcp
  <2>4. QED
    BY <1>3, <1>5, <2>2, <2>3 DEF x, t, w
<1>10. CASE MeantEcho(m) /\ IsEcho(p, m, EchoType(Other(h)))
  <2>1. ProtoOf(m) = 1
    BY <1>10, KindIs
  <2>2. l = "icmp_in"
    BY <1>3, <2>1, DispatchIs, Zenon
  <2>3. AtIcmpIn(r, t, m, h)
    BY <1>4, <1>7, <1>8, <1>10, <2>1 DEF AtIcmpIn
  <2>4. QED
    BY <1>3, <1>5, <2>2, <2>3 DEF x, t, w
<1>11. QED
  BY <1>2, <1>9, <1>10 DEF IsMessage

\* tcb_t::process.
LEMMA TcbStep ==
    ASSUME NEW s, NEW q, NEW m, NEW h, NEW pad \in BOOLEAN, AtTcp(s, q, m, pad)
    PROVE  AtEnd(Segment(s).skb, m, Segment(s).what, h, pad)
<1>1. Holds(s, 34) /\ MeantTcp(m) /\ payload(s) \in Seq(Byte) /\ IsSegment(payload(s), m, pad)
  BY DEF AtTcp
<1>2. (\E k : Holds(Segment(s).skb, k)) /\ (~pad => Segment(s).what = m)
  BY <1>1, SegmentIs
<1>3. QED
  BY <1>1, <1>2 DEF AtEnd

\* The addresses of a packet that is sent back.
LEMMA EndsIs ==
    ASSUME NEW q, NEW proto, IpIs(q, proto)
    PROVE  IpIs(Ends(q, q.dst, q.src), proto)
<1> DEFINE t == Ends(q, q.dst, q.src)
<1>1. q = Pkt(q.src, q.dst, q.proto, q.ether, q.src_mac, q.dst_mac)
  BY DEF IpIs, Pkt
<1>2. Ends(Pkt(q.src, q.dst, q.proto, q.ether, q.src_mac, q.dst_mac), q.dst, q.src)
        = Pkt(q.dst, q.src, q.proto, q.ether, q.src_mac, q.dst_mac)
  BY EndsSet, SMT
<1>3. t = Pkt(q.dst, q.src, q.proto, q.ether, q.src_mac, q.dst_mac)
  BY <1>1, <1>2, Zenon
<1>4. Bytes(q.src, 4) /\ Bytes(q.dst, 4) /\ q.proto = proto
  BY DEF IpIs
<1> HIDE DEF t
<1>5. /\ t.src = q.dst /\ t.dst = q.src /\ t.proto = proto /\ t.ether = q.ether
      /\ t.src_mac = q.src_mac /\ t.dst_mac = q.dst_mac
  BY <1>3, <1>4 DEF Pkt
<1>6. t = [src |-> t.src, dst |-> t.dst, proto |-> t.proto, ether |-> t.ether,
           src_mac |-> t.src_mac, dst_mac |-> t.dst_mac]
  BY <1>3 DEF Pkt
<1>7. IpIs(t, proto)
  BY <1>4, <1>5, <1>6 DEF IpIs
<1>8. QED
  BY <1>7 DEF t

\* A raw socket writes a segment back.
LEMMA RawStep ==
    ASSUME NEW s, NEW q, NEW m, NEW pad \in BOOLEAN, AtTcp(s, q, m, pad)
    PROVE  AtTcp(s, Ends(q, q.dst, q.src), m, pad)
  BY EndsIs DEF AtTcp

\* icmp::process.
LEMMA IcmpStep ==
    ASSUME NEW s, NEW q, NEW m, NEW h \in Host, NEW pad \in BOOLEAN, AtIcmpIn(s, q, m, h)
    PROVE  LET x == consume_icmp_header(s)
               t == pop_front(check(s, Len(payload(s)) >= IcmpSize), IcmpSize)
           IN  IF x.type = <<8>>
               THEN AtIpv4(icmp_reply(t, x.id, x.seq), Ends(q, q.dst, q.src), m, h, pad)
               ELSE AtEnd(t, m, [kind |-> "icmp", type |-> x.type, id |-> x.id, seq |-> x.seq, data |-> payload(t)],
                          h, pad)
<1> DEFINE x == consume_icmp_header(s)
           t == pop_front(check(s, Len(payload(s)) >= IcmpSize), IcmpSize)
           d == payload(t)
           o == Other(h)
           i == m.id
           j == m.seq
<1>1. /\ Holds(s, 34) /\ IpIs(q, 1) /\ MeantEcho(m) /\ payload(s) \in Seq(Byte)
      /\ IsEcho(payload(s), m, EchoType(o))
  BY DEF AtIcmpIn
<1>2. /\ x = [type |-> <<EchoType(o)>>, id |-> i, seq |-> j]
      /\ Bytes(i, 2) /\ Bytes(j, 2) /\ m.data \in Seq(Byte)
      /\ Holds(t, 42) /\ d \in Seq(Byte) /\ Has(d, 0, m.data)
  BY <1>1, EchoRead
<1> HIDE DEF x, t, i, j
<1>3. x.type = <<EchoType(o)>> /\ x.id = i /\ x.seq = j
  BY <1>2
<1>4. ProtoOf(m) = 1 /\ m.kind = "icmp"
  BY <1>1, KindIs
<1>5. CASE h = "b"
  <2>1. EchoType(o) = 8 /\ EchoType(h) = 0
    BY <1>5 DEF EchoType, Other
  <2>2. x.type = <<8>>
    BY <1>3, <2>1
  <2> DEFINE r == icmp_reply(t, x.id, x.seq)
             w == payload(r)
             u == Ends(q, q.dst, q.src)
  <2>3. /\ Holds(r, 34) /\ w \in Seq(Byte) /\ Verifies(w)
        /\ Has(w, 0, <<0>>) /\ Has(w, 4, i) /\ Has(w, 6, j)
        /\ Len(w) = 8 + Len(d) /\ \A n \in 1 .. Len(d) : w[8 + n] = d[n]
    BY <1>2, <1>3, EchoReply
  <2> HIDE DEF r, d
  <2>4. Has(w, 8, m.data)
    <3>1. 0 + Len(m.data) <= Len(d) /\ \A n \in 1 .. Len(m.data) : d[0 + n] = m.data[n]
      BY <1>2 DEF Has
    <3>2. Len(m.data) \in Nat /\ Len(d) \in Nat
      BY <1>2
    <3>3. ASSUME NEW n \in 1 .. Len(m.data) PROVE w[8 + n] = m.data[n]
      <4>1. n \in 1 .. Len(d) /\ 0 + n = n
        BY <3>1, <3>2
      <4>2. w[8 + n] = d[n] /\ d[0 + n] = m.data[n]
        BY <2>3, <3>1, <4>1
      <4>3. QED
        BY <4>1, <4>2
    <3>4. 8 + Len(m.data) <= Len(w)
      BY <2>3, <3>1, <3>2
    <3>5. QED
      BY <3>3, <3>4 DEF Has
  <2>5. IsMessage(w, m, h, pad)
    <3>1. IsEcho(w, m, 0)
      BY <2>3, <2>4, Zenon DEF IsEcho, i, j
    <3>2. QED
      BY <1>1, <2>1, <2>3, <3>1 DEF IsMessage
  <2>6. IpIs(u, 1)
    BY <1>1, EndsIs
  <2> HIDE DEF u, w
  <2>7. Covered(u, w)
    <3>1. u.proto = 1 /\ 1 # 6
      BY <2>6 DEF IpIs
    <3>2. QED
      BY <2>3, <3>1 DEF Covered
  <2>8. AtIpv4(r, u, m, h, pad)
    BY <1>4, <1>5, <2>3, <2>5, <2>6, <2>7 DEF AtIpv4, w
  <2>9. QED
    BY <2>2, <2>8 DEF r, u, x, t
<1>6. CASE h = "a"
  <2>1. EchoType(o) = 0
    BY <1>6 DEF EchoType, Other
  <2>2. x.type = <<0>> /\ <<0>> # <<8>>
    BY <1>3, <2>1
  <2> DEFINE g == [kind |-> "icmp", type |-> x.type, id |-> x.id, seq |-> x.seq, data |-> d]
  <2>3. g = [kind |-> "icmp", type |-> <<0>>, id |-> m.id, seq |-> m.seq, data |-> g.data] /\ g.data = d
    BY <1>3, <2>2 DEF i, j
  <2>4. g # <<>>
    <3>1. g.kind = "icmp" /\ "kind" \in DOMAIN g
      OBVIOUS
    <3>2. DOMAIN <<>> = {}
      OBVIOUS
    <3>3. QED
      BY <3>1, <3>2
  <2>5. IsPrefix(m.data, d)
    <3>1. Len(m.data) \in Nat /\ Len(d) \in Nat
      BY <1>2
    <3>2. 0 + Len(m.data) <= Len(d) /\ \A n \in 1 .. Len(m.data) : d[0 + n] = m.data[n]
      BY <1>2 DEF Has
    <3>3. \A n \in 1 .. Len(m.data) : m.data[n] = d[n]
      BY <3>1, <3>2
    <3>4. QED
      BY <1>2, <3>1, <3>2, <3>3 DEF IsPrefix
  <2> HIDE DEF g
  <2>6. EchoUnderstood(g, m)
    BY <2>3, <2>4, <2>5 DEF EchoUnderstood
  <2>7. AtEnd(t, m, g, h, pad)
    BY <1>1, <1>2, <1>6, <2>6 DEF AtEnd
  <2>8. QED
    BY <2>2, <2>7 DEF g, x, t
<1>7. QED
  BY <1>5, <1>6 DEF Host

\* arp::process: the request is answered, the answer is understood.
LEMMA ArpStep ==
    ASSUME NEW s, NEW m, NEW h \in Host, NEW pad \in BOOLEAN, AtArpIn(s, m, h)
    PROVE  LET x == consume_arpv4_header(s)
               cache == [ip \in {Ip[h], x.spa} |-> IF ip = Ip[h] THEN Mac[h] ELSE x.sha]
               t == pop_front(s, ArpSize)
               r == put(push_front(t, ArpSize), 0, arpv4_header(2, cache[x.tpa], x.tpa, x.sha, x.spa))
               q == [src_mac |-> cache[x.tpa], dst_mac |-> x.sha, ether |-> <<8, 6>>]
           IN  /\ x.htype = <<0, 1>> /\ x.ptype = <<8, 0>>
               /\ \/ x.oper = <<0, 1>> /\ x.tpa \in DOMAIN cache /\ AtEth(r, q, m, h, pad)
                  \/ /\ x.oper = <<0, 2>> /\ x.oper # <<0, 1>>
                     /\ AtEnd(t, m, [kind |-> "arp", sha |-> x.sha, spa |-> x.spa], h, pad)
<1> DEFINE x == consume_arpv4_header(s)
           cache == [ip \in {Ip[h], x.spa} |-> IF ip = Ip[h] THEN Mac[h] ELSE x.sha]
           t == pop_front(s, 28)
           r == put(push_front(t, 28), 0, arpv4_header(2, cache[x.tpa], x.tpa, x.sha, x.spa))
           e == <<8, 6>>
           q == [src_mac |-> cache[x.tpa], dst_mac |-> x.sha, ether |-> e]
           p == payload(s)
           ma == Mac["a"]
           mb == Mac["b"]
           ia == Ip["a"]
           ib == Ip["b"]
           z == <<0, 0, 0, 0, 0, 0>>
<1>1. /\ Holds(s, 14) /\ MeantArp(m) /\ p \in Seq(Byte) /\ IsArp(p, Other(h))
  BY DEF AtArpIn
<1>2. Bytes(ma, 6) /\ Bytes(mb, 6) /\ Bytes(ia, 4) /\ Bytes(ib, 4) /\ Bytes(z, 6)
  <2>1. "a" \in Host /\ "b" \in Host
    BY DEF Host
  <2>2. Bytes(z, 6)
    BY Literals, Tuples
  <2>3. QED
    BY <2>1, <2>2, Addresses
<1>3. ArpSize = 28
  BY Sizes
<1> HIDE DEF z, e
<1>4. CASE h = "b"
  <2>1. ArpFields(p, 1, ma, ia, z, ib)
    BY <1>1, <1>4 DEF IsArp, Other, z
  <2> HIDE DEF ma, mb, ia, ib
  <2>2. /\ x = [htype |-> <<0, 1>>, ptype |-> <<8, 0>>, oper |-> <<0, 1>>, sha |-> ma, spa |-> ia, tpa |-> ib]
        /\ 28 <= Len(p)
    <3>1. 1 \in {1, 2}
      OBVIOUS
    <3>2. QED
      BY <1>1, <1>2, <2>1, <3>1, ArpRead
  <2> HIDE DEF x
  <2>3. x.htype = <<0, 1>> /\ x.ptype = <<8, 0>> /\ x.oper = <<0, 1>> /\ x.sha = ma /\ x.spa = ia /\ x.tpa = ib
    BY <2>2
  <2>4. cache = [ip \in {ib, ia} |-> IF ip = ib THEN mb ELSE ma]
    BY <1>4, <2>3 DEF ib, mb
  <2>5. ib \in DOMAIN cache /\ cache[ib] = mb
    BY <2>4, CacheIs
  <2> HIDE DEF cache
  <2> DEFINE y == arpv4_header(2, mb, ib, ma, ia)
  <2>6. Bytes(y, 28) /\ ArpFields(y, 2, mb, ib, ma, ia)
    <3>1. 2 \in {1, 2}
      OBVIOUS
    <3>2. QED
      BY <1>2, <3>1, ArpHeaderIs
  <2>7. r = put(push_front(pop_front(s, 28), 28), 0, y)
    BY <2>3, <2>5
  <2> HIDE DEF y, r
  <2>8. Holds(r, 14) /\ payload(r) \in Seq(Byte) /\ Within(y, payload(r))
    <3>1. 28 \in Nat
      OBVIOUS
    <3>2. LET u == put(push_front(pop_front(s, 28), 28), 0, y)
          IN  Holds(u, 14) /\ payload(u) \in Seq(Byte) /\ Within(y, payload(u))
      BY <1>1, <2>2, <2>6, <3>1, Rewritten
    <3>3. QED
      BY <2>7, <3>2
  <2>9. ArpFields(payload(r), 2, mb, ib, ma, ia)
    <3>1. 2 \in {1, 2}
      OBVIOUS
    <3>2. QED
      BY <1>2, <2>6, <2>8, <3>1, WithinArp
  <2>10. IsArp(payload(r), h)
    BY <1>4, <2>9 DEF IsArp, ma, mb, ia, ib
  <2>11. MacIs(q, e)
    <3>1. q.src_mac = mb /\ q.dst_mac = ma /\ q.ether = e
      BY <2>3, <2>5
    <3> HIDE DEF q
    <3>2. QED
      BY <1>2, <3>1 DEF MacIs
  <2> HIDE DEF q
  <2>12. AtEth(r, q, m, h, pad)
    BY <1>1, <2>8, <2>10, <2>11 DEF AtEth, ArpOut, e
  <2>13. x.tpa \in DOMAIN cache
    BY <2>3, <2>5
  <2>14. QED
    BY <1>3, <2>3, <2>12, <2>13, Zenon DEF r, t, q, cache, x, e
<1>5. CASE h = "a"
  <2>1. ArpFields(p, 2, mb, ib, ma, ia)
    BY <1>1, <1>5 DEF IsArp, Other
  <2> HIDE DEF ma, mb, ia, ib
  <2>2. /\ x = [htype |-> <<0, 1>>, ptype |-> <<8, 0>>, oper |-> <<0, 2>>, sha |-> mb, spa |-> ib, tpa |-> ia]
        /\ 28 <= Len(p)
    <3>1. 2 \in {1, 2}
      OBVIOUS
    <3>2. QED
      BY <1>1, <1>2, <2>1, <3>1, ArpRead
  <2> HIDE DEF x
  <2>3. x.htype = <<0, 1>> /\ x.ptype = <<8, 0>> /\ x.oper = <<0, 2>> /\ x.sha = mb /\ x.spa = ib /\ x.tpa = ia
    BY <2>2
  <2>4. <<0, 2>> # <<0, 1>>
    OBVIOUS
  <2>5. Holds(t, 14 + 28)
    <3>1. 28 \in Nat
      OBVIOUS
    <3>2. QED
      BY <1>1, <2>2, <3>1, PopFront
  <2> DEFINE g == [kind |-> "arp", sha |-> x.sha, spa |-> x.spa]
  <2>6. g = m
    BY <1>1, <2>3 DEF MeantArp, mb, ib
  <2>7. g # <<>>
    <3>1. "kind" \in DOMAIN g
      OBVIOUS
    <3>2. DOMAIN <<>> = {}
      OBVIOUS
    <3>3. QED
      BY <3>1, <3>2
  <2> HIDE DEF g, t
  <2>8. AtEnd(t, m, g, h, pad)
    BY <1>1, <1>5, <2>5, <2>6, <2>7 DEF AtEnd
  <2>9. QED
    BY <1>3, <2>3, <2>4, <2>8, Zenon DEF g, x, t
<1>6. QED
  BY <1>4, <1>5 DEF Host

-----------------------------------------------------------------------------
(* The invariant *)

\* Whatever layer the packet is at, buffer and fields hold what it needs to tell m.
LayoutOf(m) ==
    /\ host \in Host /\ at \in Layer /\ padded \in BOOLEAN
    /\ at = "tcp" => AtTcp(skb, pkt, m, padded)
    /\ at = "ipv4" => AtIpv4(skb, pkt, m, host, padded)
    /\ at = "eth" => AtEth(skb, pkt, m, host, padded)
    /\ at = "air" => AtAir(skb, pkt, m, host, padded)
    /\ at = "eth_in" => AtEthIn(skb, m, host, padded)
    /\ at = "ipv4_in" => AtIpv4In(skb, m, host, padded)
    /\ at = "arp_in" => AtArpIn(skb, m, host)
    /\ at = "tcp_in" => AtTcp(skb, pkt, m, padded)
    /\ at = "icmp_in" => AtIcmpIn(skb, pkt, m, host)
    /\ at = "end" => AtEnd(skb, m, got, host, padded)

\* That is what was to be told until a device reads the frame, then what it has
\* room for.
Told(m) == MeantTcp(m) \/ MeantEcho(m) \/ MeantArp(m)
Down == {"tcp", "ipv4", "eth", "air"}
Carried(m) == Told(meant) /\ (m = Fit(meant) \/ (m = meant /\ host = "a" /\ at \in Down))

Layout == \E m : Carried(m) /\ LayoutOf(m)

\* What fits is not cut off again.
LEMMA FitAgain ==
    ASSUME NEW m, Told(m)
    PROVE  Fit(Fit(m)) = Fit(m)
<1>1. CASE MeantTcp(m)
  BY <1>1, FitTcp
<1>2. CASE MeantEcho(m)
  BY <1>2, FitEcho
<1>3. CASE MeantArp(m)
  <2>1. Fit(m) = m
    BY <1>3, KindIs DEF Fit
  <2>2. QED
    BY <2>1
<1>4. QED
  BY <1>1, <1>2, <1>3 DEF Told

\* What each layer holds is one of the things to be told.
LEMMA IsTold ==
    ASSUME NEW s, NEW q, NEW m, NEW h, NEW pad
    PROVE  /\ AtTcp(s, q, m, pad) => Told(m)
           /\ ArpOut(s, q, m, h) => Told(m)
           /\ IsFrame(payload(s), m, h, pad) => Told(m)
<1>1. AtTcp(s, q, m, pad) => Told(m)
  BY DEF AtTcp, Told
<1>2. ArpOut(s, q, m, h) => Told(m)
  BY DEF ArpOut, Told
<1>3. IsFrame(payload(s), m, h, pad) => Told(m)
  BY DEF IsFrame, IsPacket, IsMessage, Told
<1>4. QED
  BY <1>1, <1>2, <1>3

\* It holds in the beginning.
LEMMA LayoutInit == Init => Layout
<1> SUFFICES ASSUME Init PROVE Layout
  OBVIOUS
<1>1. host = "a" /\ padded = FALSE /\ host \in Host
  BY DEF Init, Host
<1>8. ASSUME Told(meant), at \in Down, LayoutOf(meant) PROVE Layout
  <2>1. Carried(meant)
    BY <1>1, <1>8 DEF Carried
  <2>2. QED
    BY <1>8, <2>1 DEF Layout
<1>2. CASE MakePacket \/ StartConnecting
  <2>1. at = "tcp" /\ AtTcp(skb, pkt, meant, FALSE)
    BY <1>2, MakePacketOut, StartConnectingOut
  <2>2. Told(meant)
    BY <2>1, IsTold
  <2>3. LayoutOf(meant) /\ at \in Down
    BY <1>1, <2>1 DEF LayoutOf, Layer, Down
  <2>4. QED
    BY <1>8, <2>2, <2>3
<1>4. CASE ArpRequest
  <2>1. at = "eth" /\ AtEth(skb, pkt, meant, "a", FALSE)
    BY <1>4, ArpRequestOut
  <2>2. Told(meant)
    BY <1>4 DEF ArpRequest, Told, MeantArp
  <2>3. LayoutOf(meant) /\ at \in Down
    BY <1>1, <2>1 DEF LayoutOf, Layer, Down
  <2>4. QED
    BY <1>8, <2>2, <2>3
<1>5. CASE ForeignSyn \/ ForeignEcho
  <2>1. at = "air" /\ AtAir(skb, pkt, meant, "a", FALSE)
    BY <1>5, ForeignSynOut, ForeignEchoOut
  <2>2. Told(meant)
    BY <2>1, IsTold DEF AtAir
  <2>3. LayoutOf(meant) /\ at \in Down
    BY <1>1, <2>1 DEF LayoutOf, Layer, Down
  <2>4. QED
    BY <1>8, <2>2, <2>3
<1>7. QED
  BY <1>2, <1>4, <1>5 DEF Init

\* A step that is not the reading of a frame keeps the layout.
LEMMA LayoutStep ==
    ASSUME NEW m, LayoutOf(m), [Next]_vars, ~async_receive
    PROVE  LayoutOf(m)'
<1>1. host \in Host /\ padded \in BOOLEAN
  BY DEF LayoutOf
<1>2. CASE tcp_process
  <2>1. at = "tcp" /\ Hand("ipv4", with_tcp_checksum(skb, pkt), pkt)
    BY <1>2 DEF tcp_process
  <2>2. /\ at' = "ipv4" /\ skb' = with_tcp_checksum(skb, pkt) /\ pkt' = pkt
        /\ host' = host /\ padded' = padded
    BY <2>1 DEF Hand
  <2>3. AtTcp(skb, pkt, m, padded)
    BY <2>1 DEF LayoutOf
  <2>4. AtIpv4(with_tcp_checksum(skb, pkt), pkt, m, host, padded)
    BY <1>1, <2>3, TcpStep
  <2>5. QED
    BY <1>1, <2>2, <2>4 DEF LayoutOf, Layer
<1>3. CASE ipv4_process
  <2>1. PICK id \in Idents : at = "ipv4" /\ Hand("eth", with_ipv4_header(skb, pkt, id), EtherMacs(pkt, <<8, 0>>, Mac[host], Mac[Other(host)]))
    BY <1>3 DEF ipv4_process, EtherMacs
  <2> DEFINE s == with_ipv4_header(skb, pkt, id)
             q == EtherMacs(pkt, <<8, 0>>, Mac[host], Mac[Other(host)])
  <2>2. /\ at' = "eth" /\ skb' = s /\ pkt' = q
        /\ host' = host /\ padded' = padded
    BY <2>1 DEF Hand
  <2>3. AtIpv4(skb, pkt, m, host, padded)
    BY <2>1 DEF LayoutOf
  <2>4. AtEth(s, q, m, host, padded)
    BY <1>1, <2>3, Ipv4Step
  <2> HIDE DEF s, q
  <2>5. QED
    BY <1>1, <2>2, <2>4 DEF LayoutOf, Layer
<1>4. CASE ethernetv2_process
  <2> DEFINE s == put(push_front(skb, EthSize), 0, ethernetv2_header(pkt))
  <2>1. at = "eth" /\ Hand("air", s, pkt)
    BY <1>4 DEF ethernetv2_process
  <2>2. /\ at' = "air" /\ skb' = s /\ pkt' = pkt
        /\ host' = host /\ padded' = padded
    BY <2>1 DEF Hand
  <2>3. AtEth(skb, pkt, m, host, padded)
    BY <2>1 DEF LayoutOf
  <2>4. AtAir(s, pkt, m, host, padded)
    BY <1>1, <2>3, EthStep
  <2> HIDE DEF s
  <2>5. QED
    BY <1>1, <2>2, <2>4 DEF LayoutOf, Layer
<1>6. CASE ethernetv2_make_packet
  <2> DEFINE l == dispatch(eth_protos, consume_ethernetv2_header(skb).ether)
             s == pop_front(skb, EthSize)
  <2>1. at = "eth_in" /\ Hand(l, s, consume_ethernetv2_header(skb))
    BY <1>6 DEF ethernetv2_make_packet
  <2>2. /\ at' = l /\ skb' = s /\ host' = host /\ padded' = padded
    BY <2>1 DEF Hand
  <2>3. AtEthIn(skb, m, host, padded)
    BY <2>1 DEF LayoutOf
  <2>4. \/ l = "arp_in" /\ AtArpIn(s, m, host)
        \/ l = "ipv4_in" /\ AtIpv4In(s, m, host, padded)
    BY <1>1, <2>3, EthInStep
  <2> HIDE DEF l, s
  <2>5. QED
    BY <1>1, <2>2, <2>4 DEF LayoutOf, Layer
<1>7. CASE ipv4_make_packet
  <2> DEFINE x == consume_ipv4_header(skb)
             l == dispatch(ipv4_protos, x.proto)
             s == pop_front(check(skb, Len(payload(skb)) >= Ipv4Size), Ipv4Size)
             q == [src |-> x.src, dst |-> x.dst, proto |-> x.proto, ether |-> pkt.ether,
                   src_mac |-> pkt.src_mac, dst_mac |-> pkt.dst_mac]
  <2>1. at = "ipv4_in"
    BY <1>7 DEF ipv4_make_packet
  <2>2. AtIpv4In(skb, m, host, padded)
    BY <2>1 DEF LayoutOf
  <2>3. /\ x.version = 4
        /\ \/ l = "tcp_in" /\ AtTcp(s, q, m, padded)
           \/ l = "icmp_in" /\ AtIcmpIn(s, q, m, host)
    BY <1>1, <2>2, Ipv4InStep
  <2>4. Hand(l, s, q)
    BY <1>7, <2>3 DEF ipv4_make_packet
  <2> HIDE DEF l, s, q, x
  <2>5. /\ at' = l /\ skb' = s /\ pkt' = q /\ host' = host /\ padded' = padded
    BY <2>4 DEF Hand
  <2>6. QED
    BY <1>1, <2>3, <2>5 DEF LayoutOf, Layer
<1>8. CASE tcb_process
  <2> DEFINE s == Segment(skb).skb
             g == Segment(skb).what
  <2>1. at = "tcp_in" /\ Understood(g, s)
    BY <1>8 DEF tcb_process
  <2>2. /\ at' = "end" /\ skb' = s /\ got' = g /\ host' = host /\ padded' = padded
    BY <2>1 DEF Understood
  <2>3. AtTcp(skb, pkt, m, padded)
    BY <2>1 DEF LayoutOf
  <2>4. AtEnd(s, m, g, host, padded)
    BY <1>1, <2>3, TcbStep
  <2> HIDE DEF s, g
  <2>5. QED
    BY <1>1, <2>2, <2>4 DEF LayoutOf, Layer
<1>9. CASE raw_write
  <2> DEFINE q == Ends(pkt, pkt.dst, pkt.src)
  <2>1. at = "tcp_in" /\ Hand("tcp", skb, q)
    BY <1>9 DEF raw_write, Ends
  <2>2. /\ at' = "tcp" /\ skb' = skb /\ pkt' = q
        /\ host' = host /\ padded' = padded
    BY <2>1 DEF Hand
  <2>3. AtTcp(skb, pkt, m, padded)
    BY <2>1 DEF LayoutOf
  <2>4. AtTcp(skb, q, m, padded)
    BY <1>1, <2>3, RawStep
  <2> HIDE DEF q
  <2>5. QED
    BY <1>1, <2>2, <2>4 DEF LayoutOf, Layer
<1>10. CASE icmp_process
  <2> DEFINE x == consume_icmp_header(skb)
             t == pop_front(check(skb, Len(payload(skb)) >= IcmpSize), IcmpSize)
             s == icmp_reply(t, x.id, x.seq)
             q == Ends(pkt, pkt.dst, pkt.src)
             g == [kind |-> "icmp", type |-> x.type, id |-> x.id, seq |-> x.seq, data |-> payload(t)]
  <2>1. at = "icmp_in" /\ IF x.type = <<8>> THEN Hand("ipv4", s, q) ELSE Understood(g, t)
    BY <1>10 DEF icmp_process, Ends
  <2>2. AtIcmpIn(skb, pkt, m, host)
    BY <2>1 DEF LayoutOf
  <2>3. IF x.type = <<8>> THEN AtIpv4(s, q, m, host, padded) ELSE AtEnd(t, m, g, host, padded)
    BY <1>1, <2>2, IcmpStep
  <2> HIDE DEF s, q, g, t, x
  <2>4. CASE x.type = <<8>>
    <3>1. /\ at' = "ipv4" /\ skb' = s /\ pkt' = q
          /\ host' = host /\ padded' = padded
      BY <2>1, <2>4 DEF Hand
    <3>2. QED
      BY <1>1, <2>3, <2>4, <3>1 DEF LayoutOf, Layer
  <2>5. CASE x.type # <<8>>
    <3>1. /\ at' = "end" /\ skb' = t /\ got' = g /\ host' = host /\ padded' = padded
      BY <2>1, <2>5 DEF Understood
    <3>2. QED
      BY <1>1, <2>3, <2>5, <3>1 DEF LayoutOf, Layer
  <2>6. QED
    BY <2>4, <2>5
<1>11. CASE arp_process
  <2> DEFINE x == consume_arpv4_header(skb)
             cache == [ip \in {Ip[host], x.spa} |-> IF ip = Ip[host] THEN Mac[host] ELSE x.sha]
             t == pop_front(skb, ArpSize)
             r == put(push_front(t, ArpSize), 0, arpv4_header(2, cache[x.tpa], x.tpa, x.sha, x.spa))
             q == [src_mac |-> cache[x.tpa], dst_mac |-> x.sha, ether |-> <<8, 6>>]
             g == [kind |-> "arp", sha |-> x.sha, spa |-> x.spa]
  <2>1. at = "arp_in"
    BY <1>11 DEF arp_process
  <2>2. AtArpIn(skb, m, host)
    BY <2>1 DEF LayoutOf
  <2>3. /\ x.htype = <<0, 1>> /\ x.ptype = <<8, 0>>
        /\ \/ x.oper = <<0, 1>> /\ x.tpa \in DOMAIN cache /\ AtEth(r, q, m, host, padded)
           \/ x.oper = <<0, 2>> /\ x.oper # <<0, 1>> /\ AtEnd(t, m, g, host, padded)
    BY <1>1, <2>2, ArpStep
  <2>4. IF x.htype # <<0, 1>> \/ x.ptype # <<8, 0>> THEN Hand("end", t, pkt)
        ELSE CASE x.oper = <<0, 1>> /\ x.tpa \in DOMAIN cache -> Hand("eth", r, q)
               [] x.oper = <<0, 2>> -> Understood(g, t)
               [] OTHER -> Hand("end", t, pkt)
    BY <1>11, Zenon DEF arp_process
  <2> HIDE DEF x, cache, t, r, q, g
  <2>5. CASE x.oper = <<0, 1>> /\ x.tpa \in DOMAIN cache /\ AtEth(r, q, m, host, padded)
    <3>1. x.oper # <<0, 2>>
      BY <2>5
    <3>2. Hand("eth", r, q)
      BY <2>3, <2>4, <2>5, <3>1
    <3>3. /\ at' = "eth" /\ skb' = r /\ pkt' = q
          /\ host' = host /\ padded' = padded
      BY <3>2 DEF Hand
    <3>4. QED
      BY <1>1, <2>5, <3>3 DEF LayoutOf, Layer
  <2>6. CASE x.oper = <<0, 2>> /\ x.oper # <<0, 1>> /\ AtEnd(t, m, g, host, padded)
    <3>1. Understood(g, t)
      BY <2>3, <2>4, <2>6
    <3>2. /\ at' = "end" /\ skb' = t /\ got' = g /\ host' = host /\ padded' = padded
      BY <3>1 DEF Understood
    <3>3. QED
      BY <1>1, <2>6, <3>2 DEF LayoutOf, Layer
  <2>7. QED
    BY <2>3, <2>5, <2>6
<1>12. CASE UNCHANGED vars
  BY <1>12 DEF LayoutOf, vars
<1>13. QED
  BY <1>2, <1>3, <1>4, <1>6, <1>7, <1>8, <1>9, <1>10, <1>11, <1>12 DEF Next

\* Nor does the reading of a frame, but for what is cut off.
LEMMA LayoutReceive ==
    ASSUME NEW m, LayoutOf(m), NEW k, k = Fit(m), async_receive
    PROVE  LayoutOf(k)'
<1>1. host \in Host /\ padded \in BOOLEAN
  BY DEF LayoutOf
<1>2. PICK n \in Pads : \E read \in {Read(payload(skb), n)} :
            /\ at = "air" /\ host' = Other(host)
            /\ skb' = [mem |-> read, head |-> 0, tail |-> Len(read), ok |-> TRUE]
            /\ at' = "eth_in" /\ padded' = (padded \/ n > 0)
  BY Zenon DEF async_receive
<1>3. PICK read \in {Read(payload(skb), n)} :
            /\ at = "air" /\ host' = Other(host)
            /\ skb' = [mem |-> read, head |-> 0, tail |-> Len(read), ok |-> TRUE]
            /\ at' = "eth_in" /\ padded' = (padded \/ n > 0)
  BY <1>2
<1> DEFINE s == [mem |-> read, head |-> 0, tail |-> Len(read), ok |-> TRUE]
           more == padded \/ n > 0
<1>4. read = Read(payload(skb), n)
  BY <1>3
<1>5. AtAir(skb, pkt, m, host, padded)
  BY <1>3 DEF LayoutOf
<1>6. AtEthIn(s, k, Other(host), more)
  BY <1>1, <1>4, <1>5, ReceiveStep
<1>7. at' = "eth_in" /\ skb' = s /\ host' = Other(host) /\ padded' = more /\ more \in BOOLEAN
  BY <1>1, <1>3, Zenon
<1> HIDE DEF s, more
<1>8. Other(host) \in Host
  BY <1>1, OtherIs
<1>9. QED
  BY <1>6, <1>7, <1>8 DEF LayoutOf, Layer

\* What is carried changes with the reading of a frame only.
LEMMA CarriedStep ==
    ASSUME NEW m, Carried(m), [Next]_vars, ~async_receive
    PROVE  Carried(m)'
<1>1. meant' = meant
  BY DEF Next, vars, tcp_process, ipv4_process, ethernetv2_process, ethernetv2_make_packet, ipv4_make_packet,
         tcb_process, raw_write, icmp_process, arp_process, Hand, Understood
<1>2. ASSUME host = "a", at \in Down PROVE host' = "a" /\ at' \in Down
  <2>1. CASE tcp_process \/ ipv4_process \/ ethernetv2_process
    BY <1>2, <2>1 DEF tcp_process, ipv4_process, ethernetv2_process, Hand, Down
  <2>2. CASE UNCHANGED vars
    BY <1>2, <2>2 DEF vars
  <2>3. ASSUME ethernetv2_make_packet \/ ipv4_make_packet \/ tcb_process \/ raw_write \/ icmp_process \/ arp_process
        PROVE  at \notin Down
    BY <2>3 DEF ethernetv2_make_packet, ipv4_make_packet, tcb_process, raw_write, icmp_process, arp_process, Down
  <2>4. QED
    BY <1>2, <2>1, <2>2, <2>3 DEF Next
<1>3. Told(meant)' /\ Fit(meant)' = Fit(meant)
  BY <1>1 DEF Carried
<1>4. QED
  BY <1>1, <1>2, <1>3 DEF Carried

\* Every step keeps the layout.
LEMMA LayoutNext == Layout /\ [Next]_vars => Layout'
<1> SUFFICES ASSUME Layout, [Next]_vars PROVE Layout'
  OBVIOUS
<1>1. PICK m : Carried(m) /\ LayoutOf(m)
  BY DEF Layout
<1>2. CASE ~async_receive
  <2>1. Carried(m)' /\ LayoutOf(m)'
    BY <1>1, <1>2, CarriedStep, LayoutStep
  <2>2. QED
    BY <2>1 DEF Layout
<1>3. CASE async_receive
  <2>1. PICK k : k = Fit(m)
    OBVIOUS
  <2>2. LayoutOf(k)'
    BY <1>1, <1>3, <2>1, LayoutReceive
  <2>3. Told(meant) /\ k = Fit(meant)
    BY <1>1, <2>1, FitAgain DEF Carried
  <2>4. meant' = meant
    BY <1>3 DEF async_receive
  <2>5. Carried(k)'
    BY <2>3, <2>4 DEF Carried
  <2>6. QED
    BY <2>2, <2>5 DEF Layout
<1>4. QED
  BY <1>2, <1>3

-----------------------------------------------------------------------------
(* What it implies *)

\* Some headroom is left at every layer.
LEMMA LayoutHolds ==
    ASSUME Layout
    PROVE  \E k : Holds(skb, k)
<1>1. PICK m : LayoutOf(m)
  BY DEF Layout
<1>2. QED
  BY <1>1 DEF LayoutOf, Layer, AtTcp, AtIpv4, AtEth, AtAir, AtEthIn, AtIpv4In, AtArpIn, AtIcmpIn, AtEnd

\* The buffer is what it should be.
LEMMA LayoutBuffer ==
    ASSUME Layout
    PROVE  TypeOK /\ BufferSafe
<1>1. PICK k : Holds(skb, k)
  BY LayoutHolds
<1>2. /\ skb \in Skb /\ skb.ok = TRUE /\ skb.tail = Len(skb.mem)
  BY <1>1 DEF Holds
<1>3. skb.mem \in Seq(Byte \cup {Uninit}) /\ skb.head \in Int
  BY <1>2 DEF Skb, Cell
<1>4. host \in Host /\ at \in Layer /\ padded \in BOOLEAN
  BY DEF Layout, LayoutOf
<1>5. QED
  BY <1>2, <1>3, <1>4 DEF TypeOK, BufferSafe

\* A frame on the wire is made of bytes that were written.
LEMMA LayoutWire ==
    ASSUME Layout
    PROVE  WireInitialised
<1> SUFFICES ASSUME Sent PROVE skb.head = 0 /\ Range(skb.mem) \subseteq Byte
  BY DEF WireInitialised
<1>1. PICK m : AtAir(skb, pkt, m, host, padded)
  BY DEF Layout, LayoutOf, Sent
<1>2. Holds(skb, 0) /\ IsFrame(payload(skb), m, host, padded)
  BY <1>1 DEF AtAir
<1>3. payload(skb) \in Seq(Byte)
  BY <1>2 DEF IsFrame
<1>4. skb.head = 0 /\ skb.tail = Len(skb.mem) /\ skb.mem \in Seq(Cell)
  BY <1>2 DEF Holds, Skb
<1>5. payload(skb) = SubSeq(skb.mem, 0 + 1, Len(skb.mem))
  BY <1>4 DEF payload
<1> DEFINE f == skb.mem
<1>6. f \in Seq(Cell) /\ 0 + 1 = 1 /\ SubSeq(f, 1, Len(f)) \in Seq(Byte)
  BY <1>3, <1>4, <1>5
<1> HIDE DEF f
<1>7. f \in Seq(Byte)
  BY <1>6
<1>8. Range(f) \subseteq Byte
  BY <1>7 DEF Range
<1>9. QED
  BY <1>4, <1>8 DEF f

\* The parts of a frame are those of its packet.
LEMMA FrameParts ==
    ASSUME NEW f, f \in Seq(Byte), 34 <= Len(f)
    PROVE  LET w  == Rest(f, 14)
               ip == SubSeq(f, 15, 34)
           IN  /\ ip = First(w, 20) /\ SubSeq(f, 35, Len(f)) = Rest(w, 20) /\ Len(w) = Len(f) - 14
               /\ SubSeq(ip, 3, 4) = SubSeq(w, 3, 4) /\ SubSeq(ip, 13, 20) = SubSeq(w, 13, 20)
<1> DEFINE w == Rest(f, 14)
           ip == SubSeq(f, 15, 34)
           n == Len(f)
<1>1. n \in Nat /\ 34 <= n
  OBVIOUS
<1>2. w \in Seq(Byte) /\ Len(w) = n - 14 /\ \A i \in 1 .. n - 14 : w[i] = f[14 + i]
  <2>1. 14 \in Nat /\ 14 <= Len(f)
    BY <1>1
  <2>2. QED
    BY <2>1, Split
<1>3. ip = First(w, 20)
  <2>1. 14 \in Nat /\ 20 \in Nat /\ 14 + 20 <= Len(f) /\ 14 + 1 = 15 /\ 14 + 20 = 34
    BY <1>1
  <2>2. SubSeq(Rest(f, 14), 1, 20) = SubSeq(f, 14 + 1, 14 + 20)
    BY <2>1, CutRest
  <2>3. QED
    BY <2>1, <2>2 DEF First
<1> HIDE DEF w
<1>4. 20 <= Len(w) /\ Len(w) \in Nat
  BY <1>1, <1>2
<1>5. SubSeq(f, 35, n) = Rest(w, 20)
  <2> DEFINE a == SubSeq(f, 34 + 1, 34 + (n - 34))
             b == Rest(w, 20)
  <2>1. 34 + (n - 34) = n /\ 34 + 1 = 35 /\ n - 34 \in Nat /\ 34 \in Nat /\ 20 \in Nat /\ 34 + (n - 34) <= Len(f)
    BY <1>1
  <2>2. a \in Seq(Byte) /\ Len(a) = n - 34 /\ Has(f, 34, a)
    BY <2>1, HasCut
  <2>3. b \in Seq(Byte) /\ Len(b) = Len(w) - 20 /\ \A i \in 1 .. Len(w) - 20 : b[i] = w[20 + i]
    <3>1. w \in Seq(Byte) /\ 20 \in Nat /\ 20 <= Len(w)
      BY <1>2, <1>4
    <3> HIDE DEF a, n, ip
    <3>2. QED
      BY <3>1, Split
  <2>4. ASSUME NEW i \in 1 .. n - 34 PROVE a[i] = b[i]
    <3>1. a[i] = f[34 + i]
      BY <2>2 DEF Has
    <3>2. i \in 1 .. Len(w) - 20 /\ 20 + i \in 1 .. n - 14 /\ 14 + (20 + i) = 34 + i
      BY <1>1, <1>2
    <3>3. b[i] = w[20 + i] /\ w[20 + i] = f[14 + (20 + i)]
      BY <1>2, <2>3, <3>2
    <3>4. QED
      BY <3>1, <3>2, <3>3
  <2>5. Len(a) = Len(b)
    BY <1>1, <1>2, <2>2, <2>3
  <2> HIDE DEF a, b
  <2>6. a = b
    BY <2>2, <2>3, <2>4, <2>5, SameElements
  <2>7. SubSeq(f, 35, n) = a
    BY <2>1 DEF a
  <2>8. QED
    BY <2>6, <2>7 DEF b
<1>6. SubSeq(First(w, 20), 3, 4) = SubSeq(w, 3, 4) /\ SubSeq(First(w, 20), 13, 20) = SubSeq(w, 13, 20)
  BY <1>2, <1>4 DEF First
<1>7. QED
  BY <1>2, <1>3, <1>5, <1>6 DEF w

\* The receiver accepts what was sent.
LEMMA LayoutAccepted ==
    ASSUME Layout
    PROVE  ReceiverAccepts
<1> DEFINE f == payload(skb)
           w == Rest(f, 14)
           ip == SubSeq(f, 15, 34)
           msg == SubSeq(f, 35, Len(f))
<1> SUFFICES ASSUME Sent, pkt.ether = <<8, 0>>
             PROVE  /\ Number(SubSeq(ip, 3, 4)) = Len(f) - 14
                    /\ Verifies(ip)
                    /\ IF pkt.proto = 6
                       THEN Verifies(SubSeq(ip, 13, 20) \o <<0, 6>> \o Digits(Len(msg)) \o msg)
                       ELSE Verifies(msg)
  <2>1. EthSize = 14 /\ EthSize + 1 = 15 /\ EthSize + Ipv4Size = 34 /\ EthSize + Ipv4Size + 1 = 35
    BY Sizes
  <2>2. QED
    BY <2>1 DEF ReceiverAccepts
<1>1. PICK m : AtAir(skb, pkt, m, host, padded)
  BY DEF Layout, LayoutOf, Sent
<1>2. IsFrame(f, m, host, padded) /\ Accepted(w, pkt.proto)
  <2>1. pkt # <<>> /\ <<8, 0>> # <<8, 6>>
    BY DEF Sent
  <2>2. QED
    BY <1>1, <2>1 DEF AtAir
<1>3. f \in Seq(Byte) /\ 14 <= Len(f)
  BY <1>2 DEF IsFrame
<1>4. Len(w) = Len(f) - 14 /\ Len(f) \in Nat
  <2>1. 14 \in Nat
    OBVIOUS
  <2>2. QED
    BY <1>3, <2>1, Split
<1>5. 20 <= Len(w)
  <2>1. CASE IsArp(w, host)
    <3>1. Has(w, 24, Ip["b"]) \/ Has(w, 24, Ip["a"])
      BY <2>1 DEF IsArp, ArpFields
    <3>2. Len(Ip["a"]) = 4 /\ Len(Ip["b"]) = 4
      BY Addresses DEF Host, Bytes
    <3>3. 24 + 4 <= Len(w)
      BY <3>1, <3>2 DEF Has
    <3>4. QED
      BY <1>3, <1>4, <3>3
  <2>2. CASE IsPacket(w, m, host, padded)
    BY <2>2 DEF IsPacket
  <2>3. QED
    BY <1>2, <2>1, <2>2 DEF IsFrame
<1>6. 34 <= Len(f)
  BY <1>4, <1>5
<1>7. /\ ip = First(w, 20) /\ msg = Rest(w, 20) /\ Len(w) = Len(f) - 14
      /\ SubSeq(ip, 3, 4) = SubSeq(w, 3, 4) /\ SubSeq(ip, 13, 20) = SubSeq(w, 13, 20)
  BY <1>3, <1>6, FrameParts
<1>8. /\ Number(SubSeq(w, 3, 4)) = Len(w) /\ Verifies(First(w, 20))
      /\ IF pkt.proto = 6
         THEN Verifies(SubSeq(w, 13, 20) \o <<0, 6>> \o Digits(Len(Rest(w, 20))) \o Rest(w, 20))
         ELSE Verifies(Rest(w, 20))
  BY <1>2, Zenon DEF Accepted
<1> HIDE DEF f, w, ip, msg
<1>9. Number(SubSeq(ip, 3, 4)) = Len(f) - 14 /\ Verifies(ip)
  BY <1>7, <1>8, Zenon
<1>10. IF pkt.proto = 6
       THEN Verifies(SubSeq(ip, 13, 20) \o <<0, 6>> \o Digits(Len(msg)) \o msg)
       ELSE Verifies(msg)
  BY <1>7, <1>8, Zenon
<1>11. QED
  BY <1>9, <1>10, Zenon

\* A segment is understood, and a request is answered, as far as it fits.
LEMMA LayoutUnderstood ==
    ASSUME Layout
    PROVE  TcpUnderstood /\ Answered
<1>1. PICK m : Carried(m) /\ LayoutOf(m)
  BY DEF Layout
<1>2. Told(meant) /\ (m = Fit(meant) \/ m = meant)
  BY <1>1 DEF Carried
<1>3. CASE at = "end"
  <2>1. AtEnd(skb, m, got, host, padded)
    BY <1>1, <1>3 DEF LayoutOf
  <2>2. \/ MeantTcp(m) /\ (~padded => got = m)
        \/ MeantEcho(m) /\ host = "a" /\ EchoUnderstood(got, m)
        \/ MeantArp(m) /\ host = "a" /\ got # <<>> /\ got = m
    BY <2>1 DEF AtEnd
  <2>3. m = Fit(meant)
    BY <1>1, <1>3 DEF Carried, Down
  <2>4. CASE MeantTcp(meant)
    <3>1. /\ m = [meant EXCEPT !.data = Truncated(meant.data, Mss)] /\ MeantTcp(m)
      BY <2>3, <2>4, FitTcp
    <3>2. m.kind = "tcp" /\ meant.kind = "tcp"
      BY <2>4, <3>1, KindIs
    <3>3. ~padded => got = m
      BY <2>2, <3>2, KindIs
    <3>4. QED
      BY <3>1, <3>2, <3>3, Zenon DEF TcpUnderstood, Answered
  <2>5. CASE MeantEcho(meant)
    <3> DEFINE e == RxBuffer - EthSize - Ipv4Size - IcmpSize
               d == Truncated(meant.data, e)
               z == <<0>>
    <3>1. e = RxBuffer - 42
      BY Sizes
    <3> HIDE DEF e
    <3>2. m = [meant EXCEPT !.data = d] /\ MeantEcho(m) /\ m.data = d
      BY <2>3, <2>5, <3>1, FitEcho
    <3> HIDE DEF d
    <3>3. m.kind = "icmp" /\ meant.kind = "icmp"
      BY <2>5, <3>2, KindIs
    <3>4. host = "a" /\ EchoUnderstood(got, m)
      BY <2>2, <3>3, KindIs
    <3>5. /\ got # <<>> /\ IsPrefix(d, got.data)
          /\ got = [kind |-> "icmp", type |-> z, id |-> m.id, seq |-> m.seq, data |-> got.data]
      BY <3>2, <3>4 DEF EchoUnderstood
    <3>6. m = [kind |-> "icmp", type |-> z, id |-> m.id, seq |-> m.seq, data |-> d]
      BY <3>2 DEF MeantEcho
    <3>7. [got EXCEPT !.data = d] = [meant EXCEPT !.data = d]
      <4> DEFINE i == m.id
                 j == m.seq
                 y == got.data
      <4>1. got = [kind |-> "icmp", type |-> z, id |-> i, seq |-> j, data |-> y]
        BY <3>5
      <4>2. m = [kind |-> "icmp", type |-> z, id |-> i, seq |-> j, data |-> d]
        BY <3>6
      <4> HIDE DEF i, j, y, z
      <4>3. [[kind |-> "icmp", type |-> z, id |-> i, seq |-> j, data |-> y] EXCEPT !.data = d]
              = [kind |-> "icmp", type |-> z, id |-> i, seq |-> j, data |-> d]
        OBVIOUS
      <4>4. [got EXCEPT !.data = d] = m
        BY <4>1, <4>2, <4>3, Zenon
      <4>5. QED
        BY <3>2, <4>4, Zenon
    <3> HIDE DEF z
    <3>8. QED
      BY <1>3, <3>3, <3>4, <3>5, <3>7, Zenon DEF TcpUnderstood, Answered, d, e
  <2>6. CASE MeantArp(meant)
    <3>1. m = meant /\ meant.kind = "arp"
      BY <2>3, <2>6, KindIs DEF Fit
    <3>2. host = "a" /\ got # <<>> /\ got = meant
      BY <2>2, <3>1, KindIs
    <3>3. QED
      BY <1>3, <3>1, <3>2, Zenon DEF TcpUnderstood, Answered
  <2>7. QED
    BY <1>2, <2>4, <2>5, <2>6 DEF Told
<1>4. CASE at = "ipv4"
  <2>1. AtIpv4(skb, pkt, m, host, padded)
    BY <1>1, <1>4 DEF LayoutOf
  <2>2. IsMessage(payload(skb), m, host, padded) /\ (MeantEcho(m) => host = "b")
    BY <2>1 DEF AtIpv4
  <2>3. MeantTcp(m) \/ MeantEcho(m)
    BY <2>2 DEF IsMessage
  <2>4. CASE MeantTcp(meant)
    <3>1. meant.kind = "tcp"
      BY <2>4, KindIs
    <3>2. QED
      BY <1>4, <3>1, Zenon DEF TcpUnderstood, Answered
  <2>5. CASE MeantEcho(meant)
    <3>1. MeantEcho(m)
      BY <1>2, <2>5, FitEcho
    <3>2. QED
      BY <1>4, <2>2, <3>1, Zenon DEF TcpUnderstood, Answered
  <2>6. CASE MeantArp(meant)
    <3>1. m = meant
      BY <1>2, <2>6, KindIs DEF Fit
    <3>2. QED
      BY <2>3, <2>6, <3>1, KindIs
  <2>7. QED
    BY <1>2, <2>4, <2>5, <2>6 DEF Told
<1>5. CASE at # "end" /\ at # "ipv4"
  BY <1>5 DEF TcpUnderstood, Answered
<1>6. QED
  BY <1>3, <1>4, <1>5

-----------------------------------------------------------------------------
(* Theorems *)

\* Whatever the process functions of the layers write into a buffer, from
\* tcb_t::make_packet down to the device and up again on the other host, is at the
\* offset of its header and has the value the header, the text and the checksums ask
\* for: the layout is inductive.
THEOREM FrameLayout == Spec => []Layout
  BY LayoutInit, LayoutNext, PTL DEF Spec

\* The buffer, its head and its fill level, as skbuff keeps them, have their types at
\* every layer, whatever is sent.
THEOREM FrameTypeOK == Spec => []TypeOK
<1>1. Layout => TypeOK
  BY LayoutBuffer
<1>2. QED
  BY <1>1, FrameLayout, PTL

\* No assert of skbuff (push_front, pop_front), of the layers or of
\* decode_options fails and no memory outside of a buffer is touched, whatever the
\* addresses, the headers, the text, the options of a SYN and the padding: what
\* decode_options reads behind a window scale at the end of a frame is still in the
\* read buffer.
THEOREM FrameBufferSafe == Spec => []BufferSafe
<1>1. Layout => BufferSafe
  BY LayoutBuffer
<1>2. QED
  BY <1>1, FrameLayout, PTL

\* No byte of a buffer that was allocated but never written to by a
\* layer reaches device::process, for any packet.
THEOREM FrameWireInitialised == Spec => []WireInitialised
<1>1. Layout => WireInitialised
  BY LayoutWire
<1>2. QED
  BY <1>1, FrameLayout, PTL

\* What ipv4::process, tcp::process and icmp put into total length and checksums is what a
\* receiver asks for, although utils::checksum takes the sums in the byte order of
\* the host, with folded carries and an odd byte left over, for every packet.
THEOREM FrameReceiverAccepts == Spec => []ReceiverAccepts
<1>1. Layout => ReceiverAccepts
  BY LayoutAccepted
<1>2. QED
  BY <1>1, FrameLayout, PTL

\* tcb_t::process and decode_options understand a segment as it was meant, header, MSS
\* and text up to the MSS that was told, for every header and every text, unless its
\* frame was padded.
THEOREM FrameTcpUnderstood == Spec => []TcpUnderstood
<1>1. Layout => TcpUnderstood
  BY LayoutUnderstood
<1>2. QED
  BY <1>1, FrameLayout, PTL

\* ARP and echo requests are answered, by the host asked and no other, and the
\* answer carries what arp::process and icmp::process were asked for: all the data
\* of an echo request that device::async_receive has room for, and no less.
THEOREM FrameAnswered == Spec => []Answered
<1>1. Layout => Answered
  BY LayoutUnderstood
<1>2. QED
  BY <1>1, FrameLayout, PTL

=============================================================================
