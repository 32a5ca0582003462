----------------------------- MODULE QueueLemmas -----------------------------
(***************************************************************************)
(* Facts about naturals, positions in queues and their numbers that the    *)
(* proofs of several components rest on.                                   *)
(***************************************************************************)
EXTENDS Positions, Integers, Sequences, FiniteSets, SequenceTheorems, FiniteSetTheorems, TLAPS

\* A function on 1 .. n is a sequence.
LEMMA FunctionIsSeq ==
    ASSUME NEW S, NEW n \in Nat, NEW f \in [1 .. n -> S]
    PROVE  f \in Seq(S)
<1> DEFINE W == {[1 .. k -> S] : k \in Nat}
<1>1. [1 .. n -> S] \in W
  OBVIOUS
<1>2. f \in UNION W
  BY <1>1, Zenon
<1>3. QED
  BY <1>2, SeqDef, Zenon

\* A set of naturals that is not empty has a least element.
LEMMA LeastNat ==
    ASSUME NEW S \in SUBSET Nat, S # {}
    PROVE  \E x \in S : \A y \in S : x <= y
<1> DEFINE T == {0 .. n : n \in S}
<1>1. T \subseteq FiniteSubsetsOf(Nat) /\ T # {}
  <2>1. \A n \in S : 0 .. n \in FiniteSubsetsOf(Nat)
    BY FS_Interval DEF FiniteSubsetsOf
  <2>2. QED
    BY <2>1
<1>2. PICK t \in T : \A u \in T : ~(<<u, t>> \in StrictSubsetOrdering(Nat))
  <2> HIDE DEF T
  <2>1. QED
    BY <1>1, FS_StrictSubsetOrderingWellFounded, WFMin
<1>3. PICK x \in S : t = 0 .. x
  OBVIOUS
<1>4. ASSUME NEW y \in S, y < x PROVE FALSE
  <2>1. x \in Nat /\ y \in Nat
    OBVIOUS
  <2>2. 0 .. y \in T
    OBVIOUS
  <2>3. 0 .. y \subseteq 0 .. x /\ x \in 0 .. x /\ x \notin 0 .. y
    BY <1>4, <2>1
  <2>4. 0 .. y \in SUBSET Nat /\ 0 .. x \in SUBSET Nat
    BY <2>1
  <2>5. <<0 .. y, 0 .. x>> \in StrictSubsetOrdering(Nat)
    BY <2>3, <2>4 DEF StrictSubsetOrdering
  <2>6. QED
    BY <1>2, <1>3, <2>2, <2>5
<1>5. \A y \in S : x <= y
  BY <1>4
<1>6. QED
  BY <1>5

\* Induction: a set that holds 0 and with every natural the next one holds them all.
LEMMA SetInduction ==
    ASSUME NEW S, 0 \in S, \A n \in Nat : n \in S => n + 1 \in S
    PROVE  Nat \subseteq S
<1> DEFINE R == Nat \ S
<1>1. ASSUME R # {} PROVE FALSE
  <2>1. PICK x \in R : \A y \in R : x <= y
    BY <1>1, LeastNat
  <2>2. x \in Nat \ {0} /\ x - 1 \in Nat /\ ~(x <= x - 1)
    OBVIOUS
  <2>3. x - 1 \in S
    BY <2>1, <2>2
  <2>4. (x - 1) + 1 = x
    BY <2>2
  <2>5. QED
    BY <2>2, <2>3, <2>4
<1>2. QED
  BY <1>1

\* A function that is one-to-one and onto T shows that T is as large as S.
LEMMA SameNumber ==
    ASSUME NEW S, IsFiniteSet(S), NEW T, NEW f \in [S -> T],
           \A x, y \in S : f[x] = f[y] => x = y,
           \A t \in T : \E x \in S : f[x] = t
    PROVE  IsFiniteSet(T) /\ Cardinality(T) = Cardinality(S)
<1>1. f \in Bijection(S, T)
  BY DEF Bijection, Injection, Surjection, IsInjective
<1>2. ExistsBijection(S, T)
  BY <1>1 DEF ExistsBijection
<1>3. QED
  BY <1>2, FS_Bijection

\* The positions of a queue move down by one when its front is taken: the
\* positions S become T, one less if the front was among them.
LEMMA TailPositions ==
    ASSUME NEW S \in SUBSET (Nat \ {0}), IsFiniteSet(S),
           NEW T, T = {i \in Nat \ {0} : i + 1 \in S}
    PROVE  /\ IsFiniteSet(T) /\ Cardinality(T) \in Nat /\ Cardinality(S) \in Nat
           /\ Cardinality(T) = IF 1 \in S THEN Cardinality(S) - 1 ELSE Cardinality(S)
<1> DEFINE R == S \ {1}
           f == [i \in R |-> i - 1]
<1>1. /\ IsFiniteSet(R)
      /\ Cardinality(R) = IF 1 \in S THEN Cardinality(S) - 1 ELSE Cardinality(S)
  BY FS_RemoveElement
<1>2. f \in [R -> T]
  BY DEF f
<1>3. \A x, y \in R : f[x] = f[y] => x = y
  OBVIOUS
<1>4. \A t \in T : t + 1 \in R /\ f[t + 1] = t
  OBVIOUS
<1> HIDE DEF R, f
<1>5. IsFiniteSet(T) /\ Cardinality(T) = Cardinality(R)
  BY <1>1, <1>2, <1>3, <1>4, SameNumber
<1>6. QED
  BY <1>1, <1>5, FS_CardinalityType

\* t is the queue s with x behind it, position by position.
IsAppend(s, x, t) ==
    /\ Len(s) \in Nat /\ Len(t) = Len(s) + 1
    /\ DOMAIN t = DOMAIN s \cup {Len(s) + 1} /\ Len(s) + 1 \notin DOMAIN s
    /\ t[Len(s) + 1] = x
    /\ \A i \in DOMAIN s : i \in Nat \ {0} /\ i < Len(s) + 1 /\ t[i] = s[i]

\* Append is one.
LEMMA AppendIs ==
    ASSUME NEW S, NEW s \in Seq(S), NEW x
    PROVE  IsAppend(s, x, Append(s, x))
<1> DEFINE t == Append(s, x)
<1>1. s \in Seq(S \cup {x})
  BY SeqMonotonic
<1>2. /\ Len(s) \in Nat /\ DOMAIN s = 1 .. Len(s) /\ DOMAIN t = 1 .. Len(t) /\ Len(t) = Len(s) + 1
      /\ \A i \in DOMAIN s : t[i] = s[i]
      /\ t[Len(s) + 1] = x
  BY <1>1, AppendProperties, LenProperties
<1> HIDE DEF t
<1>3. QED
  BY <1>2 DEF IsAppend, t

\* r is the queue s with the queue t behind it, position by position.
IsConcat(s, t, r) ==
    /\ Len(s) \in Nat /\ Len(t) \in Nat /\ Len(r) = Len(s) + Len(t)
    /\ DOMAIN s = 1 .. Len(s) /\ DOMAIN t = 1 .. Len(t) /\ DOMAIN r = 1 .. Len(s) + Len(t)
    /\ \A i \in DOMAIN s : i \in DOMAIN r /\ r[i] = s[i]
    /\ \A i \in DOMAIN t : Len(s) + i \in DOMAIN r /\ r[Len(s) + i] = t[i]
    /\ \A i \in DOMAIN r : i \notin DOMAIN s => i - Len(s) \in DOMAIN t /\ r[i] = t[i - Len(s)]

\* s \o t is one.
LEMMA ConcatIs ==
    ASSUME NEW S, NEW s \in Seq(S), NEW t \in Seq(S)
    PROVE  IsConcat(s, t, s \o t) /\ s \o t \in Seq(S)
<1> DEFINE r == s \o t
<1>1. /\ r \in Seq(S) /\ Len(r) = Len(s) + Len(t)
      /\ \A i \in 1 .. Len(s) + Len(t) : r[i] = IF i <= Len(s) THEN s[i] ELSE t[i - Len(s)]
  BY ConcatProperties
<1> HIDE DEF r
<1>2. /\ Len(s) \in Nat /\ Len(t) \in Nat /\ DOMAIN s = 1 .. Len(s) /\ DOMAIN t = 1 .. Len(t)
      /\ DOMAIN r = 1 .. Len(s) + Len(t)
  BY <1>1, LenProperties
<1>3. /\ \A i \in 1 .. Len(s) : i \in 1 .. Len(s) + Len(t) /\ i <= Len(s)
      /\ \A i \in 1 .. Len(t) : Len(s) + i \in 1 .. Len(s) + Len(t) /\ ~(Len(s) + i <= Len(s))
                                 /\ (Len(s) + i) - Len(s) = i
      /\ \A i \in 1 .. Len(s) + Len(t) : i \notin 1 .. Len(s) => ~(i <= Len(s)) /\ i - Len(s) \in 1 .. Len(t)
  BY <1>2
<1>4. IsConcat(s, t, r)
  BY <1>1, <1>2, <1>3 DEF IsConcat
<1>5. QED
  BY <1>1, <1>4 DEF r

\* A queue of one element.
LEMMA OneElement ==
    ASSUME NEW S, NEW r \in Seq(S), Len(r) = 1
    PROVE  r # <<>> /\ Head(r) = r[1] /\ Tail(r) = <<>> /\ r[1] \in S
<1>1. r # <<>> /\ Head(r) = r[1] /\ r[1] \in S /\ Tail(r) \in Seq(S) /\ Len(Tail(r)) = 0
  <2>1. r # <<>>
    OBVIOUS
  <2>2. Tail(r) \in Seq(S) /\ Len(Tail(r)) = Len(r) - 1
    BY <2>1, HeadTailProperties
  <2>3. QED
    BY <2>1, <2>2
<1>2. Tail(r) = <<>>
  BY <1>1, EmptySeq
<1>3. QED
  BY <1>1, <1>2

\* t is the queue s without its front, position by position.
IsTail(s, t) ==
    /\ Len(s) \in Nat \ {0} /\ Len(t) = Len(s) - 1 /\ 1 \in DOMAIN s
    /\ \A i \in DOMAIN t : i \in Nat \ {0} /\ i + 1 \in DOMAIN s /\ t[i] = s[i + 1]
    /\ \A i \in DOMAIN s : i \in Nat \ {0} /\ (i # 1 => i - 1 \in DOMAIN t /\ t[i - 1] = s[i])

\* Tail is one.
LEMMA TailIs ==
    ASSUME NEW S, NEW s \in Seq(S), s # <<>>
    PROVE  IsTail(s, Tail(s)) /\ Head(s) = s[1] /\ Head(s) \in S /\ Tail(s) \in Seq(S)
<1> DEFINE t == Tail(s)
<1>1. /\ Len(s) \in Nat \ {0} /\ DOMAIN s = 1 .. Len(s) /\ DOMAIN t = 1 .. Len(t) /\ Len(t) = Len(s) - 1
      /\ \A i \in DOMAIN t : t[i] = s[i + 1]
      /\ Head(s) = s[1] /\ Head(s) \in S /\ t \in Seq(S)
  BY HeadTailProperties, LenProperties, EmptySeq
<1> HIDE DEF t
<1>2. IsTail(s, t)
  BY <1>1 DEF IsTail
<1>3. QED
  BY <1>1, <1>2 DEF t

\* A buffer that is cut out of a queue.
LEMMA Cut ==
    ASSUME NEW S, NEW q \in Seq(S), NEW a \in Nat, NEW b \in Nat, a <= b, b <= Len(q)
    PROVE  LET r == SubSeq(q, a + 1, b)
           IN  /\ r \in Seq(S) /\ Len(r) = b - a /\ DOMAIN r = 1 .. b - a
               /\ \A i \in 1 .. b - a : a + i \in DOMAIN q /\ r[i] = q[a + i]
<1> DEFINE r == SubSeq(q, a + 1, b)
<1>1. Len(q) \in Nat /\ DOMAIN q = 1 .. Len(q) /\ \A i \in 1 .. Len(q) : q[i] \in S
  OBVIOUS
<1>2. \A i \in a + 1 .. b : q[i] \in S
  BY <1>1
<1>3. /\ r \in Seq(S) /\ Len(r) = (IF a + 1 <= b THEN b - (a + 1) + 1 ELSE 0)
      /\ \A i \in 1 .. b - (a + 1) + 1 : r[i] = q[(a + 1) + i - 1]
  BY <1>2, SubSeqProperties
<1> HIDE DEF r
<1>4. Len(r) = b - a
  BY <1>3
<1>5. b - (a + 1) + 1 = b - a
  OBVIOUS
<1>6. ASSUME NEW i \in 1 .. b - a PROVE a + i \in DOMAIN q /\ r[i] = q[a + i]
  <2>1. (a + 1) + i - 1 = a + i /\ a + i \in 1 .. Len(q)
    BY <1>1
  <2>2. r[i] = q[(a + 1) + i - 1]
    BY <1>3, <1>5
  <2>3. QED
    BY <1>1, <2>1, <2>2
<1>7. DOMAIN r = 1 .. b - a
  BY <1>3, <1>4
<1>8. QED
  BY <1>3, <1>4, <1>6, <1>7 DEF r

-----------------------------------------------------------------------------
(* Ranks *)

\* The positions up to i are finitely many, at most all.
LEMMA RankType ==
    ASSUME NEW S \in SUBSET Nat, IsFiniteSet(S), NEW i
    PROVE  /\ IsFiniteSet({j \in S : j <= i}) /\ Rank(S, i) \in Nat
           /\ Cardinality(S) \in Nat /\ Rank(S, i) <= Cardinality(S)
<1>1. {j \in S : j <= i} \subseteq S
  OBVIOUS
<1>2. QED
  BY <1>1, FS_Subset, FS_CardinalityType DEF Rank

\* A position adds one to the rank.
LEMMA RankGrows ==
    ASSUME NEW S \in SUBSET Nat, IsFiniteSet(S), NEW i \in Nat, NEW j \in S, i < j
    PROVE  Rank(S, i) < Rank(S, j)
<1> DEFINE A == {k \in S : k <= i}
           B == {k \in S : k <= j}
<1>1. j \notin A /\ A \cup {j} \subseteq B
  <2>1. j \in Nat /\ ~(j <= i) /\ j <= j /\ \A k \in S : k <= i => k <= j
    OBVIOUS
  <2>2. QED
    BY <2>1
<1>2. IsFiniteSet(A) /\ IsFiniteSet(B)
  BY RankType
<1> HIDE DEF A, B
<1>3. IsFiniteSet(A \cup {j}) /\ Cardinality(A \cup {j}) = Cardinality(A) + 1
  BY <1>1, <1>2, FS_AddElement
<1>4. Cardinality(A \cup {j}) <= Cardinality(B)
  BY <1>1, <1>2, FS_Subset
<1>5. Cardinality(A) \in Nat /\ Cardinality(B) \in Nat
  BY <1>2, FS_CardinalityType
<1>6. Cardinality(A) < Cardinality(B)
  BY <1>3, <1>4, <1>5
<1>7. QED
  BY <1>6 DEF Rank, A, B

\* Different positions have different ranks, all of them within the number of
\* positions.
LEMMA RankInjective ==
    ASSUME NEW S \in SUBSET (Nat \ {0}), IsFiniteSet(S)
    PROVE  /\ \A i, j \in S : Rank(S, i) = Rank(S, j) => i = j
           /\ \A i \in S : Rank(S, i) \in 1 .. Cardinality(S)
<1>1. S \in SUBSET Nat /\ \A i \in S : Rank(S, i) \in Nat /\ Rank(S, i) <= Cardinality(S)
  BY RankType
<1>2. \A i, j \in S : i < j => Rank(S, i) < Rank(S, j)
  BY <1>1, RankGrows
<1>3. \A i \in S : Rank(S, 0) < Rank(S, i) /\ Rank(S, 0) \in Nat
  <2>1. Rank(S, 0) \in Nat
    BY <1>1, RankType
  <2>2. 0 \in Nat /\ \A i \in S : 0 < i
    OBVIOUS
  <2>3. QED
    BY <1>1, <2>1, <2>2, RankGrows
<1>4. Cardinality(S) \in Nat
  BY FS_CardinalityType
<1>5. \A i, j \in S : Rank(S, i) = Rank(S, j) => i = j
  BY <1>1, <1>2
<1>6. QED
  BY <1>1, <1>3, <1>4, <1>5

\* Every number up to the number of positions is the rank of one.
LEMMA RankNth ==
    ASSUME NEW N \in Nat, NEW S \in SUBSET (1 .. N), NEW k \in 1 .. Cardinality(S)
    PROVE  \E i \in S : Rank(S, i) = k
<1>1. IsFiniteSet(S) /\ S \in SUBSET Nat /\ Cardinality(S) \in Nat
  <2>1. 1 \in Int /\ N \in Int
    OBVIOUS
  <2>2. IsFiniteSet(1 .. N)
    BY <2>1, FS_Interval
  <2>3. IsFiniteSet(S)
    BY <2>2, FS_Subset
  <2>4. QED
    BY <2>3, FS_CardinalityType
<1> DEFINE T == {n \in Nat : k <= Rank(S, n)}
<1>2. Rank(S, N) = Cardinality(S) /\ Rank(S, 0) = 0
  <2>1. \A j \in S : j <= N /\ ~(j <= 0)
    OBVIOUS
  <2>2. {j \in S : j <= N} = S /\ {j \in S : j <= 0} = {}
    BY <2>1
  <2>3. QED
    BY <2>2, FS_EmptySet DEF Rank
<1>3. N \in T /\ 0 \notin T
  BY <1>1, <1>2
<1>4. PICK n \in T : \A m \in T : n <= m
  <2> HIDE DEF T
  <2>1. T \in SUBSET Nat
    BY DEF T
  <2>2. QED
    BY <1>3, <2>1, LeastNat
<1>5. n \in Nat \ {0} /\ n - 1 \in Nat /\ n - 1 \notin T
  BY <1>3, <1>4
<1>6. Rank(S, n - 1) < k /\ k <= Rank(S, n) /\ Rank(S, n) \in Nat /\ Rank(S, n - 1) \in Nat
  <2>1. Rank(S, n) \in Nat /\ Rank(S, n - 1) \in Nat
    BY <1>1, RankType
  <2>2. k <= Rank(S, n) /\ ~(k <= Rank(S, n - 1))
    BY <1>5
  <2>3. QED
    BY <1>1, <2>1, <2>2
<1>7. n \in S
  <2>1. CASE n \notin S
    <3>1. \A j \in S : j <= n <=> j <= n - 1
      BY <1>1, <1>5, <2>1
    <3>2. {j \in S : j <= n} = {j \in S : j <= n - 1}
      BY <3>1
    <3>3. QED
      BY <1>6, <3>2 DEF Rank
  <2>2. QED
    BY <2>1
<1>8. Rank(S, n) = Rank(S, n - 1) + 1
  <2> DEFINE A == {j \in S : j <= n}
             B == {j \in S : j <= n - 1}
  <2>1. n \in Nat /\ ~(n <= n - 1) /\ n <= n /\ \A j \in S : j <= n <=> j <= n - 1 \/ j = n
    BY <1>1, <1>5
  <2>2. A = B \cup {n} /\ n \notin B
    BY <1>7, <2>1
  <2>3. IsFiniteSet(B)
    BY <1>1, RankType
  <2> HIDE DEF A, B
  <2>4. Cardinality(A) = Cardinality(B) + 1
    BY <2>2, <2>3, FS_AddElement
  <2>5. QED
    BY <2>4 DEF Rank, A, B
<1>9. QED
  BY <1>6, <1>7, <1>8

\* n positions are added behind N.
Behind(S, N, n, T) ==
    /\ N \in Nat /\ n \in Nat
    /\ S \in SUBSET (1 .. N)
    /\ T = S \cup (N + 1 .. N + n)

\* The ranks of the others stay, and those of the new ones follow.
LEMMA RankBehind ==
    ASSUME NEW S, NEW N, NEW n, NEW T, Behind(S, N, n, T)
    PROVE  /\ IsFiniteSet(S) /\ IsFiniteSet(T) /\ Cardinality(S) \in Nat
           /\ Cardinality(T) = Cardinality(S) + n
           /\ \A i \in 1 .. N : Rank(T, i) = Rank(S, i)
           /\ \A k \in 1 .. n : Rank(T, N + k) = Cardinality(S) + k
<1> USE DEF Behind
<1>1. IsFiniteSet(S) /\ Cardinality(S) \in Nat
  <2>1. 1 \in Int /\ N \in Int
    OBVIOUS
  <2>2. IsFiniteSet(1 .. N)
    BY <2>1, FS_Interval
  <2>3. QED
    BY <2>2, FS_Subset, FS_CardinalityType
<1>2. \A k \in 0 .. n : /\ IsFiniteSet(S \cup (N + 1 .. N + k))
                        /\ Cardinality(S \cup (N + 1 .. N + k)) = Cardinality(S) + k
  <2> TAKE k \in 0 .. n
  <2> DEFINE B == N + 1 .. N + k
  <2>1. N + 1 \in Int /\ N + k \in Int
    OBVIOUS
  <2>2. IsFiniteSet(B) /\ Cardinality(B) = IF N + 1 > N + k THEN 0 ELSE (N + k) - (N + 1) + 1
    BY <2>1, FS_Interval
  <2>3. Cardinality(B) = k
    BY <2>2
  <2>4. S \cap B = {}
    OBVIOUS
  <2> HIDE DEF B
  <2>5. Cardinality(S \cap B) = 0
    BY <2>4, FS_EmptySet
  <2>6. /\ IsFiniteSet(S \cup B)
        /\ Cardinality(S \cup B) = Cardinality(S) + Cardinality(B) - Cardinality(S \cap B)
    BY <1>1, <2>2, FS_Union
  <2>7. Cardinality(S \cup B) = Cardinality(S) + k
    BY <1>1, <2>3, <2>5, <2>6
  <2>8. QED
    BY <2>6, <2>7 DEF B
<1>3. IsFiniteSet(T) /\ Cardinality(T) = Cardinality(S) + n
  BY <1>2
<1>4. ASSUME NEW i \in 1 .. N PROVE Rank(T, i) = Rank(S, i)
  <2>1. \A j \in N + 1 .. N + n : ~(j <= i)
    OBVIOUS
  <2>2. {j \in T : j <= i} = {j \in S : j <= i}
    BY <2>1
  <2>3. QED
    BY <2>2 DEF Rank
<1>5. ASSUME NEW k \in 1 .. n PROVE Rank(T, N + k) = Cardinality(S) + k
  <2>1. /\ \A j \in S : j <= N + k
        /\ \A j : j \in N + 1 .. N + n /\ j <= N + k <=> j \in N + 1 .. N + k
    OBVIOUS
  <2>2. {j \in T : j <= N + k} = S \cup (N + 1 .. N + k)
    BY <2>1, Zenon
  <2>3. k \in 0 .. n
    OBVIOUS
  <2>4. QED
    BY <1>2, <2>2, <2>3 DEF Rank
<1>6. QED
  BY <1>1, <1>3, <1>4, <1>5

\* The front is taken and every position moves down by one.
MovedDown(S, T) ==
    /\ S \in SUBSET (Nat \ {0}) /\ IsFiniteSet(S)
    /\ T = {i \in Nat \ {0} : i + 1 \in S}

\* So do the ranks, if the front was among the positions.
LEMMA RankTail ==
    ASSUME NEW S, NEW T, MovedDown(S, T)
    PROVE  /\ IsFiniteSet(T) /\ Cardinality(T) \in Nat /\ Cardinality(S) \in Nat
           /\ Cardinality(T) = Cardinality(S) - (IF 1 \in S THEN 1 ELSE 0)
           /\ \A i \in T : Rank(T, i) = Rank(S, i + 1) - (IF 1 \in S THEN 1 ELSE 0)
<1> USE DEF MovedDown
<1>1. /\ IsFiniteSet(T) /\ Cardinality(T) \in Nat /\ Cardinality(S) \in Nat
      /\ Cardinality(T) = IF 1 \in S THEN Cardinality(S) - 1 ELSE Cardinality(S)
  BY TailPositions
<1>2. ASSUME NEW i \in T
      PROVE  Rank(T, i) = Rank(S, i + 1) - (IF 1 \in S THEN 1 ELSE 0)
  <2> DEFINE A == {j \in S : j <= i + 1}
             B == {j \in T : j <= i}
  <2>1. A \in SUBSET (Nat \ {0}) /\ (1 \in A <=> 1 \in S)
    <3>1. 1 <= i + 1
      OBVIOUS
    <3>2. QED
      BY <3>1
  <2>2. IsFiniteSet(A)
    BY RankType
  <2>3. B = {j \in Nat \ {0} : j + 1 \in A}
    OBVIOUS
  <2> HIDE DEF A, B
  <2>4. /\ Cardinality(A) \in Nat
        /\ Cardinality(B) = IF 1 \in A THEN Cardinality(A) - 1 ELSE Cardinality(A)
    BY <2>1, <2>2, <2>3, TailPositions
  <2>5. QED
    BY <2>1, <2>4 DEF Rank, A, B
<1>3. QED
  BY <1>1, <1>2

=============================================================================
