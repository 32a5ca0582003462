-------------------------- MODULE TcbManagerProofs --------------------------
(***************************************************************************)
(* What holds of tcb_manager, acceptors and sockets for every set of       *)
(* remote endpoints, ports, acceptors and sockets.                         *)
(***************************************************************************)
EXTENDS TcbManager, QueueLemmas

-----------------------------------------------------------------------------
(* Helpers *)

\* First is the least position.
LEMMA FirstIsLeast ==
    ASSUME NEW S \in SUBSET Nat, S # {}
    PROVE  First(S) \in S /\ \A j \in S : First(S) <= j
BY LeastNat DEF First

\* A callback is the one of a rule or the one of a connecting socket.
LEMMA OwnerIs ==
    ASSUME NEW cb \in Owner
    PROVE  \/ DOMAIN cb = {"accept"} /\ cb.accept \in Acceptor
           \/ DOMAIN cb = {"connect"} /\ cb.connect \in Socket
BY DEF Owner

\* The two fields of a life.
LEMMA LifeRecord ==
    ASSUME NEW st \in LifeState, NEW b \in BOOLEAN
    PROVE  LET r == [state |-> st, notified |-> b]
           IN  r \in Life /\ r.state = st /\ r.notified = b
BY DEF Life

\* No successor of a life forgets a report, and none of the handshake has one.
LEMMA LifeGoesOn ==
    ASSUME NEW l \in Life, l.state \in {"Listen", "SynSent", "SynReceived"} => ~l.notified,
           NEW m \in Successors(l) \cup {l}
    PROVE  /\ m \in Life
           /\ m.state \in {"Listen", "SynSent", "SynReceived"} => ~m.notified
           /\ l.notified => m.notified
<1>1. CASE l.state = "Listen"
  <2>1. Successors(l) = {[l EXCEPT !.state = "SynReceived"]}
    BY <1>1 DEF Successors
  <2>2. QED
    BY <1>1, <2>1 DEF Life, LifeState
<1>2. CASE l.state = "SynSent"
  <2>1. Successors(l) = {[state |-> "Established", notified |-> TRUE]}
    BY <1>2 DEF Successors
  <2>2. m = l \/ m = [state |-> "Established", notified |-> TRUE]
    BY <2>1
  <2>3. ~l.notified
    BY <1>2
  <2>4. QED
    BY <2>2, <2>3, LifeRecord DEF LifeState
<1>3. CASE l.state = "SynReceived"
  <2>1. Successors(l) = {[state |-> "Established", notified |-> TRUE],
                         [state |-> "CloseWait", notified |-> TRUE],
                         [state |-> "CloseWait", notified |-> FALSE]}
    BY <1>3 DEF Successors
  <2>2. \/ m = l
        \/ m = [state |-> "Established", notified |-> TRUE]
        \/ m = [state |-> "CloseWait", notified |-> TRUE]
        \/ m = [state |-> "CloseWait", notified |-> FALSE]
    BY <2>1
  <2>3. ~l.notified
    BY <1>3
  <2>4. QED
    BY <2>2, <2>3, LifeRecord DEF LifeState
<1>4. CASE l.state = "Established"
  <2>1. Successors(l) = {[l EXCEPT !.state = "CloseWait"]}
    BY <1>4 DEF Successors
  <2>2. QED
    BY <1>4, <2>1 DEF Life, LifeState
<1>5. CASE l.state = "CloseWait"
  <2>1. Successors(l) = {[l EXCEPT !.state = "TimeWait"]}
    BY <1>5 DEF Successors
  <2>2. QED
    BY <1>5, <2>1 DEF Life, LifeState
<1>6. CASE l.state = "TimeWait"
  <2>1. Successors(l) = {}
    BY <1>6 DEF Successors
  <2>2. QED
    BY <1>6, <2>1 DEF Life, LifeState
<1>7. QED
  BY <1>1, <1>2, <1>3, <1>4, <1>5, <1>6 DEF Life, LifeState

-----------------------------------------------------------------------------
(* The inductive invariant *)

Connecting(e) == "connect" \in DOMAIN tcbs[e].cb
Accepting(e) == "accept" \in DOMAIN tcbs[e].cb

\* A TCB made by async_connect belongs to the one socket that asked for its
\* remote endpoint.
ConnectorsKnown ==
    /\ \A e \in DOMAIN tcbs : Connecting(e) =>
            /\ tcbs[e].cb.connect \in DOMAIN wants
            /\ wants[tcbs[e].cb.connect] = <<"connect", e.remote>>
    /\ \A e, f \in DOMAIN tcbs :
            Connecting(e) /\ Connecting(f) /\ tcbs[e].cb.connect = tcbs[f].cb.connect => e = f

\* A socket in cbs_ has asked its acceptor, waits there once and holds nothing.
WaitersKnown ==
    \A a \in Acceptor : \A i \in DOMAIN cbs[a] :
        /\ cbs[a][i] \in DOMAIN wants
        /\ wants[cbs[a][i]] = <<"accept", a>>
        /\ cbs[a][i] \notin DOMAIN holds
        /\ \A j \in DOMAIN cbs[a] : cbs[a][i] = cbs[a][j] => i = j

\* A socket holds a TCB that was made for it or accepted by its acceptor.
HoldersKnown ==
    \A s \in DOMAIN holds :
        /\ holds[s] \in DOMAIN tcbs
        /\ \/ Connecting(holds[s]) /\ tcbs[holds[s]].cb.connect = s
           \/ Accepting(holds[s]) /\ wants[s] = <<"accept", tcbs[holds[s]].cb.accept>>

\* A TCB has not reported before the end of its handshake.
NoEarlyReport ==
    \A e \in DOMAIN tcbs :
        tcbs[e].life.state \in {"Listen", "SynSent", "SynReceived"} => ~tcbs[e].life.notified

Inv ==
    /\ TypeOK
    /\ ConnectorsKnown
    /\ WaitersKnown
    /\ HoldersKnown
    /\ NoEarlyReport
    /\ FirstRuleOwns
    /\ EachConnectionOnce

-----------------------------------------------------------------------------
(* Each step keeps it *)

\* The invariant holds of a manager without rules and TCBs.
LEMMA InitInv == Init => Inv
<1> SUFFICES ASSUME Init PROVE Inv
  OBVIOUS
<1>1. DOMAIN tcbs = {} /\ DOMAIN wants = {} /\ DOMAIN holds = {} /\ DOMAIN ioq = {}
  BY DEF Init
<1>2. rules \in Seq(Acceptor) /\ ioq \in Seq(DOMAIN tcbs) /\ cbs \in [Acceptor -> Seq(Socket)]
  BY EmptySeq DEF Init
<1>3. \A a \in Acceptor : DOMAIN cbs[a] = {}
  BY DEF Init
<1>4. loop \in BOOLEAN /\ dropped = {} /\ abort \in BOOLEAN
  BY DEF Init
<1>5. TypeOK
  BY <1>1, <1>2, <1>4 DEF TypeOK
<1>6. QED
  BY <1>1, <1>3, <1>5 DEF Inv, ConnectorsKnown, WaitersKnown, HoldersKnown, NoEarlyReport,
                          FirstRuleOwns, EachConnectionOnce

\* A rule that is inserted behind those that match does not become the first one.
LEMMA FirstStays ==
    ASSUME NEW S \in SUBSET Nat, S # {}, NEW n \in Nat, \A i \in S : i <= n,
           NEW T \in SUBSET Nat, S \subseteq T, \A i \in T : i \in S \/ i = n + 1
    PROVE  First(T) = First(S)
<1>1. First(S) \in S /\ \A j \in S : First(S) <= j
  BY FirstIsLeast
<1>2. T # {}
  OBVIOUS
<1>3. First(T) \in T /\ \A j \in T : First(T) <= j
  BY <1>2, FirstIsLeast
<1> DEFINE x == First(S)
           y == First(T)
<1> HIDE DEF x, y
<1>4. x \in S /\ y \in T /\ x \in T /\ x \in Nat /\ y \in Nat
  BY <1>1, <1>3 DEF x, y
<1>5. y <= x /\ x <= n
  BY <1>3, <1>4 DEF y
<1>6. y \in S
  BY <1>4, <1>5
<1>7. x <= y
  BY <1>1, <1>6 DEF x
<1>8. QED
  BY <1>4, <1>5, <1>7 DEF x, y

\* acceptor::acceptor keeps the invariant: its rule is behind the others.
LEMMA NewAcceptorInv ==
    ASSUME Inv, NEW a \in Acceptor, new_acceptor(a)
    PROVE  Inv'
<1>1. /\ rules' = Append(rules, a) /\ rules \in Seq(Acceptor)
      /\ UNCHANGED <<loop, tcbs, ioq, cbs, wants, holds, dropped, abort>>
  BY DEF new_acceptor, Inv, TypeOK
<1>2. /\ rules' \in Seq(Acceptor) /\ DOMAIN rules = 1 .. Len(rules)
      /\ DOMAIN rules' = 1 .. Len(rules) + 1 /\ Len(rules) \in Nat
      /\ \A i \in DOMAIN rules : rules'[i] = rules[i]
  BY <1>1, AppendProperties, LenProperties
<1>3. TypeOK'
  BY <1>1, <1>2 DEF Inv, TypeOK
<1>4. FirstRuleOwns'
  <2> SUFFICES ASSUME NEW e \in DOMAIN tcbs, "accept" \in DOMAIN tcbs[e].cb
               PROVE  /\ Matching(e)' # {}
                      /\ tcbs[e].cb.accept = rules'[First(Matching(e)')]
    BY <1>1 DEF FirstRuleOwns
  <2>1. Matching(e) # {} /\ tcbs[e].cb.accept = rules[First(Matching(e))]
    BY DEF Inv, FirstRuleOwns
  <2>2. Matching(e) \in SUBSET Nat /\ \A i \in Matching(e) : i <= Len(rules)
    BY <1>2 DEF Matching
  <2>3. /\ Matching(e)' \in SUBSET Nat /\ Matching(e) \subseteq Matching(e)'
        /\ \A i \in Matching(e)' : i \in Matching(e) \/ i = Len(rules) + 1
    BY <1>2 DEF Matching
  <2>4. First(Matching(e)') = First(Matching(e))
    BY <1>2, <2>1, <2>2, <2>3, FirstStays
  <2>5. First(Matching(e)) \in Matching(e)
    BY <2>1, <2>2, FirstIsLeast
  <2>6. First(Matching(e)) \in DOMAIN rules
    BY <2>5 DEF Matching
  <2>7. QED
    BY <1>2, <2>1, <2>3, <2>4, <2>6
<1>5. QED
  BY <1>1, <1>3, <1>4 DEF Inv, ConnectorsKnown, WaitersKnown, HoldersKnown, NoEarlyReport,
                          EachConnectionOnce, Connecting, Accepting

\* acceptor::async_accept keeps it: the socket was not used before.
LEMMA AsyncAcceptInv ==
    ASSUME Inv, NEW a \in Acceptor, NEW s \in Socket, async_accept(a, s)
    PROVE  Inv'
<1>1. /\ s \notin DOMAIN wants
      /\ wants' = Extend(wants, s, <<"accept", a>>)
      /\ cbs' = [cbs EXCEPT ![a] = Append(@, s)]
      /\ UNCHANGED <<loop, rules, tcbs, ioq, holds, dropped, abort>>
  BY DEF async_accept, Unused
<1>2. /\ DOMAIN wants' = DOMAIN wants \cup {s} /\ wants'[s] = <<"accept", a>>
      /\ \A x \in DOMAIN wants : wants'[x] = wants[x]
  BY <1>1 DEF Extend
<1>3. /\ cbs \in [Acceptor -> Seq(Socket)] /\ DOMAIN wants \subseteq Socket
      /\ DOMAIN holds \subseteq DOMAIN wants
  BY DEF Inv, TypeOK
<1>4. /\ cbs' \in [Acceptor -> Seq(Socket)]
      /\ \A b \in Acceptor \ {a} : cbs'[b] = cbs[b]
      /\ cbs'[a] = Append(cbs[a], s)
  <2>1. cbs[a] \in Seq(Socket)
    BY <1>3
  <2>2. Append(cbs[a], s) \in Seq(Socket)
    BY <2>1, AppendProperties
  <2>3. QED
    BY <1>1, <1>3, <2>2
<1>5. /\ DOMAIN cbs[a] = 1 .. Len(cbs[a]) /\ Len(cbs[a]) \in Nat
      /\ DOMAIN cbs'[a] = 1 .. Len(cbs[a]) + 1
      /\ \A i \in DOMAIN cbs[a] : cbs'[a][i] = cbs[a][i]
      /\ cbs'[a][Len(cbs[a]) + 1] = s
  BY <1>3, <1>4, AppendProperties, LenProperties
<1>6. TypeOK'
  BY <1>1, <1>2, <1>3, <1>4 DEF Inv, TypeOK
<1>7. WaitersKnown'
  <2>1. s \notin DOMAIN holds
    BY <1>1, <1>3
  <2>2. ASSUME NEW b \in Acceptor \ {a}, NEW i \in DOMAIN cbs'[b]
        PROVE  /\ cbs'[b][i] \in DOMAIN wants'
               /\ wants'[cbs'[b][i]] = <<"accept", b>>
               /\ cbs'[b][i] \notin DOMAIN holds'
               /\ \A j \in DOMAIN cbs'[b] : cbs'[b][i] = cbs'[b][j] => i = j
    BY <1>1, <1>2, <1>4 DEF Inv, WaitersKnown
  <2>3. ASSUME NEW i \in DOMAIN cbs'[a]
        PROVE  /\ cbs'[a][i] \in DOMAIN wants'
               /\ wants'[cbs'[a][i]] = <<"accept", a>>
               /\ cbs'[a][i] \notin DOMAIN holds'
               /\ \A j \in DOMAIN cbs'[a] : cbs'[a][i] = cbs'[a][j] => i = j
    <3>1. \A k \in DOMAIN cbs[a] : /\ cbs[a][k] \in DOMAIN wants
                                  /\ wants[cbs[a][k]] = <<"accept", a>>
                                  /\ cbs[a][k] \notin DOMAIN holds
                                  /\ \A j \in DOMAIN cbs[a] : cbs[a][k] = cbs[a][j] => k = j
      BY DEF Inv, WaitersKnown
    <3>2. \A k \in DOMAIN cbs[a] : cbs[a][k] # s
      BY <1>1, <3>1
    <3>3. \A k \in DOMAIN cbs'[a] : k \in DOMAIN cbs[a] \/ k = Len(cbs[a]) + 1
      BY <1>5
    <3>4. \A j \in DOMAIN cbs'[a] : cbs'[a][i] = cbs'[a][j] => i = j
      BY <1>5, <3>1, <3>2, <3>3
    <3>5. CASE i \in DOMAIN cbs[a]
      <4>1. cbs'[a][i] = cbs[a][i]
        BY <1>5, <3>5
      <4>2. QED
        BY <1>1, <1>2, <3>1, <3>4, <3>5, <4>1
    <3>6. CASE i = Len(cbs[a]) + 1
      <4>1. cbs'[a][i] = s
        BY <1>5, <3>6
      <4>2. QED
        BY <1>1, <1>2, <2>1, <3>4, <4>1
    <3>7. QED
      BY <3>3, <3>5, <3>6
  <2>4. QED
    BY <2>2, <2>3 DEF WaitersKnown
<1>8. HoldersKnown' /\ ConnectorsKnown'
  <2>1. HoldersKnown'
    BY <1>1, <1>2, <1>3 DEF Inv, HoldersKnown, Connecting, Accepting
  <2>2. ConnectorsKnown'
    BY <1>1, <1>2 DEF Inv, ConnectorsKnown, Connecting
  <2>3. QED
    BY <2>1, <2>2
<1>9. NoEarlyReport' /\ FirstRuleOwns' /\ EachConnectionOnce'
  BY <1>1 DEF Inv, NoEarlyReport, FirstRuleOwns, EachConnectionOnce, Matching
<1>10. QED
  BY <1>6, <1>7, <1>8, <1>9 DEF Inv

\* tcp::async_connect keeps it: the TCB is new, or none is made and the program
\* is at its end.
LEMMA AsyncConnectInv ==
    ASSUME Inv, NEW s \in Socket, NEW r \in Remote, async_connect(s, r)
    PROVE  Inv'
<1>1. /\ s \notin DOMAIN wants
      /\ wants' = Extend(wants, s, <<"connect", r>>)
      /\ UNCHANGED <<loop, rules, ioq, cbs, holds, dropped>>
  BY DEF async_connect, Unused
<1>2. /\ DOMAIN wants' = DOMAIN wants \cup {s} /\ wants'[s] = <<"connect", r>>
      /\ \A x \in DOMAIN wants : wants'[x] = wants[x]
  BY <1>1 DEF Extend
<1>3. /\ DOMAIN wants \subseteq Socket /\ DOMAIN holds \subseteq DOMAIN wants
      /\ DOMAIN tcbs \subseteq TwoEnds /\ ioq \in Seq(DOMAIN tcbs) /\ dropped \subseteq DOMAIN tcbs
  BY DEF Inv, TypeOK
<1>4. WaitersKnown'
  BY <1>1, <1>2 DEF Inv, WaitersKnown
<1>5. CASE tcbs' = tcbs /\ abort' = TRUE
  <2>1. TypeOK'
    BY <1>1, <1>2, <1>3, <1>5 DEF Inv, TypeOK
  <2>2. HoldersKnown'
    BY <1>1, <1>2, <1>3, <1>5 DEF Inv, HoldersKnown, Connecting, Accepting
  <2>3. ConnectorsKnown'
    BY <1>1, <1>2, <1>5 DEF Inv, ConnectorsKnown, Connecting
  <2>4. NoEarlyReport' /\ FirstRuleOwns' /\ EachConnectionOnce'
    BY <1>1, <1>5 DEF Inv, NoEarlyReport, FirstRuleOwns, EachConnectionOnce, Matching
  <2>5. QED
    BY <1>4, <2>1, <2>2, <2>3, <2>4 DEF Inv
<1>6. ASSUME NEW p \in Ephemeral, [remote |-> r, port |-> p] \notin DOMAIN tcbs, abort' = abort,
             tcbs' = Extend(tcbs, [remote |-> r, port |-> p],
                            [life |-> Born("SynSent"), cb |-> [connect |-> s]])
      PROVE  Inv'
  <2> DEFINE e == [remote |-> r, port |-> p]
             cb == [connect |-> s]
             new == [life |-> Born("SynSent"), cb |-> cb]
  <2>1. e \in TwoEnds /\ e.remote = r
    BY TcbManagerConstants DEF TwoEnds
  <2>2. cb \in Owner /\ DOMAIN cb = {"connect"} /\ cb.connect = s
    BY DEF Owner
  <2>3. /\ Born("SynSent") \in Life
        /\ Born("SynSent").state = "SynSent" /\ Born("SynSent").notified = FALSE
    BY LifeRecord, Zenon DEF Born, LifeState
  <2> HIDE DEF e, cb
  <2>4. new.life = Born("SynSent") /\ new.cb = cb /\ new \in [life: Life, cb: Owner]
    BY <2>2, <2>3
  <2> HIDE DEF new
  <2>5. e \notin DOMAIN tcbs /\ tcbs' = Extend(tcbs, e, new)
    BY <1>6 DEF e, cb, new
  <2>6. /\ DOMAIN tcbs' = DOMAIN tcbs \cup {e} /\ tcbs'[e] = new
        /\ \A f \in DOMAIN tcbs : tcbs'[f] = tcbs[f]
    BY <2>5 DEF Extend
  <2>7. DOMAIN tcbs' \subseteq TwoEnds /\ \A f \in DOMAIN tcbs' : tcbs'[f] \in [life: Life, cb: Owner]
    BY <1>3, <2>1, <2>4, <2>6 DEF Inv, TypeOK
  <2>8. ioq' \in Seq(DOMAIN tcbs') /\ dropped' \subseteq DOMAIN tcbs'
    BY <1>1, <1>3, <2>6, SeqMonotonic
  <2>9. TypeOK'
    BY <1>1, <1>2, <1>3, <1>6, <2>7, <2>8 DEF Inv, TypeOK
  <2>10. ConnectorsKnown'
    <3>1. /\ Connecting(e)' /\ tcbs'[e].cb.connect = s
          /\ \A f \in DOMAIN tcbs : Connecting(f)' <=> Connecting(f)
      BY <2>2, <2>4, <2>6 DEF Connecting
    <3>2. \A f \in DOMAIN tcbs : Connecting(f) =>
                /\ tcbs[f].cb.connect \in DOMAIN wants
                /\ tcbs[f].cb.connect # s
                /\ wants[tcbs[f].cb.connect] = <<"connect", f.remote>>
      BY <1>1 DEF Inv, ConnectorsKnown
    <3>3. ASSUME NEW f \in DOMAIN tcbs', Connecting(f)'
          PROVE  /\ tcbs'[f].cb.connect \in DOMAIN wants'
                 /\ wants'[tcbs'[f].cb.connect] = <<"connect", f.remote>>
      <4>1. CASE f = e
        BY <1>2, <2>1, <3>1, <4>1
      <4>2. CASE f \in DOMAIN tcbs
        BY <1>2, <2>6, <3>1, <3>2, <3>3, <4>2
      <4>3. QED
        BY <2>6, <4>1, <4>2
    <3>4. ASSUME NEW f \in DOMAIN tcbs', NEW g \in DOMAIN tcbs', Connecting(f)', Connecting(g)',
                 tcbs'[f].cb.connect = tcbs'[g].cb.connect
          PROVE  f = g
      <4>1. CASE f \in DOMAIN tcbs /\ g \in DOMAIN tcbs
        BY <2>6, <3>1, <3>4, <4>1 DEF Inv, ConnectorsKnown
      <4>2. CASE f = e /\ g \in DOMAIN tcbs
        BY <2>6, <3>1, <3>2, <3>4, <4>2
      <4>3. CASE f \in DOMAIN tcbs /\ g = e
        BY <2>6, <3>1, <3>2, <3>4, <4>3
      <4>4. QED
        BY <2>6, <4>1, <4>2, <4>3
    <3>5. QED
      BY <3>3, <3>4 DEF ConnectorsKnown
  <2>11. HoldersKnown'
    BY <1>1, <1>2, <1>3, <2>6 DEF Inv, HoldersKnown, Connecting, Accepting
  <2>12. NoEarlyReport'
    BY <2>3, <2>4, <2>6 DEF Inv, NoEarlyReport
  <2>13. FirstRuleOwns'
    BY <1>1, <2>2, <2>4, <2>6 DEF Inv, FirstRuleOwns, Matching
  <2>14. EachConnectionOnce'
    <3>1. /\ \A i \in DOMAIN ioq : ioq[i] # e
          /\ \A x \in DOMAIN holds : holds[x] # e
          /\ e \notin dropped
      <4>1. \A i \in DOMAIN ioq : ioq[i] \in DOMAIN tcbs
        BY <1>3, ElementOfSeq, LenProperties
      <4>2. QED
        BY <1>3, <2>5, <4>1 DEF Inv, HoldersKnown
    <3>2. ~tcbs'[e].life.notified
      BY <2>3, <2>4, <2>6
    <3>3. QED
      BY <1>1, <2>6, <3>1, <3>2 DEF Inv, EachConnectionOnce
  <2>15. QED
    BY <1>4, <2>9, <2>10, <2>11, <2>12, <2>13, <2>14 DEF Inv
<1>7. QED
  BY <1>5, <1>6 DEF async_connect

\* The two ends of a connection that waits to be reported, is held or dropped.
Waits(e) == \E i \in DOMAIN ioq : ioq[i] = e
IsHeld(e) == \E s \in DOMAIN holds : holds[s] = e

\* A segment that is taken by its TCB or creates one.
LEMMA ProcessInv ==
    ASSUME Inv, NEW e \in TwoEnds, process(e)
    PROVE  Inv'
<1> DEFINE lk == lookup(e)
<1>1. PICK l \in Successors(lk.life) \cup {lk.life} :
        /\ tcbs' = Extend(tcbs, e, [lk EXCEPT !.life = l])
        /\ ioq' = IF l.notified /\ ~lk.life.notified THEN Append(ioq, e) ELSE ioq
  BY DEF process
<1>2. /\ e \in DOMAIN tcbs \/ Matching(e) # {}
      /\ UNCHANGED <<loop, rules, cbs, wants, holds, dropped, abort>>
  BY DEF process
<1>3. /\ ioq \in Seq(DOMAIN tcbs) /\ dropped \subseteq DOMAIN tcbs /\ rules \in Seq(Acceptor)
      /\ \A i \in DOMAIN ioq : ioq[i] \in DOMAIN tcbs
      /\ \A s \in DOMAIN holds : holds[s] \in DOMAIN tcbs
  <2>1. ioq \in Seq(DOMAIN tcbs) /\ dropped \subseteq DOMAIN tcbs /\ rules \in Seq(Acceptor)
    BY DEF Inv, TypeOK
  <2>2. QED
    BY <2>1, ElementOfSeq, LenProperties DEF Inv, HoldersKnown
<1>4. /\ lk \in [life: Life, cb: Owner]
      /\ lk.life.state \in {"Listen", "SynSent", "SynReceived"} => ~lk.life.notified
      /\ e \in DOMAIN tcbs => lk = tcbs[e]
      /\ e \notin DOMAIN tcbs => ~lk.life.notified /\ DOMAIN lk.cb = {"accept"}
      /\ "accept" \in DOMAIN lk.cb => /\ Matching(e) # {}
                                     /\ lk.cb.accept = rules[First(Matching(e))]
  <2>1. CASE e \in DOMAIN tcbs
    <3>1. lk = tcbs[e]
      BY <2>1 DEF lookup
    <3> HIDE DEF lk
    <3>2. QED
      BY <2>1, <3>1 DEF Inv, TypeOK, NoEarlyReport, FirstRuleOwns
  <2>2. CASE e \notin DOMAIN tcbs
    <3> DEFINE a == rules[First(Matching(e))]
               cb == [accept |-> a]
    <3>1. Matching(e) # {} /\ lk = [life |-> Born("Listen"), cb |-> cb]
      BY <1>2, <2>2 DEF lookup
    <3>2. First(Matching(e)) \in Matching(e)
      <4>1. Matching(e) \in SUBSET Nat
        BY <1>3, LenProperties DEF Matching
      <4>2. QED
        BY <3>1, <4>1, FirstIsLeast
    <3>3. a \in Acceptor
      BY <1>3, <3>2, LenProperties, ElementOfSeq DEF Matching
    <3>4. /\ Born("Listen") \in Life
          /\ Born("Listen").state = "Listen" /\ Born("Listen").notified = FALSE
      BY LifeRecord, Zenon DEF Born, LifeState
    <3> HIDE DEF a, lk
    <3>5. cb \in Owner /\ DOMAIN cb = {"accept"} /\ cb.accept = a
      BY <3>3 DEF Owner
    <3> HIDE DEF cb
    <3>6. lk \in [life: Life, cb: Owner] /\ lk.life = Born("Listen") /\ lk.cb = cb
      BY <3>1, <3>4, <3>5
    <3>7. QED
      BY <2>2, <3>1, <3>4, <3>5, <3>6 DEF a
  <2>3. QED
    BY <2>1, <2>2
<1> HIDE DEF lk
<1> DEFINE new == [lk EXCEPT !.life = l]
<1>5. /\ l \in Life
      /\ l.state \in {"Listen", "SynSent", "SynReceived"} => ~l.notified
      /\ lk.life.notified => l.notified
  <2>1. lk.life \in Life
    BY <1>4
  <2>2. QED
    BY <1>4, <2>1, LifeGoesOn
<1>6. new \in [life: Life, cb: Owner] /\ new.life = l /\ new.cb = lk.cb
  BY <1>4, <1>5
<1> HIDE DEF new
<1>7. tcbs' = Extend(tcbs, e, new)
  BY <1>1 DEF new
<1>8. /\ DOMAIN tcbs' = DOMAIN tcbs \cup {e} /\ tcbs'[e] = new
      /\ \A f \in DOMAIN tcbs : f # e => tcbs'[f] = tcbs[f]
  BY <1>7 DEF Extend
<1>9. /\ \A f \in DOMAIN tcbs : tcbs'[f].cb = tcbs[f].cb
      /\ e \notin DOMAIN tcbs => DOMAIN tcbs'[e].cb = {"accept"}
  BY <1>4, <1>6, <1>8
<1>10. TypeOK'
  <2>1. DOMAIN tcbs' \subseteq TwoEnds /\ \A f \in DOMAIN tcbs' : tcbs'[f] \in [life: Life, cb: Owner]
    BY <1>6, <1>8 DEF Inv, TypeOK
  <2>2. ioq' \in Seq(DOMAIN tcbs')
    <3>1. ioq \in Seq(DOMAIN tcbs') /\ e \in DOMAIN tcbs'
      BY <1>3, <1>8, SeqMonotonic
    <3>2. QED
      BY <1>1, <3>1, AppendProperties
  <2>3. QED
    BY <1>2, <1>8, <2>1, <2>2 DEF Inv, TypeOK
<1>11. ConnectorsKnown'
  <2>1. \A f \in DOMAIN tcbs' : Connecting(f)' =>
            f \in DOMAIN tcbs /\ Connecting(f) /\ tcbs'[f].cb.connect = tcbs[f].cb.connect
    BY <1>8, <1>9 DEF Connecting
  <2>2. QED
    BY <1>2, <2>1 DEF Inv, ConnectorsKnown
<1>12. HoldersKnown' /\ WaitersKnown'
  <2>1. \A f \in DOMAIN tcbs : (Connecting(f)' <=> Connecting(f)) /\ (Accepting(f)' <=> Accepting(f))
    BY <1>9 DEF Connecting, Accepting
  <2>2. QED
    BY <1>2, <1>8, <1>9, <2>1 DEF Inv, HoldersKnown, WaitersKnown
<1>13. NoEarlyReport'
  BY <1>5, <1>6, <1>8 DEF Inv, NoEarlyReport
<1>14. FirstRuleOwns'
  <2>1. \A f \in DOMAIN tcbs' : Matching(f)' = Matching(f)
    BY <1>2 DEF Matching
  <2>2. ASSUME NEW f \in DOMAIN tcbs', "accept" \in DOMAIN tcbs'[f].cb
        PROVE  Matching(f) # {} /\ tcbs'[f].cb.accept = rules[First(Matching(f))]
    <3>1. CASE f = e
      BY <1>4, <1>6, <1>8, <2>2, <3>1
    <3>2. CASE f # e
      BY <1>8, <2>2, <3>2 DEF Inv, FirstRuleOwns
    <3>3. QED
      BY <3>1, <3>2
  <2>3. QED
    BY <1>2, <2>1, <2>2 DEF FirstRuleOwns
<1>15. EachConnectionOnce'
  <2>1. /\ lk.life.notified <=> Waits(e) \/ IsHeld(e) \/ e \in dropped
        /\ ~(Waits(e) /\ IsHeld(e)) /\ ~(Waits(e) /\ e \in dropped) /\ ~(IsHeld(e) /\ e \in dropped)
    BY <1>3, <1>4 DEF Inv, EachConnectionOnce, Waits, IsHeld
  <2>2. \A f \in DOMAIN tcbs :
            /\ tcbs[f].life.notified <=> Waits(f) \/ IsHeld(f) \/ f \in dropped
            /\ ~(Waits(f) /\ IsHeld(f)) /\ ~(Waits(f) /\ f \in dropped) /\ ~(IsHeld(f) /\ f \in dropped)
    BY DEF Inv, EachConnectionOnce, Waits, IsHeld
  <2>3. \A f : IsHeld(f)' <=> IsHeld(f)
    BY <1>2 DEF IsHeld
  <2>4. /\ \A i, j \in DOMAIN ioq' : ioq'[i] = ioq'[j] => i = j
        /\ \A f \in DOMAIN tcbs : f # e => (Waits(f)' <=> Waits(f))
        /\ Waits(e)' <=> Waits(e) \/ (l.notified /\ ~lk.life.notified)
    <3>1. \A i, j \in DOMAIN ioq : ioq[i] = ioq[j] => i = j
      BY DEF Inv, EachConnectionOnce
    <3>2. CASE l.notified /\ ~lk.life.notified
      <4>1. ioq' = Append(ioq, e)
        BY <1>1, <3>2
      <4>2. /\ DOMAIN ioq' = 1 .. Len(ioq) + 1 /\ DOMAIN ioq = 1 .. Len(ioq) /\ Len(ioq) \in Nat
            /\ \A i \in DOMAIN ioq : ioq'[i] = ioq[i]
            /\ ioq'[Len(ioq) + 1] = e
        <5>1. ioq \in Seq(TwoEnds)
          BY <1>3, SeqMonotonic DEF Inv, TypeOK
        <5>2. QED
          BY <4>1, <5>1, AppendProperties, LenProperties
      <4>3. \A i \in DOMAIN ioq : ioq[i] # e
        BY <2>1, <3>2 DEF Waits
      <4>4. \A i, j \in DOMAIN ioq' : ioq'[i] = ioq'[j] => i = j
        BY <3>1, <4>2, <4>3
      <4>5. \A f \in DOMAIN tcbs : f # e => (Waits(f)' <=> Waits(f))
        BY <4>2 DEF Waits
      <4>6. Waits(e)'
        BY <4>2 DEF Waits
      <4>7. QED
        BY <3>2, <4>4, <4>5, <4>6
    <3>3. CASE ~(l.notified /\ ~lk.life.notified)
      BY <1>1, <3>1, <3>3 DEF Waits
    <3>4. QED
      BY <3>2, <3>3
  <2>5. ASSUME NEW f \in DOMAIN tcbs'
        PROVE  /\ tcbs'[f].life.notified <=> Waits(f)' \/ IsHeld(f)' \/ f \in dropped'
               /\ ~(Waits(f)' /\ IsHeld(f)') /\ ~(Waits(f)' /\ f \in dropped')
               /\ ~(IsHeld(f)' /\ f \in dropped')
    <3>1. CASE f = e
      <4>1. tcbs'[f].life.notified <=> l.notified
        BY <1>6, <1>8, <3>1
      <4>2. QED
        BY <1>2, <1>5, <2>1, <2>3, <2>4, <3>1, <4>1
    <3>2. CASE f # e
      BY <1>2, <1>8, <2>2, <2>3, <2>4, <3>2
    <3>3. QED
      BY <3>1, <3>2
  <2>6. \A s, t \in DOMAIN holds' : holds'[s] = holds'[t] => s = t
    BY <1>2 DEF Inv, EachConnectionOnce
  <2>7. QED
    BY <2>4, <2>5, <2>6 DEF EachConnectionOnce, Waits, IsHeld
<1>16. QED
  BY <1>10, <1>11, <1>12, <1>13, <1>14, <1>15 DEF Inv

\* The report at the front of ioq runs: its connection no longer waits, and was
\* neither held nor dropped.
LEMMA FrontGone ==
    ASSUME Inv, ioq # <<>>, ioq' = Tail(ioq)
    PROVE  /\ Head(ioq) \in DOMAIN tcbs /\ ioq' \in Seq(DOMAIN tcbs)
           /\ Waits(Head(ioq)) /\ ~IsHeld(Head(ioq)) /\ Head(ioq) \notin dropped
           /\ \A f \in DOMAIN tcbs : Waits(f)' <=> Waits(f) /\ f # Head(ioq)
           /\ \A i, j \in DOMAIN ioq' : ioq'[i] = ioq'[j] => i = j
<1> DEFINE e == Head(ioq)
<1>1. /\ ioq \in Seq(DOMAIN tcbs) /\ e \in DOMAIN tcbs /\ ioq' \in Seq(DOMAIN tcbs)
      /\ Len(ioq) \in Nat \ {0} /\ DOMAIN ioq = 1 .. Len(ioq) /\ DOMAIN ioq' = 1 .. Len(ioq) - 1
      /\ e = ioq[1] /\ \A i \in DOMAIN ioq' : ioq'[i] = ioq[i + 1]
  <2>1. ioq \in Seq(DOMAIN tcbs)
    BY DEF Inv, TypeOK
  <2>2. QED
    BY <2>1, HeadTailProperties, LenProperties, EmptySeq
<1> HIDE DEF e
<1>2. \A i, j \in DOMAIN ioq : ioq[i] = ioq[j] => i = j
  BY DEF Inv, EachConnectionOnce
<1>3. Waits(e) /\ ~IsHeld(e) /\ e \notin dropped
  <2>1. Waits(e)
    BY <1>1 DEF Waits
  <2>2. QED
    BY <1>1, <2>1 DEF Inv, EachConnectionOnce, Waits, IsHeld
<1>4. \A i \in DOMAIN ioq' : i + 1 \in DOMAIN ioq /\ i + 1 # 1
  BY <1>1
<1>5. \A i \in DOMAIN ioq : i # 1 => i - 1 \in DOMAIN ioq' /\ ioq'[i - 1] = ioq[i]
  BY <1>1
<1>6. 1 \in DOMAIN ioq
  BY <1>1
<1>7. ASSUME NEW i \in DOMAIN ioq', NEW j \in DOMAIN ioq', ioq'[i] = ioq'[j]
      PROVE  i = j
  <2>1. ioq[i + 1] = ioq[j + 1]
    BY <1>1, <1>7
  <2>2. i + 1 = j + 1
    BY <1>2, <1>4, <2>1
  <2>3. QED
    BY <1>1, <2>2
<1>8. ASSUME NEW f \in DOMAIN tcbs, Waits(f)' PROVE Waits(f) /\ f # e
  <2>1. PICK i \in DOMAIN ioq' : ioq'[i] = f
    BY <1>8 DEF Waits
  <2>2. ioq[i + 1] = f
    BY <1>1, <2>1
  <2>3. QED
    BY <1>1, <1>2, <1>4, <1>6, <2>2 DEF Waits
<1>9. ASSUME NEW f \in DOMAIN tcbs, Waits(f), f # e PROVE Waits(f)'
  <2>1. PICK i \in DOMAIN ioq : ioq[i] = f
    BY <1>9 DEF Waits
  <2>2. i # 1
    BY <1>1, <1>9, <2>1
  <2>3. QED
    BY <1>5, <2>1, <2>2 DEF Waits
<1>10. QED
  BY <1>1, <1>3, <1>7, <1>8, <1>9 DEF e

\* The socket s, which holds nothing yet, takes the connection at the front of
\* ioq: what becomes of HoldersKnown and EachConnectionOnce.
LEMMA TakeFront ==
    ASSUME Inv, ioq # <<>>, NEW s, s \notin DOMAIN holds,
           holds' = Extend(holds, s, Head(ioq)), ioq' = Tail(ioq), UNCHANGED <<tcbs, dropped>>,
           \A x \in DOMAIN holds : wants'[x] = wants[x],
           \/ Connecting(Head(ioq)) /\ tcbs[Head(ioq)].cb.connect = s
           \/ Accepting(Head(ioq)) /\ wants'[s] = <<"accept", tcbs[Head(ioq)].cb.accept>>
    PROVE  HoldersKnown' /\ EachConnectionOnce' /\ DOMAIN holds' = DOMAIN holds \cup {s}
<1> DEFINE e == Head(ioq)
<1>1. /\ e \in DOMAIN tcbs /\ Waits(e) /\ ~IsHeld(e) /\ e \notin dropped
      /\ \A f \in DOMAIN tcbs : Waits(f)' <=> Waits(f) /\ f # e
      /\ \A i, j \in DOMAIN ioq' : ioq'[i] = ioq'[j] => i = j
  BY FrontGone
<1> HIDE DEF e
<1>2. /\ DOMAIN holds' = DOMAIN holds \cup {s} /\ holds'[s] = e
      /\ \A x \in DOMAIN holds : holds'[x] = holds[x]
  BY DEF Extend, e
<1>3. \A f \in DOMAIN tcbs :
        /\ tcbs[f].life.notified <=> Waits(f) \/ IsHeld(f) \/ f \in dropped
        /\ ~(Waits(f) /\ IsHeld(f)) /\ ~(Waits(f) /\ f \in dropped) /\ ~(IsHeld(f) /\ f \in dropped)
  BY DEF Inv, EachConnectionOnce, Waits, IsHeld
<1>4. \A f \in DOMAIN tcbs : IsHeld(f)' <=> IsHeld(f) \/ f = e
  BY <1>2 DEF IsHeld
<1>5. \A x, y \in DOMAIN holds' : holds'[x] = holds'[y] => x = y
  <2>1. \A x \in DOMAIN holds : holds[x] # e
    BY <1>1 DEF IsHeld
  <2>2. \A x, y \in DOMAIN holds : holds[x] = holds[y] => x = y
    BY DEF Inv, EachConnectionOnce
  <2>3. QED
    BY <1>2, <2>1, <2>2
<1>6. EachConnectionOnce'
  <2>1. \A f \in DOMAIN tcbs' :
        /\ tcbs'[f].life.notified <=> Waits(f)' \/ IsHeld(f)' \/ f \in dropped'
        /\ ~(Waits(f)' /\ IsHeld(f)') /\ ~(Waits(f)' /\ f \in dropped') /\ ~(IsHeld(f)' /\ f \in dropped')
    BY <1>1, <1>3, <1>4
  <2>2. QED
    BY <1>1, <1>5, <2>1 DEF EachConnectionOnce, Waits, IsHeld
<1>7. HoldersKnown'
  <2>1. \A f \in DOMAIN tcbs : (Connecting(f)' <=> Connecting(f)) /\ (Accepting(f)' <=> Accepting(f))
    BY DEF Connecting, Accepting
  <2>2. ASSUME NEW x \in DOMAIN holds'
        PROVE  /\ holds'[x] \in DOMAIN tcbs
               /\ \/ Connecting(holds'[x]) /\ tcbs[holds'[x]].cb.connect = x
                  \/ Accepting(holds'[x]) /\ wants'[x] = <<"accept", tcbs[holds'[x]].cb.accept>>
    <3>1. CASE x = s
      BY <1>1, <1>2, <3>1 DEF e
    <3>2. CASE x \in DOMAIN holds
      BY <1>2, <3>2 DEF Inv, HoldersKnown
    <3>3. QED
      BY <1>2, <3>1, <3>2
  <2>3. QED
    BY <2>1, <2>2 DEF HoldersKnown
<1>8. QED
  BY <1>2, <1>6, <1>7

\* What acceptor a has in cbs_ after the callback: its first socket s holds a
\* connection now, and t may wait in addition.
LEMMA AcceptedWaiters ==
    ASSUME Inv, NEW a \in Acceptor, cbs[a] # <<>>,
           DOMAIN holds' = DOMAIN holds \cup {Head(cbs[a])},
           \/ wants' = wants /\ cbs' = [cbs EXCEPT ![a] = Tail(@)]
           \/ \E t \in Unused : /\ wants' = Extend(wants, t, <<"accept", a>>)
                                /\ cbs' = [cbs EXCEPT ![a] = Append(Tail(@), t)]
    PROVE  /\ cbs' \in [Acceptor -> Seq(Socket)] /\ WaitersKnown'
           /\ DOMAIN wants \subseteq DOMAIN wants' /\ DOMAIN wants' \subseteq Socket
           /\ \A x \in DOMAIN wants : wants'[x] = wants[x]
           /\ \A x \in DOMAIN wants' : x \notin DOMAIN wants => wants'[x][1] = "accept"
<1> DEFINE s == Head(cbs[a])
           q == Tail(cbs[a])
<1>1. /\ cbs \in [Acceptor -> Seq(Socket)] /\ DOMAIN wants \subseteq Socket
      /\ DOMAIN holds \subseteq DOMAIN wants
  BY DEF Inv, TypeOK
<1>2. /\ q \in Seq(Socket) /\ s = cbs[a][1] /\ 1 \in DOMAIN cbs[a]
      /\ DOMAIN cbs[a] = 1 .. Len(cbs[a]) /\ DOMAIN q = 1 .. Len(q) /\ Len(q) \in Nat
      /\ Len(q) = Len(cbs[a]) - 1
      /\ \A i \in DOMAIN q : q[i] = cbs[a][i + 1]
  <2>1. cbs[a] \in Seq(Socket)
    BY <1>1
  <2>2. QED
    BY <2>1, HeadTailProperties, LenProperties, EmptySeq
<1> HIDE DEF s, q
<1>3. \A b \in Acceptor : \A i \in DOMAIN cbs[b] :
        /\ cbs[b][i] \in DOMAIN wants /\ wants[cbs[b][i]] = <<"accept", b>>
        /\ cbs[b][i] \notin DOMAIN holds
        /\ \A j \in DOMAIN cbs[b] : cbs[b][i] = cbs[b][j] => i = j
  BY DEF Inv, WaitersKnown
<1>4. \A i \in DOMAIN q : /\ q[i] \in DOMAIN wants /\ wants[q[i]] = <<"accept", a>>
                          /\ q[i] \notin DOMAIN holds /\ q[i] # s
                          /\ \A j \in DOMAIN q : q[i] = q[j] => i = j
  <2>1. \A i \in DOMAIN q : i + 1 \in DOMAIN cbs[a] /\ i + 1 # 1
    BY <1>2
  <2>2. ASSUME NEW i \in DOMAIN q, NEW j \in DOMAIN q, q[i] = q[j] PROVE i = j
    <3>1. i + 1 = j + 1
      BY <1>2, <1>3, <2>1, <2>2
    <3>2. QED
      BY <1>2, <3>1
  <2>3. \A i \in DOMAIN q : q[i] # s
    BY <1>2, <1>3, <2>1
  <2>4. QED
    BY <1>2, <1>3, <2>1, <2>2, <2>3
<1>5. \A b \in Acceptor \ {a} : \A i \in DOMAIN cbs[b] : cbs[b][i] # s
  <2> SUFFICES ASSUME NEW b \in Acceptor, b # a, NEW i \in DOMAIN cbs[b], cbs[b][i] = s
               PROVE  FALSE
    OBVIOUS
  <2>1. wants[s] = <<"accept", a>> /\ wants[s] = <<"accept", b>>
    BY <1>2, <1>3
  <2>2. QED
    BY <2>1
<1>6. CASE wants' = wants /\ cbs' = [cbs EXCEPT ![a] = Tail(@)]
  <2>1. cbs' \in [Acceptor -> Seq(Socket)] /\ cbs'[a] = q /\ \A b \in Acceptor \ {a} : cbs'[b] = cbs[b]
    BY <1>1, <1>2, <1>6 DEF q
  <2>2. ASSUME NEW b \in Acceptor, NEW i \in DOMAIN cbs'[b]
        PROVE  /\ cbs'[b][i] \in DOMAIN wants' /\ wants'[cbs'[b][i]] = <<"accept", b>>
               /\ cbs'[b][i] \notin DOMAIN holds'
               /\ \A j \in DOMAIN cbs'[b] : cbs'[b][i] = cbs'[b][j] => i = j
    <3>1. CASE b = a
      BY <1>4, <1>6, <2>1, <3>1 DEF s
    <3>2. CASE b # a
      BY <1>3, <1>5, <1>6, <2>1, <3>2 DEF s
    <3>3. QED
      BY <3>1, <3>2
  <2>3. WaitersKnown'
    BY <2>2 DEF WaitersKnown
  <2>4. QED
    BY <1>1, <1>6, <2>1, <2>3
<1>7. ASSUME NEW t \in Unused, wants' = Extend(wants, t, <<"accept", a>>),
             cbs' = [cbs EXCEPT ![a] = Append(Tail(@), t)]
      PROVE  /\ cbs' \in [Acceptor -> Seq(Socket)] /\ WaitersKnown'
             /\ DOMAIN wants \subseteq DOMAIN wants' /\ DOMAIN wants' \subseteq Socket
             /\ \A x \in DOMAIN wants : wants'[x] = wants[x]
             /\ \A x \in DOMAIN wants' : x \notin DOMAIN wants => wants'[x][1] = "accept"
  <2>1. t \in Socket /\ t \notin DOMAIN wants
    BY DEF Unused
  <2>2. /\ DOMAIN wants' = DOMAIN wants \cup {t} /\ wants'[t] = <<"accept", a>>
        /\ \A x \in DOMAIN wants : wants'[x] = wants[x]
    BY <1>7, <2>1 DEF Extend
  <2> DEFINE r == Append(q, t)
  <2>3. /\ r \in Seq(Socket) /\ DOMAIN r = 1 .. Len(q) + 1
        /\ \A i \in DOMAIN q : r[i] = q[i]
        /\ r[Len(q) + 1] = t
    BY <1>2, <2>1, AppendProperties, LenProperties
  <2> HIDE DEF r
  <2>4. cbs' \in [Acceptor -> Seq(Socket)] /\ cbs'[a] = r /\ \A b \in Acceptor \ {a} : cbs'[b] = cbs[b]
    BY <1>1, <1>7, <2>3 DEF q, r
  <2>5. t # s /\ t \notin DOMAIN holds
    BY <1>1, <1>2, <1>3, <2>1
  <2>6. \A i \in DOMAIN r : i \in DOMAIN q \/ i = Len(q) + 1
    BY <1>2, <2>3
  <2>7. ASSUME NEW i \in DOMAIN r
        PROVE  /\ r[i] \in DOMAIN wants' /\ wants'[r[i]] = <<"accept", a>>
               /\ r[i] \notin DOMAIN holds /\ r[i] # s
               /\ \A j \in DOMAIN r : r[i] = r[j] => i = j
    <3>1. \A j \in DOMAIN r : r[i] = r[j] => i = j
      BY <1>2, <1>4, <2>1, <2>3, <2>6
    <3>2. CASE i \in DOMAIN q
      <4>1. r[i] = q[i]
        BY <2>3, <3>2
      <4>2. QED
        BY <1>4, <2>2, <3>1, <3>2, <4>1
    <3>3. CASE i = Len(q) + 1
      <4>1. r[i] = t
        BY <2>3, <3>3
      <4>2. QED
        BY <2>2, <2>5, <3>1, <4>1
    <3>4. QED
      BY <2>6, <3>2, <3>3
  <2>8. ASSUME NEW b \in Acceptor, NEW i \in DOMAIN cbs'[b]
        PROVE  /\ cbs'[b][i] \in DOMAIN wants' /\ wants'[cbs'[b][i]] = <<"accept", b>>
               /\ cbs'[b][i] \notin DOMAIN holds'
               /\ \A j \in DOMAIN cbs'[b] : cbs'[b][i] = cbs'[b][j] => i = j
    <3>1. CASE b = a
      BY <2>4, <2>7, <3>1 DEF s
    <3>2. CASE b # a
      BY <1>3, <1>5, <2>2, <2>4, <3>2 DEF s
    <3>3. QED
      BY <3>1, <3>2
  <2>9. WaitersKnown'
    BY <2>8 DEF WaitersKnown
  <2>10. QED
    BY <1>1, <2>1, <2>2, <2>4, <2>9
<1>8. QED
  BY <1>6, <1>7

\* The posted callback keeps it: what it serves is the TCB it was posted for.
LEMMA RunEstablishedInv ==
    ASSUME Inv, RunEstablished
    PROVE  Inv'
<1> DEFINE e == Head(ioq)
           cb == tcbs[e].cb
<1>1. /\ ioq # <<>> /\ ioq' = Tail(ioq) /\ UNCHANGED <<loop, rules, tcbs, abort>>
      /\ \/ /\ "connect" \in DOMAIN cb
            /\ holds' = Extend(holds, cb.connect, e) /\ UNCHANGED <<cbs, wants, dropped>>
         \/ "accept" \in DOMAIN cb /\ cbs[cb.accept] # <<>> /\ accepted(cb.accept, e)
         \/ /\ "accept" \in DOMAIN cb /\ cbs[cb.accept] = <<>>
            /\ dropped' = dropped \cup {e} /\ UNCHANGED <<cbs, wants, holds>>
  BY DEF RunEstablished
<1>2. /\ e \in DOMAIN tcbs /\ ioq' \in Seq(DOMAIN tcbs) /\ Waits(e) /\ ~IsHeld(e)
      /\ \A f \in DOMAIN tcbs : Waits(f)' <=> Waits(f) /\ f # e
      /\ \A i, j \in DOMAIN ioq' : ioq'[i] = ioq'[j] => i = j
  BY <1>1, FrontGone
<1> HIDE DEF e, cb
<1>3. \/ DOMAIN cb = {"accept"} /\ cb.accept \in Acceptor
      \/ DOMAIN cb = {"connect"} /\ cb.connect \in Socket
  <2>1. cb \in Owner
    BY <1>2 DEF cb, Inv, TypeOK
  <2>2. QED
    BY <2>1, OwnerIs
<1>4. NoEarlyReport' /\ FirstRuleOwns'
  BY <1>1 DEF Inv, NoEarlyReport, FirstRuleOwns, Matching
<1>5. CASE DOMAIN cb = {"connect"}
  <2>1. holds' = Extend(holds, cb.connect, e) /\ UNCHANGED <<cbs, wants, dropped>>
    BY <1>1, <1>5
  <2>2. cb.connect \in DOMAIN wants /\ wants[cb.connect] = <<"connect", e.remote>>
    BY <1>2, <1>5 DEF Inv, ConnectorsKnown, Connecting, cb
  <2>3. cb.connect \notin DOMAIN holds
    <3> SUFFICES ASSUME cb.connect \in DOMAIN holds PROVE FALSE
      OBVIOUS
    <3> DEFINE f == holds[cb.connect]
    <3>1. f \in DOMAIN tcbs /\ Connecting(f) /\ tcbs[f].cb.connect = cb.connect
      BY <2>2 DEF Inv, HoldersKnown
    <3>2. f = e
      BY <1>2, <1>5, <3>1 DEF Inv, ConnectorsKnown, Connecting, cb
    <3>3. QED
      BY <1>2, <3>2 DEF IsHeld
  <2>4. HoldersKnown' /\ EachConnectionOnce' /\ DOMAIN holds' = DOMAIN holds \cup {cb.connect}
    <3>1. Connecting(Head(ioq)) /\ tcbs[Head(ioq)].cb.connect = cb.connect
      BY <1>5 DEF Connecting, cb, e
    <3>2. holds' = Extend(holds, cb.connect, Head(ioq))
      BY <2>1 DEF e
    <3>3. UNCHANGED <<tcbs, dropped>> /\ \A x \in DOMAIN holds : wants'[x] = wants[x]
      BY <1>1, <2>1
    <3>4. QED
      BY <1>1, <2>3, <3>1, <3>2, <3>3, TakeFront
  <2>5. TypeOK'
    BY <1>1, <1>2, <2>1, <2>2, <2>4 DEF Inv, TypeOK
  <2>6. WaitersKnown'
    <3>1. \A a \in Acceptor : \A i \in DOMAIN cbs[a] : cbs[a][i] # cb.connect
      BY <2>2 DEF Inv, WaitersKnown
    <3>2. QED
      BY <2>1, <2>4, <3>1 DEF Inv, WaitersKnown
  <2>7. ConnectorsKnown'
    BY <1>1, <2>1 DEF Inv, ConnectorsKnown, Connecting
  <2>8. QED
    BY <1>4, <2>4, <2>5, <2>6, <2>7 DEF Inv
<1>6. CASE DOMAIN cb = {"accept"} /\ cbs[cb.accept] # <<>>
  <2> DEFINE a == cb.accept
             s == Head(cbs[a])
  <2>1. a \in Acceptor
    BY <1>3, <1>6
  <2>2. accepted(a, e)
    BY <1>1, <1>6
  <2>3. s = cbs[a][1] /\ 1 \in DOMAIN cbs[a]
    <3>1. cbs[a] \in Seq(Socket) /\ cbs[a] # <<>>
      BY <1>6, <2>1 DEF Inv, TypeOK
    <3>2. QED
      BY <3>1, HeadTailProperties, LenProperties, EmptySeq
  <2> HIDE DEF a
  <2>4. s \in DOMAIN wants /\ wants[s] = <<"accept", a>> /\ s \notin DOMAIN holds
    BY <2>1, <2>3 DEF Inv, WaitersKnown
  <2>5. /\ holds' = Extend(holds, s, e) /\ dropped' = dropped
        /\ \/ wants' = wants /\ cbs' = [cbs EXCEPT ![a] = Tail(@)]
           \/ \E t \in Unused : /\ wants' = Extend(wants, t, <<"accept", a>>)
                                /\ cbs' = [cbs EXCEPT ![a] = Append(Tail(@), t)]
    BY <2>2 DEF accepted
  <2>6. DOMAIN holds' = DOMAIN holds \cup {s}
    BY <2>5 DEF Extend
  <2>7. /\ cbs' \in [Acceptor -> Seq(Socket)] /\ WaitersKnown'
        /\ DOMAIN wants \subseteq DOMAIN wants' /\ DOMAIN wants' \subseteq Socket
        /\ \A x \in DOMAIN wants : wants'[x] = wants[x]
    <3>1. cbs[a] # <<>>
      BY <1>6 DEF a
    <3>2. QED
      BY <2>1, <2>5, <2>6, <3>1, AcceptedWaiters
  <2> HIDE DEF s
  <2>8. HoldersKnown' /\ EachConnectionOnce'
    <3>1. Accepting(Head(ioq)) /\ tcbs[Head(ioq)].cb.accept = a
      BY <1>6 DEF Accepting, a, cb, e
    <3>2. wants'[s] = <<"accept", tcbs[Head(ioq)].cb.accept>>
      BY <2>4, <2>7, <3>1
    <3>3. holds' = Extend(holds, s, Head(ioq))
      BY <2>5 DEF e
    <3>4. UNCHANGED <<tcbs, dropped>> /\ \A x \in DOMAIN holds : wants'[x] = wants[x]
      BY <1>1, <2>5, <2>7 DEF Inv, TypeOK
    <3>5. QED
      BY <1>1, <2>4, <3>1, <3>2, <3>3, <3>4, TakeFront
  <2>9. TypeOK'
    BY <1>1, <1>2, <2>4, <2>5, <2>6, <2>7 DEF Inv, TypeOK
  <2>10. ConnectorsKnown'
    BY <1>1, <2>7 DEF Inv, ConnectorsKnown, Connecting
  <2>11. QED
    BY <1>4, <2>7, <2>8, <2>9, <2>10 DEF Inv
<1>7. CASE DOMAIN cb = {"accept"} /\ cbs[cb.accept] = <<>>
  <2>1. dropped' = dropped \cup {e} /\ UNCHANGED <<cbs, wants, holds>>
    BY <1>1, <1>7
  <2>2. TypeOK'
    BY <1>1, <1>2, <2>1 DEF Inv, TypeOK
  <2>3. ConnectorsKnown' /\ WaitersKnown' /\ HoldersKnown'
    BY <1>1, <2>1 DEF Inv, ConnectorsKnown, WaitersKnown, HoldersKnown, Connecting, Accepting
  <2>4. EachConnectionOnce'
    <3>1. \A f \in DOMAIN tcbs :
            /\ tcbs[f].life.notified <=> Waits(f) \/ IsHeld(f) \/ f \in dropped
            /\ ~(Waits(f) /\ IsHeld(f)) /\ ~(Waits(f) /\ f \in dropped) /\ ~(IsHeld(f) /\ f \in dropped)
      BY DEF Inv, EachConnectionOnce, Waits, IsHeld
    <3>2. \A f \in DOMAIN tcbs : IsHeld(f)' <=> IsHeld(f)
      BY <2>1 DEF IsHeld
    <3>3. \A f \in DOMAIN tcbs' :
            /\ tcbs'[f].life.notified <=> Waits(f)' \/ IsHeld(f)' \/ f \in dropped'
            /\ ~(Waits(f)' /\ IsHeld(f)') /\ ~(Waits(f)' /\ f \in dropped') /\ ~(IsHeld(f)' /\ f \in dropped')
      BY <1>1, <1>2, <2>1, <3>1, <3>2
    <3>4. \A s, t \in DOMAIN holds' : holds'[s] = holds'[t] => s = t
      BY <2>1 DEF Inv, EachConnectionOnce
    <3>5. QED
      BY <1>2, <3>3, <3>4 DEF EachConnectionOnce, Waits, IsHeld
  <2>5. QED
    BY <1>4, <2>2, <2>3, <2>4 DEF Inv
<1>8. QED
  BY <1>3, <1>5, <1>6, <1>7

\* Every step keeps the invariant.
LEMMA NextInv ==
    ASSUME Inv, [Next]_vars
    PROVE  Inv'
<1>1. CASE UNCHANGED vars
  <2>1. UNCHANGED <<loop, rules, tcbs, ioq, cbs, wants, holds, dropped, abort>>
    BY <1>1 DEF vars
  <2>2. TypeOK' /\ WaitersKnown' /\ EachConnectionOnce'
    BY <2>1 DEF Inv, TypeOK, WaitersKnown, EachConnectionOnce
  <2>3. ConnectorsKnown' /\ HoldersKnown'
    BY <2>1 DEF Inv, ConnectorsKnown, HoldersKnown, Connecting, Accepting
  <2>4. NoEarlyReport' /\ FirstRuleOwns'
    BY <2>1 DEF Inv, NoEarlyReport, FirstRuleOwns, Matching
  <2>5. QED
    BY <2>2, <2>3, <2>4 DEF Inv
<1>2. CASE Next
  BY <1>2, NewAcceptorInv, AsyncAcceptInv, AsyncConnectInv, ProcessInv, RunEstablishedInv DEF Next
<1>3. QED
  BY <1>1, <1>2

\* The invariant holds of every reachable state.
LEMMA InvHolds == Spec => []Inv
<1>1. Inv /\ [Next]_vars => Inv'
  BY NextInv
<1>2. QED
  BY <1>1, InitInv, PTL DEF Spec

-----------------------------------------------------------------------------
(* The theorems *)

\* The maps and queues of tcb_manager, the acceptors and the sockets only ever
\* hold what belongs there: ioq and dropped name TCBs that exist.
THEOREM ManagerTypeOK == Spec => []TypeOK
<1>1. Inv => TypeOK
  BY DEF Inv
<1>2. QED
  BY <1>1, InvHolds, PTL

\* Every connection whose TCB has called on_connection_established_ is posted,
\* held by exactly one socket, or dropped by an acceptor with an empty cbs_, and
\* in only one of these places, for every number of acceptors and sockets.
THEOREM ManagerEachConnectionOnce == Spec => []EachConnectionOnce
<1>1. Inv => EachConnectionOnce
  BY DEF Inv
<1>2. QED
  BY <1>1, InvHolds, PTL

\* tcb_manager::process gives every connection to the first rule that matches its
\* port, whatever is appended to rules_ later.
THEOREM ManagerFirstRuleOwns == Spec => []FirstRuleOwns
<1>1. Inv => FirstRuleOwns
  BY DEF Inv
<1>2. QED
  BY <1>1, InvHolds, PTL

\* The callbacks of async_accept and async_connect hand a socket a TCB on the
\* port of its acceptor or to the remote endpoint it named, whatever the order
\* of the reports in the io_context.
THEOREM ManagerSocketGotWhatItAsked == Spec => []SocketGotWhatItAsked
<1>1. ASSUME Inv PROVE SocketGotWhatItAsked
  <2> SUFFICES ASSUME NEW s \in DOMAIN holds
               PROVE  \/ wants[s][1] = "accept" /\ holds[s].port = wants[s][2][2]
                      \/ wants[s] = <<"connect", holds[s].remote>>
    BY DEF SocketGotWhatItAsked
  <2> DEFINE e == holds[s]
  <2>1. e \in DOMAIN tcbs
    BY <1>1 DEF Inv, HoldersKnown
  <2>2. CASE Connecting(e) /\ tcbs[e].cb.connect = s
    BY <1>1, <2>1, <2>2 DEF Inv, ConnectorsKnown
  <2>3. CASE Accepting(e) /\ wants[s] = <<"accept", tcbs[e].cb.accept>>
    <3>1. Matching(e) # {} /\ tcbs[e].cb.accept = rules[First(Matching(e))]
      BY <1>1, <2>1, <2>3 DEF Inv, FirstRuleOwns, Accepting
    <3>2. Matching(e) \in SUBSET Nat
      <4>1. rules \in Seq(Acceptor)
        BY <1>1 DEF Inv, TypeOK
      <4>2. QED
        BY <4>1, LenProperties DEF Matching
    <3>3. First(Matching(e)) \in Matching(e)
      BY <3>1, <3>2, FirstIsLeast
    <3>4. rules[First(Matching(e))][2] = e.port
      BY <3>3 DEF Matching
    <3>5. QED
      BY <2>3, <3>1, <3>4
  <2>4. QED
    BY <1>1, <2>2, <2>3 DEF Inv, HoldersKnown
<1>2. QED
  BY <1>1, InvHolds, PTL

\* What AcceptLoopLosesNothing needs: as long as the application has sockets left,
\* an acceptor that it has ever called async_accept on has a socket in cbs_.
LoopWaits ==
    loop => \/ Unused = {}
            \/ \A s \in DOMAIN wants, a \in Acceptor : wants[s] = <<"accept", a>> => cbs[a] # <<>>

\* A socket that waits with an acceptor is what cbs_ is not empty by: async_accept
\* and the accept callback of main.cpp append one, the rest leaves cbs_ alone.
LEMMA LoopWaitsStep ==
    ASSUME Inv, LoopWaits, [Next]_vars
    PROVE  LoopWaits'
<1> SUFFICES ASSUME loop PROVE LoopWaits'
  <2>1. loop' = loop
    BY DEF Next, vars, new_acceptor, async_accept, async_connect, process, RunEstablished
  <2>2. QED
    BY <2>1 DEF LoopWaits
<1>1. /\ cbs \in [Acceptor -> Seq(Socket)]
      /\ \/ Unused = {}
         \/ \A s \in DOMAIN wants, a \in Acceptor : wants[s] = <<"accept", a>> => cbs[a] # <<>>
  BY DEF Inv, TypeOK, LoopWaits
<1>2. ASSUME NEW a \in Acceptor, NEW t, t \notin DOMAIN wants,
             wants' = Extend(wants, t, <<"accept", a>>), NEW q \in Seq(Socket),
             cbs' = [cbs EXCEPT ![a] = Append(q, t)], t \in Socket
      PROVE  LoopWaits'
  <2>1. /\ DOMAIN wants' = DOMAIN wants \cup {t} /\ wants'[t] = <<"accept", a>>
        /\ \A x \in DOMAIN wants : wants'[x] = wants[x]
    BY <1>2 DEF Extend
  <2>2. /\ cbs'[a] = Append(q, t) /\ \A b \in Acceptor \ {a} : cbs'[b] = cbs[b]
    BY <1>1, <1>2
  <2>3. cbs'[a] # <<>>
    BY <1>2, <2>2, AppendProperties, EmptySeq
  <2>4. Unused # {}
    BY <1>2 DEF Unused
  <2>5. ASSUME NEW s \in DOMAIN wants', NEW b \in Acceptor, wants'[s] = <<"accept", b>>
        PROVE  cbs'[b] # <<>>
    <3>1. CASE b = a
      BY <2>3, <3>1
    <3>2. CASE b # a
      <4>1. s # t
        BY <2>1, <2>5, <3>2
      <4>2. s \in DOMAIN wants /\ wants[s] = <<"accept", b>>
        BY <2>1, <2>5, <4>1
      <4>3. cbs[b] # <<>>
        BY <1>1, <2>4, <4>2
      <4>4. QED
        BY <2>2, <3>2, <4>3
    <3>3. QED
      BY <3>1, <3>2
  <2>6. QED
    BY <2>5 DEF LoopWaits
<1>3. CASE UNCHANGED <<wants, cbs>>
  BY <1>1, <1>3 DEF LoopWaits, Unused
<1>4. ASSUME NEW a \in Acceptor, NEW s \in Socket, async_accept(a, s) PROVE LoopWaits'
  <2>1. /\ s \notin DOMAIN wants /\ wants' = Extend(wants, s, <<"accept", a>>)
        /\ cbs[a] \in Seq(Socket) /\ cbs' = [cbs EXCEPT ![a] = Append(cbs[a], s)]
    BY <1>1, <1>4 DEF async_accept, Unused
  <2>2. QED
    BY <1>2, <2>1
<1>5. ASSUME NEW s \in Socket, NEW r \in Remote, async_connect(s, r) PROVE LoopWaits'
  <2>1. s \notin DOMAIN wants /\ wants' = Extend(wants, s, <<"connect", r>>) /\ cbs' = cbs
    BY <1>5 DEF async_connect, Unused
  <2>2. /\ DOMAIN wants' = DOMAIN wants \cup {s} /\ wants'[s] = <<"connect", r>>
        /\ \A x \in DOMAIN wants : wants'[x] = wants[x]
    BY <2>1 DEF Extend
  <2>3. Unused # {}
    BY <2>1 DEF Unused
  <2>4. \A x \in DOMAIN wants', b \in Acceptor : wants'[x] = <<"accept", b>> => cbs'[b] # <<>>
    BY <1>1, <2>1, <2>2, <2>3
  <2>5. QED
    BY <2>4 DEF LoopWaits
<1>6. CASE RunEstablished
  <2>1. PICK e, cb : /\ e = Head(ioq) /\ cb = tcbs[e].cb
    OBVIOUS
  <2>2. ioq # <<>> /\ ioq' = Tail(ioq)
    BY <1>6 DEF RunEstablished
  <2>3. e \in DOMAIN tcbs
    BY <2>1, <2>2, FrontGone
  <2>4. cb \in Owner
    BY <2>1, <2>3 DEF Inv, TypeOK
  <2>5. CASE accepted(cb.accept, e) /\ "accept" \in DOMAIN cb /\ cbs[cb.accept] # <<>>
    <3>1. PICK a \in Acceptor : a = cb.accept
      BY <2>4, <2>5, OwnerIs
    <3>2. cbs[a] \in Seq(Socket) /\ Tail(cbs[a]) \in Seq(Socket)
      BY <1>1, <2>5, <3>1, HeadTailProperties
    <3>3. CASE Unused # {}
      <4>1. PICK t \in Unused : /\ wants' = Extend(wants, t, <<"accept", a>>)
                                /\ cbs' = [cbs EXCEPT ![a] = Append(Tail(cbs[a]), t)]
        BY <2>5, <3>1, <3>3 DEF accepted
      <4>2. t \in Socket /\ t \notin DOMAIN wants
        BY DEF Unused
      <4>3. QED
        BY <1>2, <3>2, <4>1, <4>2
    <3>4. CASE Unused = {}
      <4>1. wants' = wants
        BY <2>5, <3>4 DEF accepted
      <4>2. QED
        BY <3>4, <4>1 DEF LoopWaits, Unused
    <3>5. QED
      BY <3>3, <3>4
  <2>6. CASE UNCHANGED <<cbs, wants>>
    BY <1>3, <2>6
  <2>7. QED
    BY <1>6, <2>1, <2>5, <2>6 DEF RunEstablished
<1>7. (\E a \in Acceptor : new_acceptor(a)) \/ (\E e \in TwoEnds : process(e)) \/ UNCHANGED vars
      => UNCHANGED <<wants, cbs>>
  BY DEF new_acceptor, process, vars
<1>8. QED
  BY <1>3, <1>4, <1>5, <1>6, <1>7 DEF Next

\* With the accept callback of main.cpp, which calls async_accept again before it
\* returns, no report of a connection is ever dropped once async_accept has been
\* called on the acceptor, for every interleaving of reports and segments.
THEOREM ManagerAcceptLoopLosesNothing == Spec => AcceptLoopLosesNothing
<1> DEFINE Lossless ==
        loop => \A e \in dropped' \ dropped :
            \/ Unused = {}
            \/ \A s \in DOMAIN wants : wants[s] # <<"accept", tcbs[e].cb.accept>>
<1>1. Init => LoopWaits
  BY DEF Init, LoopWaits
<1>2. Inv /\ LoopWaits /\ [Next]_vars => LoopWaits'
  BY LoopWaitsStep
<1>3. ASSUME Inv, LoopWaits, Next PROVE Lossless
  <2> SUFFICES ASSUME loop, NEW e \in dropped' \ dropped, Unused # {}
               PROVE  \A s \in DOMAIN wants : wants[s] # <<"accept", tcbs[e].cb.accept>>
    OBVIOUS
  <2>1. RunEstablished
    BY <1>3 DEF Next, new_acceptor, async_accept, async_connect, process
  <2>2. ioq # <<>> /\ ioq' = Tail(ioq)
    BY <2>1 DEF RunEstablished
  <2>3. Head(ioq) \in DOMAIN tcbs
    BY <1>3, <2>2, FrontGone
  <2>4. e = Head(ioq) /\ "accept" \in DOMAIN tcbs[e].cb /\ cbs[tcbs[e].cb.accept] = <<>>
    BY <2>1 DEF RunEstablished, accepted
  <2>5. tcbs[e].cb.accept \in Acceptor
    <3>1. tcbs[e].cb \in Owner
      BY <1>3, <2>3, <2>4 DEF Inv, TypeOK
    <3>2. QED
      BY <2>4, <3>1, OwnerIs
  <2>6. QED
    BY <1>3, <2>4, <2>5 DEF LoopWaits
<1>4. Inv /\ LoopWaits /\ [Next]_vars => [Lossless]_vars
  BY <1>3
<1> HIDE DEF Lossless
<1>5. Spec => [][Lossless]_vars
  BY <1>1, <1>2, <1>4, InvHolds, PTL DEF Spec
<1>6. QED
  BY <1>5 DEF AcceptLoopLosesNothing, Lossless

=============================================================================
