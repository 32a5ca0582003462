----------------------------- MODULE TcbManager -----------------------------
(***************************************************************************)
(* tcb_manager, acceptor and the connecting half of socket: which TCB a    *)
(* segment belongs to, who is told when a connection is established, and   *)
(* which socket gets it.  A TCB is what TcbLife says it is.                *)
(***************************************************************************)
EXTENDS TcbLifeOps, Naturals, Sequences

CONSTANTS
    Remote,     \* remote endpoints
    Port,       \* local ports
    Ephemeral,  \* the ports port_generator_ctx draws from, 1024..49151
    Acceptor,   \* acceptors, each a pair <<name, port it listens on>>
    Socket      \* sockets; each is used for one accept or one connect

ASSUME TcbManagerConstants ==
    /\ Ephemeral \subseteq Port
    /\ \A a \in Acceptor : a[2] \in Port

VARIABLES
    loop,       \* does the accept callback call async_accept again (main.cpp)
    rules,      \* the acceptors in the order of rules_
    tcbs,       \* tcbs_: two ends -> the TCB and its on_connection_established_
    ioq,        \* two ends whose on_connection_established_ is posted
    cbs,        \* for each acceptor the sockets that wait in cbs_
    wants,      \* what a socket was used for: <<"accept", a>>, <<"connect", r>>
    holds,      \* the two ends of the TCB a socket holds
    dropped,    \* two ends reported to an acceptor with an empty cbs_
    abort       \* has assert(on_connection_established_) failed

vars == <<loop, rules, tcbs, ioq, cbs, wants, holds, dropped, abort>>

TwoEnds == [remote: Remote, port: Port]

\* on_connection_established_ of a TCB: the rule's or the connecting socket's.
Owner == [accept: Acceptor] \cup [connect: Socket]

Extend(f, k, v) == [x \in DOMAIN f \cup {k} |-> IF x = k THEN v ELSE f[x]]

Unused == Socket \ DOMAIN wants

-----------------------------------------------------------------------------

Init ==
    /\ loop \in BOOLEAN
    /\ rules = <<>>
    /\ tcbs = <<>>
    /\ ioq = <<>>
    /\ cbs = [a \in Acceptor |-> <<>>]
    /\ wants = <<>>
    /\ holds = <<>>
    /\ dropped = {}
    /\ abort = FALSE

\* acceptor::acceptor and rule_insert_back.
new_acceptor(a) ==
    /\ ~abort
    /\ \A i \in DOMAIN rules : rules[i] # a
    /\ rules' = Append(rules, a)
    /\ UNCHANGED <<loop, tcbs, ioq, cbs, wants, holds, dropped, abort>>

async_accept(a, s) ==
    /\ ~abort
    /\ \E i \in DOMAIN rules : rules[i] = a
    /\ s \in Unused
    /\ wants' = Extend(wants, s, <<"accept", a>>)
    /\ cbs' = [cbs EXCEPT ![a] = Append(@, s)]
    /\ UNCHANGED <<loop, rules, tcbs, ioq, holds, dropped, abort>>

\* The callback is moved into the TCB that emplace throws away when the drawn
\* port is taken, so the next turn of the loop constructs a TCB without one.
async_connect(s, r) ==
    /\ ~abort
    /\ s \in Unused
    /\ wants' = Extend(wants, s, <<"connect", r>>)
    /\ \E p \in Ephemeral :
        LET e == [remote |-> r, port |-> p]
        IN  IF e \notin DOMAIN tcbs
            THEN /\ tcbs' = Extend(tcbs, e, [life |-> Born("SynSent"), cb |-> [connect |-> s]])
                 /\ abort' = abort
            ELSE tcbs' = tcbs /\ abort' = TRUE
    /\ UNCHANGED <<loop, rules, ioq, cbs, holds, dropped>>

\* As below, but every rule matches every port.
Matching_faulty(e) == DOMAIN rules

\* The positions of the rules that match the two ends e.
Matching(e) == {i \in DOMAIN rules : rules[i][2] = e.port}
First(S) == CHOOSE i \in S : \A j \in S : i <= j

\* As below, but the last rule that matches owns the TCB.
lookup_faulty(e) ==
    IF e \in DOMAIN tcbs THEN tcbs[e]
    ELSE [life |-> Born("Listen"),
          cb |-> [accept |-> rules[CHOOSE i \in Matching(e) : \A j \in Matching(e) : j <= i]]]

\* As below, but the TCB is created in the state async_connect creates it in.
lookup_state_faulty(e) ==
    IF e \in DOMAIN tcbs THEN tcbs[e]
    ELSE [life |-> Born("Connecting"), cb |-> [accept |-> rules[First(Matching(e))]]]

\* The TCB of two ends, created by the first rule that matches if there is none.
lookup(e) ==
    IF e \in DOMAIN tcbs THEN tcbs[e]
    ELSE [life |-> Born("Listen"), cb |-> [accept |-> rules[First(Matching(e))]]]

\* tcb_manager::process: the segment is ignored by its TCB or moves it on.
process(e) ==
    /\ ~abort
    /\ e \in DOMAIN tcbs \/ Matching(e) # {}
    /\ \E l \in Successors(lookup(e).life) \cup {lookup(e).life} :
        /\ tcbs' = Extend(tcbs, e, [lookup(e) EXCEPT !.life = l])
        /\ ioq' = IF l.notified /\ ~lookup(e).life.notified THEN Append(ioq, e) ELSE ioq
    /\ UNCHANGED <<loop, rules, cbs, wants, holds, dropped, abort>>

\* As below, but the callback stays in cbs_.
accepted_faulty(a, e) ==
    /\ holds' = Extend(holds, Head(cbs[a]), e)
    /\ UNCHANGED <<dropped, wants, cbs>>

\* As below, but cbs_ is cleared behind the callback instead of popped before it.
accepted_clear_faulty(a, e) ==
    /\ holds' = Extend(holds, Head(cbs[a]), e)
    /\ UNCHANGED dropped
    /\ IF loop /\ Unused # {}
       THEN \E s \in Unused : wants' = Extend(wants, s, <<"accept", a>>)
       ELSE wants' = wants
    /\ cbs' = [cbs EXCEPT ![a] = <<>>]

\* The callback of async_accept: the socket takes the TCB, and an application
\* like main.cpp at once waits for the next connection with a new socket.
accepted(a, e) ==
    /\ holds' = Extend(holds, Head(cbs[a]), e)
    /\ UNCHANGED dropped
    /\ IF loop /\ Unused # {}
       THEN \E s \in Unused : /\ wants' = Extend(wants, s, <<"accept", a>>)
                              /\ cbs' = [cbs EXCEPT ![a] = Append(Tail(@), s)]
       ELSE wants' = wants /\ cbs' = [cbs EXCEPT ![a] = Tail(@)]

\* The posted on_connection_established_.
RunEstablished ==
    /\ ~abort
    /\ ioq # <<>>
    /\ ioq' = Tail(ioq)
    /\ LET e  == Head(ioq)
           cb == tcbs[e].cb
       IN  \/ /\ "connect" \in DOMAIN cb
              /\ holds' = Extend(holds, cb.connect, e)
              /\ UNCHANGED <<cbs, wants, dropped>>
           \/ /\ "accept" \in DOMAIN cb /\ cbs[cb.accept] # <<>>
              /\ accepted(cb.accept, e)
           \/ /\ "accept" \in DOMAIN cb /\ cbs[cb.accept] = <<>>
              /\ dropped' = dropped \cup {e}
              /\ UNCHANGED <<cbs, wants, holds>>
    /\ UNCHANGED <<loop, rules, tcbs, abort>>

Next ==
    \/ \E a \in Acceptor : new_acceptor(a)
    \/ \E a \in Acceptor, s \in Socket : async_accept(a, s)
    \/ \E s \in Socket, r \in Remote : async_connect(s, r)
    \/ \E e \in TwoEnds : process(e)
    \/ RunEstablished

Spec == Init /\ [][Next]_vars

-----------------------------------------------------------------------------
(* Properties *)

TypeOK ==
    /\ loop \in BOOLEAN
    /\ rules \in Seq(Acceptor)
    /\ DOMAIN tcbs \subseteq TwoEnds
    /\ \A e \in DOMAIN tcbs : tcbs[e] \in [life: Life, cb: Owner]
    /\ ioq \in Seq(DOMAIN tcbs)
    /\ cbs \in [Acceptor -> Seq(Socket)]
    /\ DOMAIN wants \subseteq Socket
    /\ DOMAIN holds \subseteq DOMAIN wants
    /\ dropped \subseteq DOMAIN tcbs
    /\ abort \in BOOLEAN

\* A connection ends up in at most one place: it waits to be reported, is held
\* by one socket, or was dropped; it is in one of them iff its TCB has reported
\* the handshake.  No socket serves two connections, no connection two sockets.
EachConnectionOnce ==
    /\ \A s, t \in DOMAIN holds : holds[s] = holds[t] => s = t
    /\ \A i, j \in DOMAIN ioq : ioq[i] = ioq[j] => i = j
    /\ \A e \in DOMAIN tcbs :
        LET waiting == \E i \in DOMAIN ioq : ioq[i] = e
            held    == \E s \in DOMAIN holds : holds[s] = e
        IN  /\ tcbs[e].life.notified <=> waiting \/ held \/ e \in dropped
            /\ ~(waiting /\ held) /\ ~(waiting /\ e \in dropped) /\ ~(held /\ e \in dropped)

\* A socket gets a connection of the kind it asked for: an accepted one arrived
\* at the port of its acceptor, a connected one leads to the remote endpoint it
\* named, however the reports of several connections interleave.
SocketGotWhatItAsked ==
    \A s \in DOMAIN holds :
        \/ wants[s][1] = "accept" /\ holds[s].port = wants[s][2][2]
        \/ wants[s] = <<"connect", holds[s].remote>>

\* Of several acceptors on one port the one inserted first gets every connection:
\* a later acceptor never takes over, not even for a TCB created after it.
FirstRuleOwns ==
    \A e \in DOMAIN tcbs : "accept" \in DOMAIN tcbs[e].cb =>
        /\ Matching(e) # {}
        /\ tcbs[e].cb.accept = rules[First(Matching(e))]

\* An application that waits for the next connection inside the accept callback
\* loses no connection once it has called async_accept: no report ever finds
\* cbs_ empty (until the bound Socket leaves it without a new socket).
AcceptLoopLosesNothing ==
    [][loop => \A e \in dropped' \ dropped :
        \/ Unused = {}
        \/ \A s \in DOMAIN wants : wants[s] # <<"accept", tcbs[e].cb.accept>>]_vars

\* assert(on_connection_established_) in the constructor of tcb_t.
EveryTcbHasACallback == ~abort

=============================================================================
