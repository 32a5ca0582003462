------------------------------- MODULE RawTcp -------------------------------
(***************************************************************************)
(* tcp, the layer between ipv4 and the TCBs, with its raw sockets and      *)
(* interceptors: which received packets are captured for a raw socket and  *)
(* which go on to tcb_manager, how captured packets meet the reads of the  *)
(* application, and how packets of both kinds leave.                       *)
(*                                                                         *)
(* A packet is its number in the order of arrival.  The application may    *)
(* call anything between two handlers, and read again from inside the      *)
(* callback of a read or of an interception.                               *)
(***************************************************************************)
EXTENDS Naturals, FiniteSets, Sequences, SequencesExt

CONSTANTS
    Ends,          \* the two_ends_t of the packets
    Interceptor,   \* interceptors
    Matches,       \* the pairs <<interceptor, two ends>> its matcher accepts
    MaxEvents      \* bound on the calls made and packets received in all

ASSUME RawTcpConstants ==
    /\ Matches \subseteq Interceptor \X Ends
    /\ MaxEvents \in Nat

VARIABLES
    rules,     \* the interceptors in the order of rules_
    cbs,       \* how many callbacks wait in cbs_ of each interceptor
    raw,       \* rcv_raw_states_: two ends -> its queues and its session
    ioq,       \* the posted handlers
    q,         \* packet_queue_: the packets on their way to ipv4
    up,        \* history: what was dispatched to tcb_manager
    down,      \* history: what was handed to ipv4
    session,   \* history: for each raw_state ever made its two ends, the
               \* packets captured and the reads made
    done,      \* history: the completed reads
    written,   \* history: the completed writes
    lost,      \* history: packets in the queue of a raw_state when it went, by
               \* detach or by a callback that threw
    arrived,   \* history: how many packets were received
    events     \* history: how many calls were made and packets received

vars == <<rules, cbs, raw, ioq, q, up, down, session, done, written, lost, arrived, events>>

Init ==
    /\ rules = <<>>
    /\ cbs = [i \in Interceptor |-> 0]
    /\ raw = <<>>
    /\ ioq = <<>>
    /\ q = <<>>
    /\ up = <<>> /\ down = <<>> /\ session = <<>> /\ done = <<>> /\ written = <<>>
    /\ lost = {} /\ arrived = 0 /\ events = 0

\* What the calls of a handler read and change, from one to the next.
Now == [raw |-> raw, ioq |-> ioq, session |-> session, events |-> events]

Commit(c) ==
    /\ c.events <= MaxEvents
    /\ raw' = c.raw
    /\ ioq' = c.ioq
    /\ session' = c.session
    /\ events' = c.events

\* A call or an arrival, which MaxEvents counts.
Event(c) == [c EXCEPT !.events = @ + 1]

-----------------------------------------------------------------------------
(* Raw sockets *)

\* A new raw_state for the two ends e with the packets pq.
emplace(c, e, pq) ==
    [c EXCEPT !.raw = [x \in DOMAIN @ \cup {e} |->
                        IF x = e THEN [sid |-> Len(c.session) + 1, pq |-> pq, on_data_receive |-> <<>>]
                        ELSE @[x]],
              !.session = Append(@, [ends |-> e, captured |-> pq, reads |-> 0])]

\* As below, but the packet stays in the queue.
async_wait_faulty(c, e) ==
    LET st   == c.raw[e]
        read == [sid |-> st.sid, nr |-> c.session[st.sid].reads + 1]
        d    == Event([c EXCEPT !.session[st.sid].reads = @ + 1])
    IN  IF st.pq # <<>>
        THEN [d EXCEPT !.ioq = Append(@, [run |-> "read", read |-> read, pkt |-> Head(st.pq)])]
        ELSE [d EXCEPT !.raw[e].on_data_receive = Append(@, read)]

\* tcp::async_wait as called by raw_socket::async_read; it throws when there is
\* no raw_state.  Reads are numbered within their session.
async_wait(c, e) ==
    LET st   == c.raw[e]
        read == [sid |-> st.sid, nr |-> c.session[st.sid].reads + 1]
        d    == Event([c EXCEPT !.session[st.sid].reads = @ + 1])
    IN  IF st.pq # <<>>
        THEN [d EXCEPT !.raw[e].pq = Tail(@),
                       !.ioq = Append(@, [run |-> "read", read |-> read, pkt |-> Head(st.pq)])]
        ELSE [d EXCEPT !.raw[e].on_data_receive = Append(@, read)]

\* A callback has been called, in which the application may read again.
Callback(c, e) == Commit(c) \/ (e \in DOMAIN c.raw /\ Commit(async_wait(c, e)))

async_read(e) ==
    /\ e \in DOMAIN raw
    /\ Commit(async_wait(Now, e))
    /\ UNCHANGED <<rules, cbs, q, up, down, done, written, lost, arrived>>

Completed(read, pkt) == done' = Append(done, [read |-> read, pkt |-> pkt])

\* The completion posted by async_wait.
RunRead ==
    /\ ioq # <<>> /\ Head(ioq).run = "read"
    /\ LET h == Head(ioq)
       IN  /\ Completed(h.read, h.pkt)
           /\ Callback([Now EXCEPT !.ioq = Tail(@)], session[h.read.sid].ends)
    /\ UNCHANGED <<rules, cbs, q, up, down, written, lost, arrived>>

\* tcp::attach; it throws when there is a raw_state.
attach(e) ==
    /\ e \notin DOMAIN raw
    /\ Commit(Event(emplace(Now, e, <<>>)))
    /\ UNCHANGED <<rules, cbs, q, up, down, done, written, lost, arrived>>

\* tcp::detach: what is queued is gone, and so are the reads that wait.
detach(e) ==
    /\ e \in DOMAIN raw
    /\ raw' = [x \in DOMAIN raw \ {e} |-> raw[x]]
    /\ lost' = lost \cup {pkt.id : pkt \in {p \in Range(raw[e].pq) : p.intact}}
    /\ UNCHANGED <<rules, cbs, ioq, q, up, down, session, done, written, arrived, events>>

-----------------------------------------------------------------------------
(* Receiving: tcp::make_packet *)

\* As below, but the packet is queued without a look at the reads that wait.
Captured_faulty(c, e, pkt) ==
    /\ Commit([c EXCEPT !.session[c.raw[e].sid].captured = Append(@, pkt), !.raw[e].pq = Append(@, pkt)])
    /\ UNCHANGED done

\* As below, but the packet goes to the last read that waits.
Captured_last_faulty(c, e, pkt) ==
    LET st == c.raw[e]
        d  == [c EXCEPT !.session[st.sid].captured = Append(@, pkt)]
    IN  IF st.on_data_receive # <<>>
        THEN /\ Completed(Last(st.on_data_receive), pkt)
             /\ Callback([d EXCEPT !.raw[e].on_data_receive = Front(@)], e)
        ELSE /\ Commit([d EXCEPT !.raw[e].pq = Append(@, pkt)])
             /\ UNCHANGED done

\* The raw_state exists: the packet goes to the first read that waits, whose
\* callback is called at once, or is queued.
Captured(c, e, pkt) ==
    LET st == c.raw[e]
        d  == [c EXCEPT !.session[st.sid].captured = Append(@, pkt)]
    IN  IF st.on_data_receive # <<>>
        THEN /\ Completed(Head(st.on_data_receive), pkt)
             /\ Callback([d EXCEPT !.raw[e].on_data_receive = Tail(@)], e)
        ELSE /\ Commit([d EXCEPT !.raw[e].pq = Append(@, pkt)])
             /\ UNCHANGED done

\* The rules that match, in their order.
Matching(e) == SelectSeq(rules, LAMBDA i : <<i, e>> \in Matches)

\* As below, but also of an empty cbs_.
cbs_pop_faulty(told) == [i \in Interceptor |-> IF i \in told THEN cbs[i] - 1 ELSE cbs[i]]

\* The interceptors told of the two ends each take their first callback.
cbs_pop(told) == [i \in Interceptor |-> IF i \in told /\ cbs[i] > 0 THEN cbs[i] - 1 ELSE cbs[i]]

\* Callbacks that read and then threw: the read of each got the packet of its
\* raw_state and is posted, the raw_state is erased.
Threw(c, e, pkts) ==
    [c EXCEPT !.session = @ \o [j \in DOMAIN pkts |-> [ends |-> e, captured |-> <<pkts[j]>>, reads |-> 1]],
              !.ioq = @ \o [j \in DOMAIN pkts |-> [run |-> "read", read |-> [sid |-> Len(c.session) + j, nr |-> 1],
                                                   pkt |-> pkts[j]]],
              !.events = @ + Len(pkts)]

\* There is none.  The callbacks of the first n rules that match throw, those of
\* R after a read.  The packet was moved into the raw_state of the first and is
\* gone with it unless that callback read; what goes on are its remains, pointers
\* into a buffer that has another owner or none.  The next rule captures them,
\* also when its interceptor has no callback to call; if there is no next rule
\* they are dispatched to tcb_manager.
Intercepted(c, e, id) ==
    \E n \in 0 .. Len(Matching(e)) : \E R \in SUBSET (1 .. n) :
        LET m    == Matching(e)
            pkt  == [id |-> id, intact |-> n = 0]
            told == {m[k] : k \in DOMAIN m \cap (1 .. n + 1)}
            d    == Threw(c, e, [j \in 1 .. Cardinality(R) |-> [id |-> id, intact |-> j = 1 /\ 1 \in R]])
        IN  /\ \A k \in 1 .. n : cbs[m[k]] > 0
            /\ cbs' = cbs_pop(told)
            /\ lost' = IF n > 0 /\ 1 \notin R THEN lost \cup {id} ELSE lost
            /\ IF n = Len(m)
               THEN up' = Append(up, [ends |-> e, pkt |-> pkt]) /\ Commit(d)
               ELSE /\ UNCHANGED up
                    /\ LET f == emplace(d, e, <<pkt>>)
                       IN  IF cbs[m[n + 1]] > 0 THEN Callback(f, e) ELSE Commit(f)

make_packet(e) ==
    /\ arrived' = arrived + 1
    /\ IF e \in DOMAIN raw
       THEN Captured(Event(Now), e, [id |-> arrived', intact |-> TRUE]) /\ UNCHANGED <<cbs, up, lost>>
       ELSE Intercepted(Event(Now), e, arrived') /\ UNCHANGED done
    /\ UNCHANGED <<rules, q, down, written>>

\* interceptor::interceptor.
new_interceptor(i) ==
    /\ \A k \in DOMAIN rules : rules[k] # i
    /\ rules' = Append(rules, i)
    /\ UNCHANGED <<cbs, raw, ioq, q, up, down, session, done, written, lost, arrived, events>>

async_intercept(i) ==
    /\ \E k \in DOMAIN rules : rules[k] = i
    /\ Commit(Event(Now))
    /\ cbs' = [cbs EXCEPT ![i] = @ + 1]
    /\ UNCHANGED <<rules, q, up, down, done, written, lost, arrived>>

-----------------------------------------------------------------------------
(* Sending *)

\* The handler posted by async_write for the packet nr.
Completion(nr) == [run |-> "written", pkt |-> nr]

\* As below, but the completion is posted first.
send_faulty(with_completion) ==
    LET nr == Len(down) + Len(q) + 1
    IN  /\ q' = Append(q, nr)
        /\ Commit(Event([Now EXCEPT !.ioq = (IF with_completion THEN Append(@, Completion(nr)) ELSE @)
                                            \o <<[run |-> "enqueue"]>>]))
        /\ UNCHANGED <<rules, cbs, up, down, done, written, lost, arrived>>

\* tcp::process with process_raw and enqueue, and behind it the completion of a
\* write.  Packets sent are numbered.
send(with_completion) ==
    LET nr == Len(down) + Len(q) + 1
    IN  /\ q' = Append(q, nr)
        /\ Commit(Event([Now EXCEPT !.ioq = @ \o <<[run |-> "enqueue"]>> \o
                                            (IF with_completion THEN <<Completion(nr)>> ELSE <<>>)]))
        /\ UNCHANGED <<rules, cbs, up, down, done, written, lost, arrived>>

\* tcp::async_write as called by raw_socket::async_write.
async_write == send(TRUE)

\* tcp::process for a segment of a TCB.
process == send(FALSE)

\* The handler of enqueue.
RunEnqueue ==
    /\ ioq # <<>> /\ Head(ioq).run = "enqueue"
    /\ Commit([Now EXCEPT !.ioq = Tail(@)])
    /\ down' = Append(down, Head(q))
    /\ q' = Tail(q)
    /\ UNCHANGED <<rules, cbs, up, done, written, lost, arrived>>

\* The handler of async_write.
RunWritten ==
    /\ ioq # <<>> /\ Head(ioq).run = "written"
    /\ Commit([Now EXCEPT !.ioq = Tail(@)])
    /\ written' = Append(written, Head(ioq).pkt)
    /\ UNCHANGED <<rules, cbs, q, up, down, done, lost, arrived>>

Run == RunRead \/ RunEnqueue \/ RunWritten

Next ==
    \/ \E e \in Ends : async_read(e) \/ attach(e) \/ detach(e) \/ make_packet(e)
    \/ \E i \in Interceptor : new_interceptor(i) \/ async_intercept(i)
    \/ async_write
    \/ process
    \/ Run

Spec == Init /\ [][Next]_vars /\ WF_vars(Run)

-----------------------------------------------------------------------------
(* Properties *)

Packet == [id: 1 .. arrived, intact: BOOLEAN]
Read == [sid: DOMAIN session, nr: Nat \ {0}]

TypeOK ==
    /\ rules \in Seq(Interceptor)
    /\ cbs \in [Interceptor -> Nat]
    /\ session \in Seq([ends: Ends, captured: Seq(Packet), reads: Nat])
    /\ DOMAIN raw \subseteq Ends
    /\ \A e \in DOMAIN raw : /\ raw[e] \in [sid: DOMAIN session, pq: Seq(Packet), on_data_receive: Seq(Read)]
                            /\ session[raw[e].sid].ends = e
    /\ ioq \in Seq([run: {"read"}, read: Read, pkt: Packet] \cup [run: {"enqueue"}]
                    \cup [run: {"written"}, pkt: Nat])
    /\ done \in Seq([read: Read, pkt: Packet])
    /\ up \in Seq([ends: Ends, pkt: Packet])
    /\ {q, down, written} \subseteq Seq(Nat)
    /\ lost \subseteq 1 .. arrived
    /\ events <= MaxEvents

\* The reads whose completion is posted, and those that are completed.
Posted == {[read |-> ioq[i].read, pkt |-> ioq[i].pkt] : i \in {k \in DOMAIN ioq : ioq[k].run = "read"}}
Finished == Range(done)

\* A read and a packet meet as soon as both are there, in the order of the calls
\* and of the arrivals: of the n reads and k packets of a session the first
\* min(n, k) are paired, the i-th read with the i-th packet, and only those,
\* whether the read or the packet came first, and also after detach.
ReadsPaired ==
    /\ \A s \in DOMAIN session :
        {c \in Posted \cup Finished : c.read.sid = s}
            = {[read |-> [sid |-> s, nr |-> i], pkt |-> session[s].captured[i]] :
                i \in {k \in DOMAIN session[s].captured : k <= session[s].reads}}
    /\ Cardinality(Posted) + Cardinality(Finished)
            = Len(done) + Cardinality({i \in DOMAIN ioq : ioq[i].run = "read"})

\* Where a packet, or what remains of it, was dispatched, is queued or was given
\* to a read.
Dispatched(pkt) == {i \in DOMAIN up : up[i].pkt = pkt}
Queued(pkt) == {e \in DOMAIN raw : \E i \in DOMAIN raw[e].pq : raw[e].pq[i] = pkt}
GivenTo(pkt) == {c \in Posted \cup Finished : c.pkt = pkt}

\* A packet that arrived is as a whole in exactly one place: dispatched to
\* tcb_manager, queued in one raw_state, given to one read, or lost, by detach or
\* with a callback that threw without a read.  Nobody is handed its remains as
\* long as it is queued or when it was dispatched: only what a callback that threw
\* has lost or read goes on as remains.
PacketInOnePlace ==
    \A id \in 1 .. arrived :
        LET whole   == [id |-> id, intact |-> TRUE]
            remains == [id |-> id, intact |-> FALSE]
        IN  /\ Cardinality(Dispatched(whole)) + Cardinality(Queued(whole)) + Cardinality(GivenTo(whole))
                  + (IF id \in lost THEN 1 ELSE 0) = 1
            /\ id \notin lost /\ GivenTo(whole) = {}
                  => Dispatched(remains) = {} /\ Queued(remains) = {} /\ GivenTo(remains) = {}

\* The callback of a read runs before that of an earlier read of the session
\* only when the earlier one has its packet already and is posted, while the
\* later one waited and got its packet within the handler of the arrival.
OnlyPostedAreOvertaken ==
    [][\A c \in Range(done') \ Finished : \A n \in 1 .. c.read.nr - 1 :
        LET earlier == {d \in Posted \cup Finished : d.read = [sid |-> c.read.sid, nr |-> n]}
        IN  earlier # {} /\ (earlier \subseteq Finished \/ c \notin Posted)]_vars

\* Packets of raw sockets and segments of TCBs are handed to ipv4 in the order in
\* which they were sent, and a write completes only after that has happened.
WritesInOrder ==
    /\ down \o q = [i \in 1 .. Len(down) + Len(q) |-> i]
    /\ Range(written) \subseteq Range(down)

\* Every read for which there is a packet is completed in the end, also when the
\* application detaches meanwhile: again and again no such read is left.
ReadsComplete ==
    []<>(\A s \in DOMAIN session : \A n \in DOMAIN session[s].captured :
            n <= session[s].reads => \E c \in Finished : c.read = [sid |-> s, nr |-> n])

=============================================================================
