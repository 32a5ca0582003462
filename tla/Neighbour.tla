----------------------------- MODULE Neighbour -----------------------------
(***************************************************************************)
(* The way of an IPv4 packet out of the host: the routing table, the       *)
(* resolution of the next hop (arp, neigh_cache), the queue of each layer  *)
(* (base_protocol) and the device.  A received ARP frame and a packet from *)
(* the transport layer are handled by one handler each, between any two    *)
(* posted ones.  ARP frames of another hardware type, protocol type or     *)
(* operation are ignored by the code and are not received here.            *)
(***************************************************************************)
EXTENDS Naturals, FiniteSets, Sequences, SequencesExt, Positions

CONSTANTS
    Me, MyMac,     \* the entry of the own interface in the neighbour cache
    Hop,           \* addresses of neighbours
    MacOf,         \* the MAC address with which a neighbour answers requests
    NoMac,         \* the zero and the broadcast MAC address
    Dst, NoHop,    \* destinations, and the next hop of one without a route
    Tables,        \* routing tables: [table: destination -> hop, default: hop]
    ArpFrames,     \* ARP frames that may be received at any time
    MaxPackets,    \* bound on the packets sent
    MaxArp         \* bound on the ARP frames received from ArpFrames

ASSUME NeighbourConstants ==
    /\ NoMac \subseteq STRING /\ "broadcast" \in NoMac /\ MyMac \in STRING \ NoMac
    /\ Me \notin Hop /\ NoHop \notin Hop
    /\ MacOf \in [Hop -> STRING] /\ \A h \in Hop : MacOf[h] \notin NoMac
    /\ \A t \in Tables : /\ t.default \in Hop \cup {NoHop}
                         /\ DOMAIN t.table \subseteq Dst
                         /\ \A d \in DOMAIN t.table : t.table[d] \in Hop
    /\ \A a \in ArpFrames : a.sha \in STRING /\ a.spa \in Hop \cup {Me}
    /\ MaxPackets \in Nat

VARIABLES
    rt,           \* the routing table
    cache,        \* neigh_cache: address -> MAC address
    on_replies,   \* address -> the frames whose resolution waits for a reply
    ioq,          \* the posted handlers
    q,            \* packet_queue_ (skb_queue_) of ipv4, arp and ethernetv2
    out_q,        \* out_skb_q_ of the device, each entry by the frame pushed into it;
                  \* the entry at the front is moved from: its frame is in writing
    writing,      \* the frames whose async_write has not completed
    reading,      \* is an async_read_some outstanding
    wire,         \* the frames written to the device
    sent,         \* history: the hop of each packet sent, seq_ is its length
    heard,        \* history: the pairs <<spa, sha>> of the ARP frames received
    arps,         \* history: how many ARP frames nobody asked for were received
    failed        \* history: has a write failed

vars == <<rt, cache, on_replies, ioq, q, out_q, writing, reading, wire, sent, heard, arps, failed>>

Layer == {"ipv4", "arp", "eth"}

Addr == Hop \cup {Me}

Init ==
    /\ rt \in Tables
    /\ cache = [a \in {Me} |-> MyMac]
    /\ on_replies = [a \in Addr |-> <<>>]
    /\ ioq = <<>>
    /\ q = [l \in Layer |-> <<>>]
    /\ out_q = <<>>
    /\ writing = <<>>
    /\ reading = TRUE
    /\ wire = <<>>
    /\ sent = <<>>
    /\ heard = {}
    /\ arps = 0
    /\ failed = FALSE

-----------------------------------------------------------------------------
(* Sending *)

Handlers(run, n) == [i \in 1..n |-> [run |-> run]]

\* As below, but a handler is posted only for the first frame of the queue.
enqueue_faulty(l, frames) ==
    /\ q' = [q EXCEPT ![l] = @ \o frames]
    /\ ioq' = IF q[l] = <<>> /\ frames # <<>> THEN Append(ioq, [run |-> l]) ELSE ioq

\* base_protocol::enqueue, once for each of the frames.
enqueue(l, frames) ==
    /\ q' = [q EXCEPT ![l] = @ \o frames]
    /\ ioq' = ioq \o Handlers(l, Len(frames))

\* arp::async_request.
async_request(to) ==
    enqueue("arp", <<[proto |-> "arp", oper |-> "request", src |-> cache[Me], dst |-> "broadcast",
                      spa |-> Me, tpa |-> to]>>)

\* arp::async_resolve: cb is posted for a cached address and otherwise waits
\* for a reply, each time with a request of its own.
async_resolve(to, frame) ==
    IF to \in DOMAIN cache
    THEN /\ ioq' = Append(ioq, [run |-> "cb", frame |-> frame, mac |-> cache[to]])
         /\ UNCHANGED <<on_replies, q>>
    ELSE /\ on_replies' = [on_replies EXCEPT ![to] = Append(@, frame)]
         /\ async_request(to)

\* routing_table::query and query_default.
next_hop(d) == IF d \in DOMAIN rt.table THEN rt.table[d] ELSE rt.default

\* ipv4::process: a packet without a route is dropped.
process(d) ==
    /\ Len(sent) < MaxPackets
    /\ sent' = Append(sent, next_hop(d))
    /\ IF next_hop(d) = NoHop
       THEN UNCHANGED <<on_replies, q, ioq>>
       ELSE async_resolve(next_hop(d), [proto |-> "ipv4", src |-> cache[Me], id |-> Len(sent)])
    /\ UNCHANGED <<rt, cache, out_q, writing, reading, wire, heard, arps, failed>>

\* The callback of ipv4::process: the destination is filled in.
resolved(frame, mac) ==
    [proto |-> "ipv4", id |-> frame.id, src |-> frame.src, dst |-> mac]

-----------------------------------------------------------------------------
(* Receiving ARP frames *)

\* As below, but the newest address replaces the one that is known.
insert_faulty(addr, mac) ==
    [x \in DOMAIN cache \cup {addr} |-> IF x = addr THEN mac ELSE cache[x]]

\* neigh_cache::update: an entry that exists is kept.
insert(addr, mac) ==
    [x \in DOMAIN cache \cup {addr} |-> IF x \in DOMAIN cache THEN cache[x] ELSE mac]

\* As below, but a zero or broadcast address is taken too.
update_faulty(a) == cache' = insert(a.spa, a.sha)

\* arp::update.
update(a) == cache' = IF a.sha \in NoMac THEN cache ELSE insert(a.spa, a.sha)

\* arp::async_reply to the request a.
async_reply(mac, a) ==
    enqueue("arp", <<[proto |-> "arp", oper |-> "reply", src |-> mac, dst |-> a.sha,
                      spa |-> a.tpa, tpa |-> a.spa]>>)

\* arp::process_request: any address of the cache is answered for, also one
\* that this very request has put there.
process_request(a) ==
    /\ update(a)
    /\ IF a.tpa \in DOMAIN cache' THEN async_reply(cache'[a.tpa], a) ELSE UNCHANGED <<q, ioq>>
    /\ UNCHANGED on_replies

\* As below, but only a reply that adds to the cache completes resolutions.
process_reply_faulty(a) ==
    /\ update(a)
    /\ IF a.spa \in DOMAIN cache
       THEN UNCHANGED <<on_replies, q, ioq>>
       ELSE /\ on_replies' = [on_replies EXCEPT ![a.spa] = <<>>]
            /\ enqueue("ipv4", [i \in DOMAIN on_replies[a.spa] |-> resolved(on_replies[a.spa][i], a.sha)])

\* As below, but the resolutions that waited are not removed.
process_reply_keep_faulty(a) ==
    /\ update(a)
    /\ enqueue("ipv4", [i \in DOMAIN on_replies[a.spa] |-> resolved(on_replies[a.spa][i], a.sha)])
    /\ UNCHANGED on_replies

\* As below, but the last resolution that waits is completed first.
process_reply_order_faulty(a) ==
    /\ update(a)
    /\ on_replies' = [on_replies EXCEPT ![a.spa] = <<>>]
    /\ enqueue("ipv4", Reverse([i \in DOMAIN on_replies[a.spa] |-> resolved(on_replies[a.spa][i], a.sha)]))

\* arp::process_reply: all that wait for the sender are completed within the
\* handler, with the address of the reply, also one that update() refuses.
process_reply(a) ==
    /\ update(a)
    /\ on_replies' = [on_replies EXCEPT ![a.spa] = <<>>]
    /\ enqueue("ipv4", [i \in DOMAIN on_replies[a.spa] |-> resolved(on_replies[a.spa][i], a.sha)])

\* The handler of a completed device read, up to arp::process.
Received(a) ==
    /\ reading
    /\ heard' = heard \cup {<<a.spa, a.sha>>}
    /\ UNCHANGED <<rt, out_q, writing, reading, wire, sent, failed>>

\* An ARP frame from the network, whether it was asked for or not.
Receive(a) ==
    /\ arps < MaxArp
    /\ arps' = arps + 1
    /\ Received(a)
    /\ IF a.oper = "request" THEN process_request(a) ELSE process_reply(a)

\* A neighbour answers a request that was written to the device.
Answer(h) ==
    LET reply == [oper |-> "reply", sha |-> MacOf[h], spa |-> h, tpa |-> Me]
    IN  /\ on_replies[h] # <<>>
        /\ \E i \in DOMAIN wire : /\ wire[i].proto = "arp" /\ wire[i].oper = "request"
                                  /\ wire[i].tpa = h
        /\ Received(reply) /\ process_reply(reply)
        /\ UNCHANGED arps

\* A failed read is not started again.
ReadFail ==
    /\ reading
    /\ reading' = FALSE
    /\ UNCHANGED <<rt, cache, on_replies, ioq, q, out_q, writing, wire, sent, heard, arps, failed>>

-----------------------------------------------------------------------------
(* Posted handlers and the device *)

\* The posted cb of async_resolve.
RunCb ==
    /\ ioq # <<>> /\ Head(ioq).run = "cb"
    /\ q' = [q EXCEPT !["ipv4"] = Append(@, resolved(Head(ioq).frame, Head(ioq).mac))]
    /\ ioq' = Append(Tail(ioq), [run |-> "ipv4"])
    /\ UNCHANGED <<rt, cache, on_replies, out_q, writing, reading, wire, sent, heard, arps, failed>>

\* The handler of enqueue in ipv4 and arp: the front goes to
\* ethernetv2::process, which enqueues it again.
RunUpper(l) ==
    /\ ioq # <<>> /\ Head(ioq).run = l
    /\ q' = [q EXCEPT ![l] = Tail(@), !["eth"] = Append(@, Head(q[l]))]
    /\ ioq' = Append(Tail(ioq), [run |-> "eth"])
    /\ UNCHANGED <<rt, cache, on_replies, out_q, writing, reading, wire, sent, heard, arps, failed>>

\* As below, but ARP frames go to the front of the queue.
device_process_faulty(frame) ==
    /\ out_q' = IF frame.proto = "arp" /\ out_q # <<>>
                THEN <<Head(out_q), frame>> \o Tail(out_q) ELSE Append(out_q, frame)
    /\ writing' = IF Len(out_q') = 1 THEN <<frame>> ELSE writing

\* device::process: a write is started when there was none.
device_process(frame) ==
    /\ out_q' = Append(out_q, frame)
    /\ writing' = IF Len(out_q') = 1 THEN <<frame>> ELSE writing

\* The handler of enqueue in ethernetv2.
RunEth ==
    /\ ioq # <<>> /\ Head(ioq).run = "eth"
    /\ q' = [q EXCEPT !["eth"] = Tail(@)]
    /\ ioq' = Tail(ioq)
    /\ device_process(Head(q["eth"]))
    /\ UNCHANGED <<rt, cache, on_replies, reading, wire, sent, heard, arps, failed>>

\* async_write of send_front_pkt_out has completed; the next write is started.
WriteDone ==
    /\ writing # <<>>
    /\ wire' = Append(wire, Head(writing))
    /\ out_q' = Tail(out_q)
    /\ writing' = IF out_q' = <<>> THEN <<>> ELSE <<Head(out_q')>>
    /\ UNCHANGED <<rt, cache, on_replies, ioq, q, reading, sent, heard, arps, failed>>

\* A failed write destroys its frame with its handler.  The emptied entry stays
\* at the front of out_skb_q_, which therefore never has the size 1 again, so
\* that no other write is started.
WriteFail ==
    /\ writing # <<>>
    /\ writing' = <<>>
    /\ failed' = TRUE
    /\ UNCHANGED <<rt, cache, on_replies, ioq, q, out_q, reading, wire, sent, heard, arps>>

Run == RunCb \/ RunUpper("ipv4") \/ RunUpper("arp") \/ RunEth

Next ==
    \/ \E d \in Dst : process(d)
    \/ \E a \in ArpFrames : Receive(a)
    \/ \E h \in Hop : Answer(h)
    \/ Run
    \/ WriteDone
    \/ WriteFail
    \/ ReadFail

Spec ==
    /\ Init /\ [][Next]_vars
    /\ WF_vars(Run) /\ WF_vars(WriteDone)
    /\ \A h \in Hop : WF_vars(Answer(h))

-----------------------------------------------------------------------------
(* Properties *)

IpFrame == [proto: {"ipv4"}, id: 0..(MaxPackets - 1), src: STRING, dst: STRING]
ArpFrame == [proto: {"arp"}, oper: {"request", "reply"}, src: STRING, dst: STRING,
             spa: Addr, tpa: Addr]
Frame == IpFrame \cup ArpFrame
Unresolved == [proto: {"ipv4"}, id: 0..(MaxPackets - 1), src: STRING]

TypeOK ==
    /\ rt \in Tables
    /\ {Me} \subseteq DOMAIN cache /\ DOMAIN cache \subseteq Addr
    /\ \A a \in DOMAIN cache : cache[a] \in STRING \ NoMac
    /\ on_replies \in [Addr -> Seq(Unresolved)]
    /\ ioq \in Seq([run: Layer] \cup [run: {"cb"}, frame: Unresolved, mac: STRING])
    /\ q \in [Layer -> Seq(Frame)]
    /\ out_q \in Seq(Frame) /\ writing \in Seq(Frame) /\ wire \in Seq(Frame)
    /\ Len(writing) <= 1
    /\ reading \in BOOLEAN /\ failed \in BOOLEAN
    /\ sent \in Seq(Hop \cup {NoHop})

Posted(l) == {i \in DOMAIN ioq : ioq[i].run = l}

\* As many handlers of a layer are posted as frames are in its queue, so that
\* no handler of base_protocol::enqueue takes the front of an empty queue and
\* no frame stays behind.
HandlersMatchQueues == \A l \in Layer : Cardinality(Posted(l)) = Len(q[l])

\* The handlers of ipv4 and arp, and the frame that one of them will take.
UpperAt == Posted("ipv4") \cup Posted("arp")
FrameOf(i) == q[ioq[i].run][Rank(Posted(ioq[i].run), i)]

\* The frames that ipv4 and arp have enqueued, in the order of their handlers.
Upper ==
    LET at == UpperAt
    IN  [k \in 1 .. Cardinality(at) |-> FrameOf(CHOOSE i \in at : Rank(at, i) = k)]

\* All that was enqueued by ipv4 and arp, in the order in which it leaves.
Pipe == wire \o out_q \o q["eth"] \o Upper

\* Three queues of base_protocol and the one of the device together are one
\* FIFO channel: a frame is added at its end, perhaps together with others, and
\* leaves at its front; none is doubled, overtaken or left out on the way to the
\* device, whichever of the handlers posted for it runs.  After a failed write
\* the front is the emptied entry of the frame that it destroyed, and no frame
\* behind it leaves any more.
PipeChannel == INSTANCE Channel WITH queue <- out_q \o q["eth"] \o Upper, out <- wire

ImplementsChannel == PipeChannel!Spec

Cbs == [i \in Posted("cb") |-> ioq[i].frame]

Copies(S, id) == Cardinality({i \in DOMAIN S : S[i].proto = "ipv4" /\ S[i].id = id})

\* A packet with a route is at every time in exactly one place: it waits for a
\* reply, for its callback, in a queue, is being written or was written, or it was
\* destroyed by the one write that failed, whose emptied entry out_skb_q_ keeps at
\* its front; a packet without a route is nowhere.  No resolution is completed
\* twice and none is forgotten.
EachPacketOnce ==
    \A n \in DOMAIN sent :
        IF sent[n] = NoHop
        THEN Copies(Pipe, n - 1) = 0 /\ Copies(Cbs, n - 1) = 0
        ELSE Copies(Pipe, n - 1) + Copies(Cbs, n - 1) + Copies(on_replies[sent[n]], n - 1) = 1

\* Every packet on its way carries the own MAC address and one that its next
\* hop has announced itself, even if another host claims the own address or
\* that of the hop's neighbour.
RightAddress ==
    \A i \in DOMAIN Pipe : Pipe[i].proto = "ipv4" =>
        /\ Pipe[i].src = MyMac
        /\ <<sent[Pipe[i].id + 1], Pipe[i].dst>> \in heard

\* Packets wait for a hop whose address is in the cache: a request of the hop
\* has filled the cache, and on_replies_ is not looked at.
Stranded(h) == on_replies[h] # <<>> /\ h \in DOMAIN cache

\* Where the packets to hop h are in Pipe.
PacketsTo(h) == {i \in 1 .. Len(Pipe) : Pipe[i].proto = "ipv4" /\ sent[Pipe[i].id + 1] = h}

\* The pairs of them of which the later packet is ahead.
Inversions(h) ==
    {p \in PacketsTo(h) \X PacketsTo(h) : p[1] < p[2] /\ Pipe[p[2]].id < Pipe[p[1]].id}

\* Packets to one hop leave in the order in which they were sent, except that
\* those stranded by a request of the hop are overtaken by later ones.
OnlyStrandedAreOvertaken ==
    [][\A h \in Hop : Stranded(h) \/ Inversions(h)' \subseteq Inversions(h)]_vars

\* When neighbours answer requests, every packet with a route is written in the
\* end, the stranded ones too, unless a read or a write of the device fails.
Written ==
    \A id \in 0..(MaxPackets - 1) :
        (id < Len(sent) /\ sent[id + 1] # NoHop) ~> (Copies(wire, id) = 1 \/ failed \/ ~reading)

=============================================================================
