# A formal model of mstack

mstack is a user-space TCP/IP stack on top of a TUN/TAP device. This directory
holds TLA+ modules for its TCP core, for raw sockets, and for the way of a
packet through the layers, in order and byte by byte, the TLC runs that check
them on small instances, and proofs, checked by TLAPS, that hold for every
instance.
All source paths below are relative to `src/mstack/mstack/` unless they say
otherwise.

## 1. Inventory

Everything runs in one `boost::asio::io_context` with one thread. A handler is
therefore atomic, and handlers posted with `io_ctx_.post` run in the order of
the posts. What is hard is not data races but the *interleaving of handlers*: a
method changes the state and posts the rest of its work, and the handler that
reads the device, the application and handlers of other calls come in between.

| component | state | operations | interacts with |
|---|---|---|---|
| TCP control block, `tcb.cpp` | `state_`, `next_state_`, `send_`, `rcv_`, waiting reads | `process` (segment arrives), `start_connecting`, `async_read_some`, `async_write` | posts handlers, enqueues segments at the manager |
| TCB manager, `tcb_manager.cpp` | `tcbs_`, `rules_` | `process`, `async_connect`, `rule_insert_*` | creates TCBs, looks them up per segment |
| acceptor, `acceptor.cpp` | `cbs_`, the waiting accepts | construction (inserts a rule), `async_accept` | called back by a TCB of its rule |
| socket, `socket.cpp` | weak pointer to a TCB | `async_connect`, `async_read_some`, `async_read`, `async_write` | the TCB |
| echo application, `src/main.cpp` | buffers | accept loop, read and echo loop | socket, acceptor |
| TCP demultiplexer, raw sockets, interceptor, `tcp.cpp`, `raw_socket.cpp`, `interceptor.cpp` | `rules_`, `cbs_`, `rcv_raw_states_` | `make_packet` (receive), `process` (send), `async_wait`, `async_write`, `attach`, `detach`, `async_intercept` | IPv4 below, TCB manager above, the application's callbacks |
| ARP and neighbour cache, `arp.cpp`, `neigh_cache.hpp` | cache, waiting resolutions | `async_resolve`, `process_request`, `process_reply` | IPv4, Ethernet |
| IPv4 and routing table, `ipv4.cpp`, `routing_table.cpp` | identification counter, routes | `process` (send), `make_packet` (receive) | ARP, TCP, ICMP |
| ICMP, `icmp.hpp` | none | echo reply | IPv4 |
| Ethernet and device, `ethernet.cpp`, `device.cpp` | output queue, one outstanding read | `process`, `async_receive` | the TUN/TAP device |
| protocol base class, `base_protocol.hpp` | one output queue per layer | `enqueue`, `dispatch` | every layer |
| headers, checksums, buffers, `*_header.hpp`, `utils.hpp`, `skbuff.hpp` | the memory of a packet, its head and tail | `produce_to_net`, `consume_from_net`, `checksum`, `push_front`, `pop_front`, `encode_options`, `decode_options` | every layer writes in front of the same buffer |

What is hard to test, and where the properties aim:

* **interleaving**: the handler of a completed read calls the application and
  then sends an acknowledgment from whatever the TCB is by then; the sending
  loop posted by a write competes with acknowledgments that carry data; reports
  of several connections wait in one queue;
* **the network**: lost, duplicated and reordered segments, with no
  retransmission in the code;
* **numeric edges**: 32-bit sequence numbers compared without regard to the
  wrap, differences that wrap when an acknowledgment is old, a `std::clamp`
  with crossed bounds;
* **limits**: send and receive queues of fixed capacity guarded by `assert`,
  an empty queue of waiting accepts, a random port that is taken;
* **protocol sequences**: `next_state_` runs ahead of `state_` and is caught up
  with by whatever segment is sent next;
* **liveness**: acknowledgments that the peer has to ignore, resolutions that
  nobody completes;
* **partial failure**: a device read or write that fails is not started again;
  the callback of an interception throws when the packet is already moved;
* **buffers**: one buffer per packet with headroom for all layers, memory that
  is not initialised, a pseudo header written over the room of the IPv4 header,
  replies built in the buffer of the request, a read buffer of 1500 bytes;
* **bytes**: sums in the byte order of the host, an odd byte, carries, options
  of other stacks.

What makes each part correct: a TCB stays on its life cycle, reports its
connection once, keeps within the peer's window and never holds data back from
a waiting read; a connection delivers the bytes written, in order and once; the
manager hands every connection to exactly one socket, the right one; a packet
leaves the host once, in order and with the right addresses; a packet received
goes to one raw socket or to the TCBs, never to both; the peer accepts and
understands the bytes of every frame.
`PROJECT.json` lists the hazards line by line.

## 2. Modules

| module | models | state and actions |
|---|---|---|
| `TcbOps` | `tcb.cpp`, every method that changes a TCB | operators from context to context; a context is the TCB, what it posted, what it enqueued, early return, failed assert |
| `Application` | calls on a socket, the read completion handler | `app_call`, `read_handler` |
| `Tcb` | one TCB, arbitrary peer and application | `Receive`, `AppCall` and one action per kind of posted handler |
| `TcbLifeOps`, `TcbLife` | what a TCB promises to its manager | the states and the report |
| `Connection` | two hosts, a network | `async_connect`, `RxReady`, `RunRx`, one action per handler, `Lose`, `Duplicate`, `Swap` |
| `TcbManager` | `tcb_manager.cpp`, `acceptor.cpp`, accepting and connecting sockets | `new_acceptor`, `async_accept`, `async_connect`, `process`, `RunEstablished` |
| `Neighbour` | `arp.cpp`, `neigh_cache.hpp`, sending in `ipv4.cpp`, routes, the queues of `base_protocol.hpp`, output of `ethernet.cpp` and `device.cpp` | `process` (a packet to send), `Receive`, `Answer`, one action per kind of posted handler, `WriteDone`, `WriteFail`, `ReadFail` |
| `Channel` | what the layers below TCP promise: one FIFO queue | `Put`, `Deliver` |
| `RawTcp` | `tcp.cpp`, `raw_socket.cpp`, `interceptor.cpp` | `make_packet`, `async_read`, `async_write`, `process`, `attach`, `detach`, `new_interceptor`, `async_intercept`, one action per kind of posted handler |
| `Frame` | the bytes of one packet: `skbuff.hpp`, the headers, `utils.hpp`, options in `tcb.cpp`, `icmp.hpp`, `process` and `make_packet` of `tcp`, `ipv4`, `ethernetv2`, `arp` | one action per layer and direction, `async_receive`, `raw_write` |
| `MCTcb`, `MCTcbManager`, `MCNeighbour`, `MCRawTcp`, `MCFrame` | instances for TLC | |
| `Positions` | the rank of a position among others, used by `Neighbour` | |
| `TcbOpsProofs`, `TcbProofs` | proofs about `TcbOps` and `Tcb` | |
| `QueueLemmas` | facts about queues and ranks that the proofs below share | |
| `ConnectionProofs`, `TcbManagerProofs`, `RawTcpProofs`, `NeighbourProofs`, `FrameProofs` | proofs about the module each is named after | |

How they fit: `Tcb` and `Connection` both use the operators of `TcbOps`.
`Tcb` is shown to implement `TcbLife` (`ImplementsTcbLife`); `TcbManager` uses
the successor relation of `TcbLife` for its TCBs instead of the TCBs
themselves, which keeps it small. `Connection` assumes that the layers below
TCP keep the order of segments; `Neighbour` is shown to implement `Channel`
(`ImplementsChannel`) with the queues of its layers and of the device as the
one queue, from the moment a packet's next hop is resolved. `RawTcp` stands
between the two: `WritesInOrder` gives the same for the queue of `tcp`.
`Frame` follows one packet through the layers that the other modules take as
given, and asks what its bytes say.

Correspondence with the code:

* `tcb_t::process` is `process`: the branch on the state, the sequence number
  test, RST and SYN (both end the processing in every remaining state), then
  `process_ack`, `process_text`, `process_fin` for the fifth, seventh and eighth
  step. The URG step has no effect.
* `make_packet` changes the TCB as well: it advances SND.NXT and sets
  `state_ = next_state_`. `make_and_send_pkt` is therefore the only way in which
  a pending state is reached.
* `send_app_data` is the whole loop of the posted handler, cut into segments of
  one MSS.
* `+` and `-` on sequence numbers wrap (`Add`, `Sub`), comparisons do not; the
  sum in the text step is a 64-bit one, as in the code.
* `send_` is not initialised by the constructor; `UninitMss` is the set of
  values its MSS may happen to have. `std::clamp` with crossed bounds is
  undefined, and `clamp` returns both outcomes of the library's two forms.
* The asserts are active (the default build is Debug): a failed one sets
  `abort` and stops the host.
* Segments are modelled after parsing; a payload byte is its position in the
  stream (`Connection`) or a single value (`Tcb`, where only lengths matter).
* `Connection`: the device has one read outstanding and starts the next when
  its handler returns, so one `rx` handler at most waits in the queue among the
  posted ones. `Tcb` is coarser: a segment may arrive between any two handlers.
* `Neighbour`: the completion of a device read and a packet from TCP are
  handlers that depend on nothing but their input, so running them between any
  two posted handlers gives the behaviours of the one queue of the io_context.
  `on_replies_` is called within the handler of a reply, a cached resolution by
  a posted one; `enqueue` posts a handler that takes whatever is in front. A
  frame is its addresses and, for a packet, its identification, which tells
  packets apart. The own entry is in the cache from the start, as the assert in
  `ipv4::process` demands. `send_front_pkt_out` moves the frame out of the front
  of `out_skb_q_` and leaves an emptied entry there: `out_q` names each entry by
  the frame that was pushed into it, and `writing` is the frame that was moved
  out. A write that fails destroys its frame; the entry stays, keeps the queue
  from ever having the size 1 again, and so no frame behind it is written
  (`WriteFail`). For `EachPacketOnce` that entry is the place of the packet which
  was destroyed.
* `RawTcp`: a packet is its number of arrival. A *session* is the life of one
  `raw_state`, from `attach` or an interception to `detach`; it numbers the
  packets captured and the reads made. A callback may read again before it
  returns (`Callback`). The callback of an interception may also throw
  (`tcp.cpp:111`), before or after a read: the packet was moved into the
  `raw_state`, which is erased, so it is lost, or belongs to the posted completion
  of that read (`Threw`). What `make_packet` goes on with are its *remains*,
  `intact = FALSE`: an `skbuff` without a buffer whose pointers are still those of
  the old one. `PacketInOnePlace` is about whole packets and says when remains may
  be about.
* `Frame`: a buffer is its memory, `head` and `tail`; `ok` is the conjunction of
  all asserts and of all accesses being inside the memory, and a host whose
  `ok` is FALSE stops. Memory nobody wrote is `Uninit`, which is no byte. A
  number is its digits, most significant first; `Memory` and `ntoh` reverse
  them, so that the byte swaps of the code are there and cancel where they
  should. The checksum is a recursive function over the words as the host reads
  them; the reference it is compared with (`Verifies`) is stated over words in
  network order. `Foreign` frames come from another stack, with its options. What
  the read buffer cannot hold of a frame is cut off (`Truncated`). The byte behind
  a window scale that ends the options (`tcb.cpp:84`) is an access at the end of
  the options, behind a frame without text; the device allocates 1500 bytes for
  every frame, and `Segment` asks that the access is inside of them (`past`).
* A definition ending in `_faulty` is its namesake with one plausible mistake;
  no specification uses it. Each property is checked to fail when the mistake
  is put in.

## 3. Runs

| run | question | result |
|---|---|---|
| `TcbAny` | any segment at any time, any calls: does the TCB keep its life cycle, its single report, the bound on what is in flight, the exclusion of waiting reads and queued data, does it take no text behind a FIN, and does it implement `TcbLife`? | holds, 95 357 states |
| `ConnFifo` | two hosts, order-preserving network: is every byte in one place, in order, also while the MSS is not initialised? | holds, 428 000 states |
| `ConnFaults` | with two faults among loss, duplication and exchange: do the two windows agree, does no receive queue overflow, does the server never run ahead of the client? and do duplicates alone leave the stream intact and nothing forgotten? | holds, 1.7 million states |
| `ConnLive` | does the handshake end, is what is written read, does a host that only reads acknowledge everything? | holds, 12 228 states |
| `ManagerAll` | does each connection reach one socket, the right one; does the first rule own it; does the accept loop lose none? | holds, 516 000 states |
| `NeighbourAll` | while ARP frames of all kinds arrive and device calls fail: is every packet in one place, does it carry the right addresses, are the queues together one FIFO channel, who is overtaken, is everything written in the end? | holds, 149 858 states |
| `RawTcpAll` | raw sockets and interceptors attach, read, write, detach and throw while packets arrive: is every packet in one place, are reads and packets paired in order and once, which completions are overtaken, is every read with a packet completed? | holds, 269 100 states |
| `FrameAll` | segments, SYNs, echo and ARP packets byte by byte between two hosts: does every header fit, is every byte on the wire written, do the checksums verify, does the other host understand what was meant, also from a raw socket that sends a packet back? | holds, 30 281 states |
| `BadReorder` | "If the ACK is a duplicate (SEG.ACK < SND.UNA), it can be ignored" | violated: a late acknowledgment wraps and empties the send queue |
| `BadLoss` | "further processing is done in SEG.SEQ order" | violated: a segment behind a gap is taken in its place |
| `BadTwoWay` | acknowledgments are `<SEQ=SND.NXT>` and so acceptable | violated: they carry SND.UNA and are ignored while own data is in flight |
| `BadPort` | `assert(on_connection_established_)` | violated when a drawn port is taken |

Divergences that were met while modelling and have no run of their own:

* The cases of the FIN step fall through, so that TIME-WAIT is pending after a
  FIN in ESTABLISHED and the next segment sent leaves CLOSE-WAIT, where the
  comments at `tcb.cpp:1072` and `tcb.cpp:1105` ask to enter it and to remain.
  `Lifecycle` and `TcbLife` allow what the comments ask for, CLOSE-WAIT in both
  states, as well as what the code does, CLOSE-WAIT and then TIME-WAIT in
  `next_state_`; the first is never reached.
* The FIN step does not return waiting reads, although the comment at
  `tcb.cpp:1063` asks for it. `NothingAfterFin` shows what this means: after a
  FIN no later segment brings text, so such a read waits for ever.
* SYN-SENT accepts an acknowledgment equal to the ISN (`tcb.cpp:435`) where the
  comment at line 471 asks for a reset.
* With an ISN of 2^32 - 1 the SYN-RECEIVED test at `tcb.cpp:814` compares
  across the wrap and never holds, so that connection is not established
  (comment at line 809).
* Two waiting reads and a segment that fills only the first fail the assert at
  `tcb.cpp:1003`. `WaitingReadMeansNoData` therefore is about one waiting read,
  which is what the applications do.
* The window scale is read from `buf[3]`, one byte behind its option
  (`tcb.cpp:84`), in a SYN of Linux one byte behind the frame; nobody uses the
  value. It is inside the read buffer, as `BufferSafe` shows, because options
  that fit the data offset end at byte 94 of the frame at the latest.
* The read buffer has 1500 bytes with the Ethernet header (`device.cpp:55`), the
  MTU has 1500 without it (comment at `tcb.cpp:1135`). The MSS of 1446 takes this
  into account, an echo request does not know of it: of more than 1458 bytes of
  data the end is cut off and missing from the answer (`Answered`).
* `ipv4::make_packet` ignores `total_length` (`ipv4.cpp:107`): the padding of a
  short frame becomes text of its segment. `TcpUnderstood` excludes padded
  frames for this reason, `Answered` does not.
* `tcp::make_packet` moves the packet into the raw state before the callback of
  the interception runs; when that throws, later rules and the TCBs get what is
  left of it, pointers into a buffer that was freed or now belongs to a read
  (`tcp.cpp:111`). `PacketInOnePlace` counts the packet itself as lost or read;
  what a TCB would make of its remains is undefined and not modelled.

**Bounds.** `TcbAny`: sequence numbers modulo 8, window 3, segments with
sequence numbers 0 to 5, acknowledgments 0 to 4 and up to two bytes, writes of
one or two bytes against a peer window of 2, at most one posted handler when a
segment is taken. The space wraps (RCV.NXT reaches 7 and goes on to 0, an old
acknowledgment is a large difference), the send queue fills and overflows, a
segment is longer or shorter than a read. `Connection`: modulo 16, up to four
bytes in all, an MSS of 1 and 2, so that a write is cut into several segments
and both directions are in flight at once; two faults suffice for a duplicate
of a segment whose answer is lost, and for two exchanges. The connection runs
are bounded by what the applications write, so a run ends with nothing left to
do and deadlock is not an error. `TcbManager`: two remotes, two ports of which
one is listened on by two acceptors and both are drawn for connections, three
sockets; remotes and sockets are interchangeable. `Neighbour`: two packets, two
hops, three routing tables (with and without a default, two destinations with
one hop), two ARP frames out of five nobody asked for (request and reply of a
hop, a zero address, both kinds claiming the own address) and any number of
answers. Two packets to one hop are enough for one to overtake the other and
for a second resolution after a completed one. `RawTcp`: two pairs of ends, of
which one is matched by two interceptors and the other by none, and five calls
and arrivals in all (`MaxEvents`). Overtaking takes all five (attach, a packet, a
read that is posted, a read that waits, a packet for it), two throwing
callbacks for one packet take three, four if the first of them reads. `Frame`:
every payload of up to four bytes out of 0, 1 and 255, so that words of zeros,
carries and odd lengths occur, and four longer ones: of the MSS, of one byte more,
of what the buffer holds of an echo request, and of one byte more; a read buffer
of 79 bytes in place of 1500, which makes the MSS 25, odd and longer than an option list; the
options of Linux, of this stack, none, and an unknown one; frames padded by 0
or 2 bytes. A frame has an end, so a run of `Frame` stops; the calls of
`RawTcp` are bounded: deadlock is not an error in either.

What `NeighbourAll` shows of ARP beyond its properties: a request of the hop
fills the cache and leaves those that wait in `on_replies_` behind
(`Stranded`), later packets overtake them and no request is made for them
again. A reply completes resolutions with its sender address even when
`update` refuses that address. `process_request` answers for every cached
address, not only the own one.

What `RawTcpAll` shows of raw sockets beyond its properties: completions of
reads are not in the order of the reads. One that finds a packet queued is
posted, one that waits is called within the handler of the arrival and so
overtakes it (`OnlyPostedAreOvertaken` says that this is the only case).
`detach` forgets queued packets and waiting reads without a word, and a rule
captures the next packet of the same ends again, whether an interception waits
for it or not.

**Fairness** (`ConnLive`, `BadTwoWay`): weak fairness of running the
next handler and of completing a device read, which `io_context::run` and the
kernel give; of the client's `async_connect`; and of reading, since the
application of `main.cpp` always reads again. Writing is not fair. The network
of these runs has no faults: without retransmission a loss is final.
`NeighbourAll`: weak fairness of the next handler, of completing a write, and
of a neighbour answering a request that was written; a failed read or write is
permanent in the code and ends the obligation. `RawTcpAll`: weak fairness of the
next handler only; the application owes nothing.

## 4. Proofs

For every sequence number space, window, set of segments, set of calls and
initial state allowed by the assumptions `TcbConstants` (the window is positive
and smaller than the space), `ApplicationConstants` and `TcbEnvironment`
(segments, buffers and initial sequence numbers are well formed):

* `TypeCorrect`: `Spec => []TypeOK`. One lemma per operation (`TcbOpsProofs`)
  says that it maps a well-formed context to a well-formed one; every step
  commits such a context.
* `LifeIsOrderly`: `Spec => [](Lifecycle /\ NotifiedOnce)`. The inductive
  invariant is `TypeOK /\ Lifecycle /\ NotifiedOnce`. `Lifecycle` alone is not
  inductive: in SYN-SENT `next_state_` is already ESTABLISHED, and a posted
  handler that sent something would complete the move without a report.
  `NotifiedOnce` excludes it, because it also says that no handler waits and no
  socket exists during the handshake; and it needs `Lifecycle` to know that a
  report can come from the handshake only. The lemmas on `process_ack`,
  `process_text` and `process_fin` carry `Moved` (which moves of the state are
  made with and without a report) through the three steps.
* `LifeStatesArePaired`: `Spec => []Lifecycle`, the half of it that a run names.
* `TcbImplementsTcbLife`: `Spec => ImplementsTcbLife`, from the same lemma
  `StepMoves`: each step maps to a step of `TcbLife` or to a stutter.
* `FlightIsBounded`: `Spec => []InFlightBounded`. What is in flight is
  SND.NXT - SND.UNA modulo the space. Sending moves SND.NXT by no more than the
  unsent rest of the queue (`AdvanceFlight`), which is within the capacity; an
  acknowledgment, clamped or not, brings SND.UNA no further away from SND.NXT
  (`ClampShrinks`); the SYN exchange sets both anew. The SYN-SENT clause is
  needed because the capacity is replaced there without the sequence numbers
  being reset.
* `ReadsWaitForWantOfData`: `Spec => []WaitingReadMeansNoData` when
  `MaxReads <= 1`, which is what the applications do; with two waiting reads the
  assert fails (section 3), so the bound is part of the statement. The
  strengthening is that the bound on calls bounds the queue of waiting reads:
  the text step serves one read and queues the rest, and only the last read may
  be served so.
* `FinEndsTheText`: `Spec => NothingAfterFin`, from `Lifecycle`: the ACK step may
  move CLOSE-WAIT to TIME-WAIT before the text step looks at the state, and
  nowhere else.

**Connection**, for any number of bytes, sizes of writes and reads, MSS, initial
sequence numbers, and any number of segments lost, duplicated and reordered, from
`ConnectionConstants`:

* `ConnectionTypeCorrect`: `Spec => []TypeOK`. `StepShape` shows that every step
  is one of the network, which adds nothing to what is coming to a host
  (`NetStep`), or one of a host that leaves a context behind (`HostStep`) which
  comes from `async_connect`, a segment, a call or the sending handler (`From`).
  The later proofs need to look at these four only.
* `ConnectionServerAfterClient`: the inductive invariant is `Handshake`. The
  states of the two sides alone do not show that the client is first: `FlagsOK`
  says which segments may be under way in which states, also as old
  duplicates, `Quiet` that no handler and no socket exists that could send
  before the connection is established, `OrderOK` how far one side is when the
  other one is somewhere.
* `ConnectionWindowsAgree` and `ConnectionNoReceiveOverflow`, under the
  hypothesis `NoWrap`: an initial sequence number leaves room in the sequence
  number space for what each application writes. The hypothesis is needed: the
  code compares sequence numbers as plain integers, and with an initial number
  two below the end of the space TLC finds `WindowsAgree` violated. The code draws
  the number at random from all 2^32, so the theorems are about every draw but the
  last few, as many as bytes are written. The invariant is `Numeric`: each side
  `Fits` the other. Its send side keeps what is in flight, what waits and what may
  still be written within the window and the space (`SendSide`), it has received
  no more than was sent and the sender knows of no more (`Agrees`), and every
  segment that is coming, however old, is one that the sender as it is *now* may
  have sent (`SentBy`). The last is what the network cannot disturb, and what the
  receiver needs to take a segment. `TextSide` is the heart of the second
  theorem: text is taken only when it is behind all that was received, and ends
  no later than SND.NXT, which is at most one window above SND.UNA and so at most
  one window above RCV.NXT.
* `ConnectionDuplicatesHarmless` and `ConnectionStreamIntact`,
  under `NoWrap` and `EdgeNotZero`. `EdgeNotZero` says that RCV.NXT + RCV.WND
  never is sequence number 0. It is needed too: `tcp_check_segment` lacks
  "SEG.SEQ <" and compares the edge itself, so that at edge 0 all text is refused;
  once the application has read on, the edge is another one, and later text is
  taken behind a gap. With a window of 4, an initial number of 10 and 16 sequence
  numbers TLC finds `DuplicatesHarmless` violated without any fault, and with a
  window of 2 and an initial number of 11 `StreamIntact`. `ConnFaults` and `ConnFifo` satisfy both
  hypotheses. `ConnectionStreamIntact` has two more, which say what the property
  is about: no faults, and at most one waiting read, as the applications have; with
  two of them the assert that the receive queue is empty ends a host in the
  middle of a segment (section 3).

  The invariant is `Agreed /\ StreamInv`: as long as nothing was lost or swapped,
  `Streams`. It fixes where a stream begins, `Origin`, from the sender alone: the
  number of the first byte the application ever wrote. Then byte i of the stream
  has number `Origin + i - 1` everywhere: in the send queue (`Sender`), in
  what the other host got and what waits there (`Receiver`), and in each segment under
  way, however old (`Carries`). The order is in `Chain`: going along the line from
  what was received, each segment with text begins no later than where the ones
  before it have ended, and the line ends at SND.NXT. It allows old text between
  new, which is what duplication puts there; without duplicates the line is
  `Strict`, no byte is in it twice, and the three parts of `StreamIntact` follow
  each other. That nothing is forgotten needs that acknowledgments on the line do
  not descend (`Acks`) and acknowledge no more than was received. A step of a host
  changes both streams, as the target of one and the source of the other
  (`StreamKept`); a duplicate copies a segment to behind its first copy.

**TCB manager**, for any sets of remotes, ports, acceptors and sockets, from
`TcbManagerConstants` (the ephemeral ports and the ports of acceptors are ports):

* `ManagerTypeOK`, `ManagerEachConnectionOnce`, `ManagerFirstRuleOwns`,
  `ManagerSocketGotWhatItAsked`: the four invariants of `ManagerAll`. None is
  inductive alone. That a connection is in one place needs to know whose it is:
  a TCB made by `async_connect` belongs to one socket that asked for nothing
  else (`ConnectorsKnown`), the sockets in `cbs_` hold nothing yet and wait once
  (`WaitersKnown`), a socket holds a TCB made for it or accepted by its acceptor
  (`HoldersKnown`), and a TCB reports only at the end of its handshake
  (`NoEarlyReport`), so that a second report cannot come. `FirstRuleOwns` is
  kept because rules are only appended.
* `ManagerAcceptLoopLosesNothing`: an action property. With the loop of
  `main.cpp` an acceptor that was asked once has a socket in `cbs_` as long as
  sockets are left (`LoopWaits`), since its callback appends one before it returns.

**Raw sockets**, for any ends, interceptors and matching, and any number of
events, from `RawTcpConstants`:

* `RawTcpTypeOK`, `RawTcpReadsPaired`, `RawTcpPacketInOnePlace`,
  `RawTcpWritesInOrder`: the invariant ties a `raw_state` to its session: its
  `pq` holds the packets captured behind the last pair, its `on_data_receive`
  the reads behind the last pair, and one of them is empty (`RawIs`); what was
  given to a read, posted or completed, is the pair of its number
  (`GivenFits`), and is given once (`GivenOnce`); a packet was
  dispatched once, captured once, or lost with a callback that threw, and one
  that was captured is lost only with its session (`OncePlaced`); if there are
  remains of it, it has been moved away, to nowhere or to its read (`MovedAway`);
  the packets that left, with those queued, are all that was written, in order,
  and a handler that completes a write has the handlers that hand over that
  packet and all before it in front of it (`LeaveKnown`). Each call is cut into
  what it does to one `raw_state` (`Moved`, `PairMade`), so that the callback of
  a read, which may read again, is one lemma and not one per caller.
* `RawTcpOnlyPostedAreOvertaken`: an action property over the same invariant.

**Neighbour**, for any hops, destinations, routing tables, ARP frames and
packets, from `NeighbourConstants` (the own address and those of neighbours are
valid MAC addresses, the broadcast address is not one, routes lead to hops):

* `NeighbourTypeOK`, `NeighbourHandlersMatchQueues`, `NeighbourRightAddress`,
  `NeighbourEachPacketOnce`: the invariant has three parts. `Queues`: one posted
  handler for each frame of a layer, and what the device writes is the front of
  its queue. `Addresses`: the own entry of the cache is never replaced, and
  every other entry was announced by its hop; without it a frame would have the
  right address now and a later one a wrong one. `FlowNow`: the packets in the
  queues, with their callbacks and in `on_replies_` are told apart by their
  identifications, none is there twice, and none is missing.
* `NeighbourImplementsChannel`: `Spec => ImplementsChannel`. The lemma behind it
  is `Moves`: a step either moves the front of the one queue to the wire or adds
  frames at its end. What makes this hard is that `ipv4` and `arp` share the
  queue of handlers and have queues of their own: the order in which frames
  reach Ethernet is that of their *handlers*. `Rank` numbers the handlers, and
  taking the first of them shifts the ranks of all others by one.
* `NeighbourOnlyStrandedAreOvertaken`: the invariant knows that a packet to a
  hop that is in the queues was sent before those that still wait for it, unless
  they are stranded (`FlowOrder`).

**Frame**, for any addresses, header fields, text and echo data, read buffer,
identifications, padding and options of a foreign SYN, from `FrameConstants` (the
constants are digits of the right width, a packet is no longer than
`total_length` can say, nor is the read buffer, which holds the SYN of
`start_connecting`) and
`OptionsLaidOut` (the options of a foreign SYN are one behind the other, each
with its length, up to the end or to an unknown one, and `mss` is what the last
MSS option says; they fit the data offset and the read buffer):

* `FrameTypeOK`, `FrameBufferSafe`, `FrameWireInitialised`,
  `FrameReceiverAccepts`, `FrameTcpUnderstood`, `FrameAnswered`: the six
  invariants of `FrameAll`. The inductive invariant is `Layout`: for each layer,
  how much headroom is left in the buffer and which bytes are in it. `AtTcp` says
  that a buffer has 34 bytes of headroom and holds the segment that was meant,
  `AtIpv4` also that the checksum of the message is right, `AtEth` that
  there is a packet which a receiver accepts, or an ARP packet, and so on up to
  `AtEnd`. There is one lemma per layer (`TcpStep` ... `ArpStep`) which says that
  what it leaves behind is what the next one needs, and one per way in which a
  packet is made. `BufferSafe` alone is not inductive: whether the headers fit
  depends on the headroom, and whether the options are in the
  buffer on what the data offset says that the sender wrote. A device may cut a
  frame, and then the packet no longer tells what was meant: the invariant says
  that for some m, which is `meant` until a device has read the frame and
  `Fit(meant)`, as much of it as the read buffer holds, from then on, all layers
  hold what they need to tell m (`LayoutOf`). `ReceiveStep` is the step from the
  one to the other, and `FitAgain` says that a raw write or an answer, which is
  read by the other device, is not cut once more.
* `ChecksumVerifies` is the lemma about `utils::checksum`: with the complement of
  the sum in a place that was 0, the sum of the words in *network* order is 0 in
  one's complement, for every buffer of every length. The code sums in the order
  of the host. 256 times a word is the word with its bytes swapped plus a
  multiple of 65535 (`Swapped`), so the two sums are multiples of 65535 together
  (`MultipleSwapped`), the last byte of an odd length included; `folded` is what
  it was up to a multiple of 65535 and 0 for 0 only (`FoldedIs`), so that the sum
  is not 0 itself.
* `DecodeIs` is the lemma about `decode_options`: on options that are laid out as
  they should be it finds the last MSS, and no assert in it fails.

These functions are recursive. That they have the values which their equations
say is shown by building such a function up to each n (`SumsExist`,
`DecodesExists`), by the induction over sets below.

Minima of sets of numbers, which the proofs about ranks need, come from
`LeastNat`: a set of numbers that is not empty has a least one, because the
proper-subset order on finite sets is well founded, a theorem of the library
that takes the place of an induction. In the same way `SetInduction` gives
induction over the numbers of a set, which is enough for what the proofs say of
`FlattenSeq`: the texts of a queue put together (`BuildsExists`, `FillsText`).

Only model-checked:

* the liveness properties (`Written`, those of `ConnLive` and of `RawTcpAll`):
  temporal reasoning under fairness is outside the prover's reach.

## 5. Not modelled

Routes are set up before the host runs and never change in the code; `reset` of
the routing table and of the neighbour cache and `rule_insert_front` have no
caller. Copying an `skbuff`, `pop_back` and `push_back` have none either.
Parsing and printing of addresses, comparison operators, logging, opening the
TAP device and the command line keep no state that a property could be about.
The callback of an interception that calls `detach` and then throws makes
`tcp.cpp:115` erase through an iterator that is no longer valid, and after any
throw the erased iterator is the hint of the next `emplace_hint`: undefined
behaviour of the library, of which `RawTcp` takes the outcome that nothing else is
touched, and leaves out the first. A callback that throws makes one read at most
in the model; further ones would wait and be erased with the `raw_state`.
`socket::async_read`, which repeats `async_read_some`, is no step of its own.
The queues that `tcb_manager` and `icmp` inherit are the same code as the ones
in `Neighbour` and `RawTcp` and are not modelled a third time. TCP options other
than MSS, urgent data and the congestion fields of `send_` have no effect on a
TCB. There are no timers, no close and no RST handling in the code, so none in
the model; TCBs are never removed.

## 6. Plan

1. *Done*: `TcbOps`, `Tcb`, `Application`, `Connection`, `TcbLife`,
   `TcbManager`; types, life cycle, refinement and flight bound
   proved.
2. *Done*: `Neighbour`, from the route to the device, by model checking.
3. *Done*: `RawTcp`; `Channel` and its implementation by `Neighbour`; `Frame`
   with checksums and options; all by model checking.
4. *Done*: proofs in `Tcb`, `TcbManager`, `RawTcp` and `Neighbour` of every
   property that is not a liveness property, the refinement of `Channel` included.
5. *Done*: proofs in `Connection` of `TypeOK`, `ServerAfterClient`, `WindowsAgree`
   and `NoReceiveOverflow`, the last two without a wrap, and then of
   `DuplicatesHarmless` and `StreamIntact`.
6. *Done*: proofs in `Frame` of its six invariants, for every payload and all
   options that are laid out as they should be. Every invariant and every action
   property of a passing run is now a theorem.
