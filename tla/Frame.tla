------------------------------- MODULE Frame -------------------------------
(***************************************************************************)
(* One packet on its way through the layers of two hosts a and b, down to  *)
(* the bytes: the buffer it is built in (skbuff), the headers written in   *)
(* front of it, the checksums, the frame on the wire, and what the other   *)
(* host takes out of it.  Echo replies, ARP replies and packets written by *)
(* a raw socket reuse the buffer they were received in.                    *)
(*                                                                         *)
(* A number that a header holds is written as its digits to base 256, most *)
(* significant first.  Which packets are sent and where they are routed is *)
(* the matter of the other modules.                                        *)
(***************************************************************************)
EXTENDS Integers, Sequences, SequencesExt

CONSTANTS
    Mac, Ip,       \* the addresses of the hosts "a" and "b", as digits
    Headers,       \* TCP headers of segments, without flags and data offset
    Payloads,      \* what is sent in a TCP segment or an echo request
    Options,       \* the options of a SYN of another stack: see OptionsLaidOut
    Idents,        \* values of seq_, the identification of ipv4
    RxBuffer,      \* the size of the device's read buffer, 1500
    Pads           \* how many bytes may be added to a frame on its way

Byte == 0 .. 255
Uninit == 256      \* memory nobody has written to
Max16 == 65535     \* of a uint16_t

EthSize == 14
Ipv4Size == 20
TcpSize == 20
IcmpSize == 8
ArpSize == 28

\* As below, but without the Ethernet header, which is read into the buffer too.
Mss_faulty == RxBuffer - Ipv4Size - TcpSize

\* rcv_.state.mss of start_connecting, 1446 for a read buffer of 1500 bytes.
Mss == RxBuffer - EthSize - Ipv4Size - TcpSize

Host == {"a", "b"}
Other(h) == IF h = "a" THEN "b" ELSE "a"

\* The digits of a number of n bytes.
Number_t(n) == [1 .. n -> Byte]

ASSUME FrameConstants ==
    /\ \A h \in Host : Mac[h] \in Number_t(6) /\ Ip[h] \in Number_t(4)
    /\ \A h \in Headers : /\ h.src_port \in Number_t(2) /\ h.dst_port \in Number_t(2)
                           /\ h.seq_no \in Number_t(4) /\ h.ack_no \in Number_t(4)
                           /\ h.window \in Number_t(2)
    /\ \A p \in Payloads : p \in Seq(Byte) /\ EthSize + Ipv4Size + TcpSize + Len(p) <= Max16
    /\ Idents \subseteq Number_t(2)
    /\ RxBuffer \in Nat /\ RxBuffer <= Max16 /\ Mss > 8
    /\ Pads \subseteq Nat

VARIABLES
    host,   \* the host that handles the packet
    at,     \* the layer whose turn it is
    skb,    \* its buffer
    pkt,    \* the fields of tcp_packet, ipv4_packet and ethernetv2_frame
    meant,  \* history: what was to be told to the other host
    got,    \* what it understood
    padded  \* history: were bytes added on the way

vars == <<host, at, skb, pkt, meant, got, padded>>

-----------------------------------------------------------------------------
(* skbuff: head and tail are offsets into the memory; ok is FALSE once an    *)
(* assert has failed or memory outside of the buffer was touched.            *)

new_skb(n, head_off) ==
    [mem |-> [i \in 1 .. n |-> Uninit], head |-> head_off, tail |-> n, ok |-> head_off <= n]

check(s, cond) == [s EXCEPT !.ok = @ /\ cond]

pop_front(s, n) == check([s EXCEPT !.head = @ + n], s.head + n <= s.tail)

push_front(s, n) == check([s EXCEPT !.head = @ - n], s.head - n >= 0)

payload(s) == SubSeq(s.mem, s.head + 1, s.tail)

\* The n bytes at head + off.
bytes_at(s, off, n) == SubSeq(s.mem, s.head + off + 1, s.head + off + n)

\* memcpy(head + off, bytes).
put(s, off, bytes) ==
    LET first == s.head + off
        last  == first + Len(bytes)
    IN  IF first < 0 \/ last > Len(s.mem) THEN check(s, FALSE)
        ELSE [s EXCEPT !.mem = SubSeq(@, 1, first) \o bytes \o SubSeq(@, last + 1, Len(@))]

-----------------------------------------------------------------------------
(* Numbers and checksums *)

Digits(n) == <<n \div 256, n % 256>>
Number(d) == d[1] * 256 + d[2]

\* How a little-endian host keeps a number in memory, and byteswap.
Memory(d) == Reverse(d)
ntoh(d) == Reverse(d)

produce_to_net(d) == IF Len(d) > 1 THEN Memory(ntoh(d)) ELSE d

consume_from_net(bytes) == IF Len(bytes) > 1 THEN ntoh(Memory(bytes)) ELSE bytes

\* The sum of the numbers of s.
Total(s) ==
    LET sum[n \in 0 .. Len(s)] == IF n = 0 THEN 0 ELSE sum[n - 1] + s[n]
    IN  sum[Len(s)]

\* As below, but a byte that is left over is the high one of its word.
sum_every_16bits_faulty(buf) ==
    Total([n \in 1 .. Len(buf) \div 2 |-> buf[2 * n - 1] + 256 * buf[2 * n]])
        + (IF Len(buf) % 2 = 1 THEN 256 * buf[Len(buf)] ELSE 0)

\* The words are read in the byte order of the host.
sum_every_16bits(buf) ==
    Total([n \in 1 .. Len(buf) \div 2 |-> buf[2 * n - 1] + 256 * buf[2 * n]])
        + (IF Len(buf) % 2 = 1 THEN buf[Len(buf)] ELSE 0)

\* Its assert: a checksum is taken from an even address on.
summed(s) == check(s, s.head % 2 = 0)

\* A sum with its carry added to the low 16 bits.
carried(sum) == (sum % 65536) + (sum \div 65536)

folded[sum \in Nat] == IF sum <= Max16 THEN sum ELSE folded[carried(sum)]

\* As below, but the carries are not added.
checksum_faulty(buf) == Memory(Digits(Max16 - sum_every_16bits(buf)))

\* utils::checksum, in memory.
checksum(buf) == Memory(Digits(Max16 - folded[sum_every_16bits(buf)]))

-----------------------------------------------------------------------------
(* Headers *)

FlagBit == [FIN |-> 1, SYN |-> 2, RST |-> 4, PSH |-> 8, ACK |-> 16, URG |-> 32, ECE |-> 64, CWR |-> 128]

flag_bits(flags) ==
    LET bit(f) == IF f \in flags THEN FlagBit[f] ELSE 0
    IN  bit("FIN") + bit("SYN") + bit("RST") + bit("PSH") + bit("ACK") + bit("URG") + bit("ECE") + bit("CWR")

ethernetv2_header(p) == p.dst_mac \o p.src_mac \o produce_to_net(p.ether)

\* The data offset and the flags are in one number.
OffsetFlags(h) == h.data_offset * 4096 + flag_bits(h.flags)

tcp_header(h) ==
    produce_to_net(h.src_port) \o produce_to_net(h.dst_port)
        \o produce_to_net(h.seq_no) \o produce_to_net(h.ack_no)
        \o produce_to_net(Digits(OffsetFlags(h)))
        \o produce_to_net(h.window) \o <<0, 0, 0, 0>>

consume_ethernetv2_header(s) ==
    [dst_mac |-> bytes_at(s, 0, 6), src_mac |-> bytes_at(s, 6, 6),
     ether |-> consume_from_net(bytes_at(s, 12, 2))]

consume_tcp_header(s) ==
    LET field(off, n) == consume_from_net(bytes_at(s, off, n))
        bits == Number(field(12, 2))
    IN  [src_port |-> field(0, 2), dst_port |-> field(2, 2), seq_no |-> field(4, 4),
         ack_no |-> field(8, 4), data_offset |-> bits \div 4096,
         flags |-> {f \in DOMAIN FlagBit : (bits \div FlagBit[f]) % 2 = 1},
         window |-> field(14, 2)]

DontFragment == 16384

\* version and header length, tos, total length, id, DF, ttl, protocol, checksum.
ipv4_header(p, len, id) ==
    <<4 * 16 + 5, 0>> \o produce_to_net(Digits(len)) \o produce_to_net(id)
        \o produce_to_net(Digits(DontFragment)) \o <<64, p.proto, 0, 0>>
        \o produce_to_net(p.src) \o produce_to_net(p.dst)

\* Of the header the version, the protocol and the addresses are used.
consume_ipv4_header(s) ==
    [version |-> bytes_at(s, 0, 1)[1] \div 16, proto |-> bytes_at(s, 9, 1)[1],
     src |-> consume_from_net(bytes_at(s, 12, 4)), dst |-> consume_from_net(bytes_at(s, 16, 4))]

icmp_header(type, id, seq) == <<type, 0, 0, 0>> \o produce_to_net(id) \o produce_to_net(seq)

consume_icmp_header(s) ==
    [type |-> bytes_at(s, 0, 1), id |-> consume_from_net(bytes_at(s, 4, 2)),
     seq |-> consume_from_net(bytes_at(s, 6, 2))]

arpv4_header(oper, sha, spa, tha, tpa) ==
    produce_to_net(Digits(1)) \o produce_to_net(Digits(2048)) \o <<6, 4>> \o produce_to_net(Digits(oper))
        \o sha \o produce_to_net(spa) \o tha \o produce_to_net(tpa)

consume_arpv4_header(s) ==
    [htype |-> consume_from_net(bytes_at(s, 0, 2)), ptype |-> consume_from_net(bytes_at(s, 2, 2)),
     oper |-> consume_from_net(bytes_at(s, 6, 2)),
     sha |-> bytes_at(s, 8, 6), spa |-> consume_from_net(bytes_at(s, 14, 4)),
     tpa |-> consume_from_net(bytes_at(s, 24, 4))]

kMSS == 2
kWS == 3
kSACK == 4
kTSO == 8
kNOP == 1

\* As below, but without the NOPs.
encode_options_faulty(mss) == <<kMSS, 4>> \o produce_to_net(Digits(mss)) \o <<kSACK, 2>>

\* The options of start_connecting: MSS, two NOPs, SACK.
encode_options(mss) == <<kMSS, 4>> \o produce_to_net(Digits(mss)) \o <<kNOP, kNOP, kSACK, 2>>

\* The length that is asserted for each option.
OptionSize == [t \in {kNOP, kMSS, kWS, kSACK, kTSO} |->
                CASE t = kNOP -> 1 [] t = kMSS -> 4 [] t = kWS -> 3 [] t = kSACK -> 2 [] t = kTSO -> 10]

\* The last MSS among the options, and whether the asserts hold; an unknown
\* option ends the options.  The window scale, which nobody uses, is read from
\* the byte behind its option: past tells that this is one byte past the options.
decode_options(buf) ==
    LET from[i \in Nat] ==
            IF i > Len(buf) \/ buf[i] \notin DOMAIN OptionSize THEN [ok |-> TRUE, mss |-> <<>>, past |-> FALSE]
            ELSE LET n    == OptionSize[buf[i]]
                     rest == from[i + n]
                 IN  IF buf[i] = kNOP THEN rest
                     ELSE IF i + n - 1 > Len(buf) \/ buf[i + 1] # n
                     THEN [ok |-> FALSE, mss |-> <<>>, past |-> FALSE]
                     ELSE [ok   |-> rest.ok,
                           mss  |-> IF buf[i] = kMSS /\ rest.mss = <<>>
                                    THEN consume_from_net(SubSeq(buf, i + 2, i + 3)) ELSE rest.mss,
                           past |-> rest.past \/ (buf[i] = kWS /\ i + n > Len(buf))]
    IN  from[1]

\* In buf, an option that is known begins at position i.
Known(buf, i) == i <= Len(buf) /\ buf[i] \in DOMAIN OptionSize

\* The options of buf begin at the positions starts, one behind the other, up to
\* the end or to one that is not known, each with its length; the last MSS
\* option says mss.
LaidOut(buf, starts, mss) ==
    LET found == {i \in starts : Known(buf, i) /\ buf[i] = kMSS}
    IN  /\ 1 \in starts /\ starts \subseteq 1 .. Len(buf) + 1
        /\ \A i \in starts :
             IF Known(buf, i)
             THEN /\ i + OptionSize[buf[i]] \in starts
                  /\ buf[i] # kNOP => buf[i + 1] = OptionSize[buf[i]]
                  /\ \A j \in starts : i < j => i + OptionSize[buf[i]] <= j
             ELSE \A j \in starts : j <= i
        /\ IF found = {} THEN mss = <<>>
           ELSE \E i \in found : /\ \A j \in found : j <= i
                                 /\ mss = SubSeq(buf, i + 2, i + 3)

\* What another stack puts into its SYN, of a length that the data offset can tell.
ASSUME OptionsLaidOut ==
    \A o \in Options : /\ o.bytes \in Seq(Byte) /\ Len(o.bytes) % 4 = 0
                        /\ Len(o.bytes) < Mss /\ Len(o.bytes) <= 40
                        /\ LaidOut(o.bytes, o.starts, o.mss)

-----------------------------------------------------------------------------
(* Packets to send: tcb_t::make_packet, start_connecting, arp::async_request *)

\* The buffer s is handed to the next layer l together with the fields p.
Hand(l, s, p) ==
    /\ at' = l
    /\ skb' = s
    /\ pkt' = p
    /\ UNCHANGED <<host, meant, got, padded>>

To(h, proto) == [src |-> Ip[Other(h)], dst |-> Ip[h], proto |-> proto, ether |-> <<8, 0>>,
                 src_mac |-> <<>>, dst_mac |-> <<>>]

\* As below, but without room for the Ethernet header.
tcp_skb_faulty(h, rest) ==
    put(put(new_skb(Ipv4Size + TcpSize + Len(rest), Ipv4Size), 0, tcp_header(h)), TcpSize, rest)

\* A buffer with a TCP header and what is behind it.
tcp_skb(h, rest) ==
    put(put(new_skb(EthSize + Ipv4Size + TcpSize + Len(rest), EthSize + Ipv4Size), 0, tcp_header(h)),
        TcpSize, rest)

\* The fields of a header of n bytes.
tcp_header_t(h, n, flags) ==
    [src_port |-> h.src_port, dst_port |-> h.dst_port, seq_no |-> h.seq_no, ack_no |-> h.ack_no,
     data_offset |-> n \div 4, flags |-> flags, window |-> h.window]

\* What host a sends: a segment of a TCB, whose SYN is set in SYN-RECEIVED, ...
MakePacket ==
    \E h \in Headers, data \in Payloads, syn \in BOOLEAN :
        LET hdr == tcp_header_t(h, TcpSize, {"ACK"} \cup (IF data # <<>> THEN {"PSH"} ELSE {})
                                                   \cup (IF syn THEN {"SYN"} ELSE {}))
        IN  /\ syn => data = <<>>
            /\ meant = [kind |-> "tcp", hdr |-> hdr, mss |-> <<>>, data |-> data]
            /\ skb = tcp_skb(hdr, data)
            /\ at = "tcp" /\ pkt = To("b", 6)

\* ... the SYN of a connecting one, ...
StartConnecting ==
    \E h \in Headers :
        LET hdr == tcp_header_t(h, TcpSize + 8, {"SYN"})
            s   == new_skb(EthSize + Ipv4Size + TcpSize + 8, EthSize + Ipv4Size)
        IN  /\ meant = [kind |-> "tcp", hdr |-> hdr, mss |-> Digits(Mss), data |-> <<>>]
            /\ skb = put(put(s, 0, tcp_header(hdr)), TcpSize, encode_options(Mss))
            /\ at = "tcp" /\ pkt = To("b", 6)

\* ... a request for the address of host b.
ArpRequest ==
    /\ meant = [kind |-> "arp", sha |-> Mac["b"], spa |-> Ip["b"]]
    /\ skb = put(new_skb(EthSize + ArpSize, EthSize), 0,
                 arpv4_header(1, Mac["a"], Ip["a"], <<0, 0, 0, 0, 0, 0>>, Ip["b"]))
    /\ at = "eth"
    /\ pkt = [src_mac |-> Mac["a"], dst_mac |-> <<255, 255, 255, 255, 255, 255>>, ether |-> <<8, 6>>]

\* Another stack in the place of host a sends a SYN or an echo request.
Foreign(proto, rest) ==
    LET p == [To("b", proto) EXCEPT !.src_mac = Mac["a"], !.dst_mac = Mac["b"]]
        f == ethernetv2_header(p) \o ipv4_header(p, Ipv4Size + Len(rest), <<0, 0>>) \o rest
    IN  /\ skb = [mem |-> f, head |-> 0, tail |-> Len(f), ok |-> TRUE]
        /\ at = "air" /\ pkt = <<>>

ForeignSyn ==
    \E h \in Headers, o \in Options :
        LET hdr == tcp_header_t(h, TcpSize + Len(o.bytes), {"SYN"})
        IN  /\ meant = [kind |-> "tcp", hdr |-> hdr, mss |-> o.mss, data |-> <<>>]
            /\ Foreign(6, tcp_header(hdr) \o o.bytes)

ForeignEcho ==
    \E h \in Headers, data \in Payloads :
        /\ meant = [kind |-> "icmp", type |-> <<0>>, id |-> h.src_port, seq |-> h.dst_port, data |-> data]
        /\ Foreign(1, icmp_header(8, h.src_port, h.dst_port) \o data)

Init ==
    /\ host = "a"
    /\ got = <<>>
    /\ padded = FALSE
    /\ MakePacket \/ StartConnecting \/ ArpRequest \/ ForeignSyn \/ ForeignEcho

-----------------------------------------------------------------------------
(* Down the layers *)

\* The checksum is taken over a pseudo header that is written into the headroom
\* for the purpose.
with_tcp_checksum(s, p) ==
    LET cleared == put(check(s, Len(payload(s)) >= TcpSize), 16, <<0, 0>>)
        pseudo  == produce_to_net(p.src) \o produce_to_net(p.dst) \o <<0, p.proto>>
                        \o produce_to_net(Digits(Len(payload(s))))
        covered == put(push_front(cleared, Len(pseudo)), 0, pseudo)
    IN  put(pop_front(summed(covered), Len(pseudo)), 16, checksum(payload(covered)))

\* tcp::process.
tcp_process ==
    /\ at = "tcp" /\ skb.ok
    /\ Hand("ipv4", with_tcp_checksum(skb, pkt), pkt)

with_ipv4_header(s, p, id) ==
    LET r == put(push_front(s, Ipv4Size), 0, ipv4_header(p, Len(payload(s)) + Ipv4Size, id))
    IN  put(summed(r), 10, checksum(bytes_at(r, 0, Ipv4Size)))

\* ipv4::process with the next hop resolved.
ipv4_process ==
    \E id \in Idents :
        /\ at = "ipv4" /\ skb.ok
        /\ Hand("eth", with_ipv4_header(skb, pkt, id),
                [pkt EXCEPT !.ether = <<8, 0>>, !.src_mac = Mac[host], !.dst_mac = Mac[Other(host)]])

\* ethernetv2::process.
ethernetv2_process ==
    /\ at = "eth" /\ skb.ok
    /\ Hand("air", put(push_front(skb, EthSize), 0, ethernetv2_header(pkt)), pkt)

-----------------------------------------------------------------------------
(* On the wire and up the layers *)

\* The first n bytes, if there are more.
Truncated(bytes, n) == IF Len(bytes) <= n THEN bytes ELSE SubSeq(bytes, 1, n)

\* What a device reads of a frame to which n bytes were added on the way; what
\* its buffer cannot hold is cut off.
Read(frame, n) == Truncated(frame \o [i \in 1 .. n |-> 0], RxBuffer)

\* device::async_receive of the other host.
async_receive ==
    \E n \in Pads :
        \E read \in {Read(payload(skb), n)} :
            /\ at = "air" /\ skb.ok
            /\ host' = Other(host)
            /\ skb' = [mem |-> read, head |-> 0, tail |-> Len(read), ok |-> TRUE]
            /\ at' = "eth_in"
            /\ padded' = (padded \/ n > 0)
            /\ UNCHANGED <<pkt, meant, got>>

\* base_protocol::dispatch: who receives the packet; one of another protocol is
\* ignored.
dispatch(upper_protos, proto) ==
    IF proto \in DOMAIN upper_protos THEN upper_protos[proto] ELSE "end"

\* The wiring of netns.
eth_protos == [t \in {<<8, 0>>, <<8, 6>>} |-> IF t = <<8, 0>> THEN "ipv4_in" ELSE "arp_in"]
ipv4_protos == [t \in {1, 6} |-> IF t = 1 THEN "icmp_in" ELSE "tcp_in"]

ethernetv2_make_packet ==
    LET h == consume_ethernetv2_header(skb)
    IN  /\ at = "eth_in" /\ skb.ok
        /\ Hand(dispatch(eth_protos, h.ether), pop_front(skb, EthSize), h)

\* The header length, the total length and the checksum of the header are not
\* looked at.
ipv4_make_packet ==
    LET h == consume_ipv4_header(skb)
        s == check(skb, Len(payload(skb)) >= Ipv4Size)
    IN  /\ at = "ipv4_in" /\ skb.ok
        /\ IF h.version # 4 THEN Hand("end", s, pkt)
           ELSE Hand(dispatch(ipv4_protos, h.proto), pop_front(s, Ipv4Size),
                     [src |-> h.src, dst |-> h.dst, proto |-> h.proto, ether |-> pkt.ether,
                      src_mac |-> pkt.src_mac, dst_mac |-> pkt.dst_mac])

\* What the last layer takes out of the packet.
Understood(what, s) ==
    /\ at' = "end"
    /\ skb' = s
    /\ got' = what
    /\ UNCHANGED <<host, pkt, meant, padded>>

\* The header, the options and the text of a segment, and its buffer in the end,
\* for which the device has allocated RxBuffer bytes, however short the frame.
Segment(s) ==
    LET hdr    == consume_tcp_header(s)
        optlen == hdr.data_offset * 4 - TcpSize
        rest   == pop_front(check(s, Len(payload(s)) >= TcpSize), TcpSize)
        text   == pop_front(rest, optlen)
        opts   == IF "SYN" \in hdr.flags THEN decode_options(bytes_at(rest, 0, optlen))
                  ELSE [ok |-> TRUE, mss |-> <<>>, past |-> FALSE]
    IN  [what |-> [kind |-> "tcp", hdr |-> hdr, mss |-> opts.mss, data |-> payload(text)],
         skb  |-> check(text, opts.ok /\ (opts.past => rest.head + optlen < RxBuffer))]

\* tcb_t::process up to what it does with the text.
tcb_process ==
    /\ at = "tcp_in" /\ skb.ok
    /\ Understood(Segment(skb).what, Segment(skb).skb)

\* A raw socket of host b has captured the packet and writes it back: its local
\* end is the source now.
raw_write ==
    /\ at = "tcp_in" /\ skb.ok
    /\ host = "b"
    /\ Hand("tcp", skb, [pkt EXCEPT !.src = pkt.dst, !.dst = pkt.src])

\* As below, but the header that was received is answered with.
icmp_reply_faulty(s, id, seq) ==
    LET r == push_front(s, IcmpSize)
    IN  put(summed(r), 2, checksum(payload(r)))

\* icmp::async_reply.
icmp_reply(s, id, seq) ==
    LET r == put(push_front(s, IcmpSize), 0, icmp_header(0, id, seq))
    IN  put(summed(r), 2, checksum(payload(r)))

\* icmp::process: anything but a request is only logged.
icmp_process ==
    LET h == consume_icmp_header(skb)
        s == pop_front(check(skb, Len(payload(skb)) >= IcmpSize), IcmpSize)
    IN  /\ at = "icmp_in" /\ skb.ok
        /\ IF h.type = <<8>>
           THEN Hand("ipv4", icmp_reply(s, h.id, h.seq), [pkt EXCEPT !.src = pkt.dst, !.dst = pkt.src])
           ELSE Understood([kind |-> "icmp", type |-> h.type, id |-> h.id, seq |-> h.seq,
                            data |-> payload(s)], s)

\* arp::process: a request for an address of the neighbour cache, which knows
\* the host itself and now the sender, is answered in its own buffer.
arp_process ==
    LET h     == consume_arpv4_header(skb)
        cache == [ip \in {Ip[host], h.spa} |-> IF ip = Ip[host] THEN Mac[host] ELSE h.sha]
        s     == pop_front(skb, ArpSize)
    IN  /\ at = "arp_in" /\ skb.ok
        /\ IF h.htype # <<0, 1>> \/ h.ptype # <<8, 0>> THEN Hand("end", s, pkt)
           ELSE CASE h.oper = <<0, 1>> /\ h.tpa \in DOMAIN cache ->
                       Hand("eth", put(push_front(s, ArpSize), 0,
                                       arpv4_header(2, cache[h.tpa], h.tpa, h.sha, h.spa)),
                            [src_mac |-> cache[h.tpa], dst_mac |-> h.sha, ether |-> <<8, 6>>])
                  [] h.oper = <<0, 2>> -> Understood([kind |-> "arp", sha |-> h.sha, spa |-> h.spa], s)
                  [] OTHER -> Hand("end", s, pkt)

Next ==
    \/ tcp_process \/ ipv4_process \/ ethernetv2_process
    \/ async_receive
    \/ ethernetv2_make_packet \/ ipv4_make_packet
    \/ tcb_process \/ raw_write \/ icmp_process \/ arp_process

Spec == Init /\ [][Next]_vars

-----------------------------------------------------------------------------
(* Properties *)

Layer == {"tcp", "ipv4", "eth", "air", "eth_in", "ipv4_in", "arp_in", "tcp_in", "icmp_in", "end"}

TypeOK ==
    /\ host \in Host
    /\ at \in Layer
    /\ skb.mem \in Seq(Byte \cup {Uninit})
    /\ skb.head \in Int /\ skb.tail = Len(skb.mem) /\ skb.ok \in BOOLEAN
    /\ padded \in BOOLEAN

\* No assert on a buffer fails and no memory outside of it is touched, on the
\* way down a buffer that was made with room for the headers of all layers, on
\* the way up one that holds the frame, and when a layer answers in the buffer
\* of what it received.  The one access that may be behind the frame, of the
\* window scale that is the last option of a SYN, is not behind the read buffer.
BufferSafe == skb.ok

\* A frame of this stack, not one of another.
Sent == at = "air" /\ skb.ok /\ pkt # <<>>

\* A frame takes up its whole buffer, and every byte of it was written by some
\* layer: none of the memory that make_unique_for_overwrite leaves as it was
\* goes out.
WireInitialised == Sent => skb.head = 0 /\ Range(skb.mem) \subseteq Byte

\* The sum of the 16-bit words in network order, the last one filled up with 0.
Words(buf) ==
    LET byte(i) == IF i \in DOMAIN buf THEN buf[i] ELSE 0
    IN  Total([n \in 1 .. (Len(buf) + 1) \div 2 |-> 256 * byte(2 * n - 1) + byte(2 * n)])

\* In one's complement the sum is 0.
Verifies(buf) == Words(buf) > 0 /\ Words(buf) % Max16 = 0

\* A receiver that checks what it is told to check accepts every IPv4 packet
\* that was sent: the total length, the checksum of the header and the one of
\* the TCP segment (with its pseudo header) or of the ICMP message, whose sums
\* the code takes in the byte order of the host, with an odd byte left over.
ReceiverAccepts ==
    LET frame   == payload(skb)
        ip      == SubSeq(frame, EthSize + 1, EthSize + Ipv4Size)
        message == SubSeq(frame, EthSize + Ipv4Size + 1, Len(frame))
    IN  Sent /\ pkt.ether = <<8, 0>> =>
            /\ Number(SubSeq(ip, 3, 4)) = Len(frame) - EthSize
            /\ Verifies(ip)
            /\ IF pkt.proto = 6
               THEN Verifies(SubSeq(ip, 13, 20) \o <<0, 6>> \o Digits(Len(message)) \o message)
               ELSE Verifies(message)

\* A segment arrives as it was made, header, MSS option and text, also when a raw
\* socket sends it back; a SYN of another stack is understood.  Of text that is
\* longer than the advertised MSS allows, just what it allows arrives.  Not so if
\* the frame was padded on its way: the padding becomes text, since total_length
\* is not looked at.
TcpUnderstood ==
    at = "end" /\ meant.kind = "tcp" /\ ~padded => got = [meant EXCEPT !.data = Truncated(@, Mss)]

\* An echo request is answered by a reply with its data (and the padding of its
\* frame behind it, if any), an ARP request with the address asked for, and
\* nothing answers the answer.  Of data that the read buffer cannot hold behind
\* the headers, 1458 bytes of a request that may have 1472, the end is missing.
Answered ==
    meant.kind # "tcp" =>
        /\ at = "ipv4" => host = "b"
        /\ at = "end" => /\ host = "a" /\ got # <<>>
                         /\ IF meant.kind = "arp" THEN got = meant
                            ELSE LET data == Truncated(meant.data, RxBuffer - EthSize - Ipv4Size - IcmpSize)
                                 IN  /\ IsPrefix(data, got.data)
                                     /\ [got EXCEPT !.data = data] = [meant EXCEPT !.data = data]

=============================================================================
