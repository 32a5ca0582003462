------------------------------ MODULE MCFrame ------------------------------
(* Payloads of an odd and of an even length, of bytes that make words carry  *)
(* and words of zeros, the longest that the MSS allows and a longer one, and *)
(* the longest echo data that the read buffer holds and longer data; the     *)
(* options of a SYN as Linux and as this stack write them, none, and an      *)
(* unknown one.                                                              *)
EXTENDS Frame

MCMac == [a |-> <<2, 0, 0, 0, 0, 10>>, b |-> <<2, 255, 254, 1, 0, 11>>]
MCIp == [a |-> <<192, 168, 1, 1>>, b |-> <<10, 255, 0, 2>>]

MCHeaders ==
    { [src_port |-> <<4, 0>>, dst_port |-> <<31, 144>>, seq_no |-> <<1, 2, 3, 4>>,
       ack_no |-> <<255, 255, 255, 255>>, window |-> <<250, 240>>],
      [src_port |-> <<255, 255>>, dst_port |-> <<0, 80>>, seq_no |-> <<0, 0, 0, 0>>,
       ack_no |-> <<128, 0, 0, 1>>, window |-> <<0, 0>>] }

MCPayloads ==
    UNION {[1 .. n -> {0, 1, 255}] : n \in 0 .. 4} 
        \cup {[i \in 1 .. n |-> i] : n \in {Mss, Mss + 1, RxBuffer - 42, RxBuffer - 41}}

MCOptions ==
    { [bytes |-> <<>>, starts |-> {1}, mss |-> <<>>],
      [bytes |-> <<2, 4, 5, 180, 4, 2, 8, 10, 1, 2, 3, 4, 0, 0, 0, 0, 1, 3, 3, 7>>,
       starts |-> {1, 5, 7, 17, 18, 21}, mss |-> <<5, 180>>],
      [bytes |-> <<2, 4, 5, 166, 1, 1, 4, 2>>, starts |-> {1, 5, 6, 7, 9}, mss |-> <<5, 166>>],
      [bytes |-> <<253, 4, 0, 0, 2, 4, 5, 166>>, starts |-> {1}, mss |-> <<>>] }

MCIdents == {<<0, 0>>, <<255, 255>>}

=============================================================================
