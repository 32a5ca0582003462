---------------------------- MODULE Application ----------------------------
(***************************************************************************)
(* What an application does with a connected socket: one call of           *)
(* socket::async_read_some or socket::async_write at a time, from a handler*)
(* of its own or from inside a completion callback (main.cpp writes from   *)
(* the read callback and reads again from the write callback).             *)
(***************************************************************************)
EXTENDS TcbOps

CONSTANTS
    ReadSizes,  \* the buffer sizes the application reads with
    MaxReads    \* how many reads it may leave waiting for data

ASSUME ApplicationConstants ==
    /\ ReadSizes \subseteq Nat \ {0}
    /\ MaxReads \in Nat

Idle == [op |-> "idle", size |-> 0, buf |-> <<>>]

\* The calls an application may make on TCB t, when it has the buffers bufs
\* to write.
Calls(t, bufs) ==
    {Idle}
    \cup {[op |-> "read", size |-> k, buf |-> <<>>] :
            k \in {r \in ReadSizes : Len(t.on_data_receive) < MaxReads}}
    \cup {[op |-> "write", size |-> 0, buf |-> b] : b \in bufs}

\* socket::async_read_some and socket::async_write pass the call on to the TCB.
app_call(c, call) ==
    CASE call.op = "read"  -> async_read_some(c, call.size)
      [] call.op = "write" -> async_write(c, call.buf)
      [] OTHER             -> c

\* As below, but what was read is not acknowledged.
read_handler_faulty(c, call) == app_call(c, call)

\* The handler posted for a completed read: cb(len), in which the application
\* makes a call, and then make_and_send_pkt() to acknowledge what was read.
read_handler(c, call) ==
    LET after == app_call(c, call)
    IN  IF after.abort # "none" THEN after ELSE make_and_send_pkt(after)

=============================================================================
