--------------------------- MODULE ControlStream ---------------------------
(***************************************************************************)
(* A control connection between two nodes (ub-control/src/control.rs,      *)
(* handle_peer_connection and handle_seed_join).  Each end writes its      *)
(* greeting and then runs a reader and a writer.  The writer forwards the  *)
(* frames of a bounded channel to the TCP stream; the reader cuts the      *)
(* stream into frames again, decodes them (ControlCodec) and handles them, *)
(* and handling one may mean to put frames into the same bounded channel,  *)
(* during which nothing is read.                                           *)
(*                                                                         *)
(* TCP takes up to Window bytes that the other end has not read; when an   *)
(* end is gone any suffix of what it wrote may be lost.  What handling a   *)
(* message does to the tables is in Membership and MrPublication.          *)
(***************************************************************************)
EXTENDS ControlCodec

CONSTANTS
    Cap,         \* capacity of the channel (256)
    Window,      \* bytes TCP holds in one direction
    MaxLen,      \* the longest payload the reader accepts (1_000_000)
    mr_table,    \* node -> the number of regions it has registered
    Cuts,        \* where a stream that is cut may end: bytes that still arrive
    Messages,    \* what other tasks may send (heartbeats, publications, ...)
    MaxSays      \* bound on how often they do

Nodes == 1..2
peer(n) == 3 - n

ASSUME StreamAssumption ==
    /\ {Cap, MaxLen} \subseteq Nat \ {0} /\ MaxSays \in Nat /\ mr_table \in [Nodes -> Nat]
    /\ Window >= MaxLen + 5

VARIABLES
    chan,     \* node -> the frames in its channel
    out,      \* node -> the bytes of the frame that is being written
    tcp,      \* node -> the bytes it wrote that the peer has not read
    rd,       \* node -> its reader: [pc, todo]
    closed,   \* node -> its writer has ended
    known,    \* node -> the peer is in its member table, with this channel
    said,     \* node -> the messages it put into the stream, in order
    got,      \* node -> the messages it has decoded, in order
    says,     \* how often another task has sent something
    crashed   \* the nodes that have crashed

vars == <<chan, out, tcp, rd, closed, known, said, got, says, crashed>>

-----------------------------------------------------------------------------
(* The messages of the exchange.                                           *)

HelloPayload(n) ==
    [node_id |-> n, version |-> 1, local_epoch |-> 2, initial_credits |-> 5, data_addr |-> <<n>>]

Join(n) ==
    [type |-> "Join",
     p |-> [node_id |-> n, epoch |-> 2, data_addr |-> <<n>>, control_addr |-> <<n, n>>,
            initial_credits |-> 5]]

MemberSnapshot ==
    [type |-> "MemberSnapshot",
     p |-> [nodes |-> [n \in Nodes |->
              [node_id |-> n, state |-> 1, data_addr |-> <<n>>, control_addr |-> <<>>, epoch |-> 2]]]]

MrPublish(n, i) ==
    [type |-> "MrPublish",
     p |-> [owner_node |-> n, mr_handle |-> i, base_ub_addr |-> 10 * i, len |-> 4, perms |-> 7,
            device_kind |-> 0]]

send_existing_mrs(n) == [i \in 1..mr_table[n] |-> MrPublish(n, i)]

\* What process_control_message sends on the connection of message m.
Answer(n, m) ==
    CASE m.type = "Hello" ->
           <<[type |-> "HelloAck", p |-> HelloPayload(n)]>> \o send_existing_mrs(n)
      [] m.type = "HelloAck" -> send_existing_mrs(n)
      [] m.type = "Join" -> <<MemberSnapshot>> \o send_existing_mrs(n)
      [] m.type = "Heartbeat" ->
           <<[type |-> "HeartbeatAck", p |-> [node_id |-> n, timestamp |-> m.p.timestamp]]>>
      [] OTHER -> <<>>

-----------------------------------------------------------------------------
Reader(pc) == [pc |-> pc, todo |-> <<>>]
Gone(n) == rd[n].pc = "end"

\* The first end accepted the connection; the second dialled it, as a static
\* peer or as a seed.
Init ==
    /\ \E first \in {[type |-> "Hello", p |-> HelloPayload(2)], Join(2)} :
         LET greeting == <<[type |-> "Hello", p |-> HelloPayload(1)], first>>
         IN  /\ said = [n \in Nodes |-> <<greeting[n]>>]
             /\ out = [n \in Nodes |-> encode(greeting[n])]
    /\ chan = [n \in Nodes |-> <<>>]
    /\ tcp = [n \in Nodes |-> <<>>]
    /\ rd = [n \in Nodes |-> Reader("greet")]
    /\ closed = [n \in Nodes |-> FALSE]
    /\ known = [n \in Nodes |-> FALSE]
    /\ got = [n \in Nodes |-> <<>>]
    /\ says = 0
    /\ crashed = {}

\* tx.send(...).await: waits for room.
Put(n, m) ==
    /\ ~closed[n]
    /\ Len(chan[n]) < Cap
    /\ chan' = [chan EXCEPT ![n] = Append(@, encode(m))]
    /\ said' = [said EXCEPT ![n] = Append(@, m)]

-----------------------------------------------------------------------------
(* Writing.                                                                *)

Moved(n) == IF Len(out[n]) < Window - Len(tcp[n]) THEN Len(out[n]) ELSE Window - Len(tcp[n])

\* write_all: as much as TCP takes, until all of it is written.
write_all(n) ==
    /\ ~closed[n] /\ ~Gone(peer(n))
    /\ out[n] # <<>> /\ Moved(n) > 0
    /\ tcp' = [tcp EXCEPT ![n] = @ \o SubSeq(out[n], 1, Moved(n))]
    /\ out' = [out EXCEPT ![n] = SubSeq(@, Moved(n) + 1, Len(@))]
    /\ UNCHANGED <<chan, rd, closed, known, said, got, says, crashed>>

\* The greeting is written: the reader and the writer are spawned.
spawn(n) ==
    /\ rd[n].pc = "greet" /\ out[n] = <<>>
    /\ rd' = [rd EXCEPT ![n] = Reader("read")]
    /\ UNCHANGED <<chan, out, tcp, closed, known, said, got, says, crashed>>

\* rx.recv()
writer_recv(n) ==
    /\ ~closed[n] /\ rd[n].pc # "greet"
    /\ out[n] = <<>> /\ chan[n] # <<>>
    /\ out' = [out EXCEPT ![n] = Head(chan[n])]
    /\ chan' = [chan EXCEPT ![n] = Tail(@)]
    /\ UNCHANGED <<tcp, rd, closed, known, said, got, says, crashed>>

\* A mistake to compare with: the writer goes on after an error and keeps
\* the channel.
write_error_goes_on(n) ==
    /\ ~closed[n] /\ Gone(peer(n))
    /\ out[n] # <<>>
    /\ IF rd[n].pc = "greet"
         THEN rd' = [rd EXCEPT ![n] = Reader("end")] /\ closed' = [closed EXCEPT ![n] = TRUE]
         ELSE UNCHANGED <<rd, closed>>
    /\ UNCHANGED <<chan, out, tcp, known, said, got, says, crashed>>

\* The peer is gone: the writer ends, and its channel with it; when it is
\* the greeting that fails, so does the connection.
write_error(n) ==
    /\ ~closed[n] /\ Gone(peer(n))
    /\ out[n] # <<>>
    /\ closed' = [closed EXCEPT ![n] = TRUE]
    /\ out' = [out EXCEPT ![n] = <<>>]
    /\ chan' = [chan EXCEPT ![n] = <<>>]
    /\ rd' = IF rd[n].pc = "greet" THEN [rd EXCEPT ![n] = Reader("end")] ELSE rd
    /\ UNCHANGED <<tcp, known, said, got, says, crashed>>

-----------------------------------------------------------------------------
(* Reading.                                                                *)

\* The reader waits in one of two read_exact, for the length or for the rest
\* of the frame; meanwhile what has arrived stays in tcp.
Length(n) == Number(SubSeq(tcp[peer(n)], 1, 4))
LengthRead(n) == rd[n].pc = "read" /\ Len(tcp[peer(n)]) >= 4
FrameRead(n) == LengthRead(n) /\ Len(tcp[peer(n)]) >= 5 + Length(n)

\* A mistake to compare with: a payload of exactly the limit is refused.
TooLarge_strict(n) == Length(n) >= MaxLen

TooLarge(n) == Length(n) > MaxLen

\* The reader is over, and with it the connection: the writer is aborted.
End(n) ==
    /\ rd' = [rd EXCEPT ![n] = Reader("end")]
    /\ closed' = [closed EXCEPT ![n] = TRUE]
    /\ out' = [out EXCEPT ![n] = <<>>]
    /\ chan' = [chan EXCEPT ![n] = <<>>]

\* Whether the peer's entry in the member table has this connection's channel
\* once m is handled: a greeting enters it, a snapshot that lists the peer
\* replaces the entry by one without a channel.
KnownAfter(n, m) ==
    CASE m.type \in {"Hello", "HelloAck", "Join"} -> TRUE
      [] m.type = "MemberSnapshot" ->
           known[n] /\ \A i \in DOMAIN m.p.nodes : m.p.nodes[i].node_id # peer(n)
      [] OTHER -> known[n]

\* process_control_message: what is to be sent keeps the reader until all of
\* it is in the channel.
Handled(n, ms) ==
    /\ got' = [got EXCEPT ![n] = @ \o ms]
    /\ known' = [known EXCEPT ![n] = IF ms = <<>> THEN @ ELSE KnownAfter(n, ms[1])]
    /\ \E todo \in {IF ms = <<>> THEN <<>> ELSE Answer(n, ms[1])} :
         rd' = [rd EXCEPT ![n] = [pc |-> IF todo = <<>> THEN "read" ELSE "send", todo |-> todo]]

\* read_exact fails at the end of the stream, wherever in a frame it is.
read_eof(n) ==
    /\ rd[n].pc = "read" /\ Gone(peer(n))
    /\ LengthRead(n) => ~TooLarge(n) /\ ~FrameRead(n)
    /\ End(n)
    /\ UNCHANGED <<tcp, known, said, got, says, crashed>>

read_too_large(n) ==
    /\ LengthRead(n) /\ TooLarge(n)
    /\ End(n)
    /\ UNCHANGED <<tcp, known, said, got, says, crashed>>

\* A whole frame: it is decoded and handled; one that does not decode is
\* skipped.
read_frame(n) ==
    LET end == 5 + Length(n) IN
    /\ FrameRead(n) /\ ~TooLarge(n)
    /\ \E ms \in {SetToSeq(decode(b)) : b \in {SubSeq(tcp[peer(n)], 1, end)}} : Handled(n, ms)
    /\ tcp' = [tcp EXCEPT ![peer(n)] = SubSeq(@, end + 1, Len(@))]
    /\ UNCHANGED <<chan, out, closed, said, says, crashed>>

\* Putting what handling a message sends; an error ends the handling.
Sent(n) ==
    rd' = [rd EXCEPT ![n] = IF Len(@.todo) = 1 THEN Reader("read") ELSE [@ EXCEPT !.todo = Tail(@)]]

handle_send(n) ==
    /\ rd[n].pc = "send"
    /\ Put(n, Head(rd[n].todo))
    /\ Sent(n)
    /\ UNCHANGED <<out, tcp, closed, known, got, says, crashed>>

handle_send_error(n) ==
    /\ rd[n].pc = "send" /\ closed[n]
    /\ rd' = [rd EXCEPT ![n] = Reader("read")]
    /\ UNCHANGED <<chan, out, tcp, closed, known, said, got, says, crashed>>

-----------------------------------------------------------------------------
(* The surroundings.                                                       *)

\* The heartbeat task, the publication of regions, a broadcast: a message
\* for a peer of the member table.
active_peer_send(n, m) ==
    /\ known[n] /\ says < MaxSays
    /\ Put(n, m)
    /\ says' = says + 1
    /\ UNCHANGED <<out, tcp, rd, closed, known, got, crashed>>

crash(n) ==
    /\ crashed = {} /\ ~Gone(n)
    /\ End(n)
    /\ crashed' = {n}
    /\ UNCHANGED <<tcp, known, said, got, says>>

\* What an end wrote before it went may be lost from any byte on.
lose(n) ==
    /\ Gone(n)
    /\ \E k \in Cuts : k < Len(tcp[n]) /\ tcp' = [tcp EXCEPT ![n] = SubSeq(@, 1, k)]
    /\ UNCHANGED <<chan, out, rd, closed, known, said, got, says, crashed>>

Writer(n) == write_all(n) \/ spawn(n) \/ writer_recv(n) \/ write_error(n)
ReadLoop(n) ==
    \/ read_eof(n) \/ read_too_large(n) \/ read_frame(n)
    \/ handle_send(n) \/ handle_send_error(n)

Next ==
    \E n \in Nodes :
       \/ Writer(n) \/ ReadLoop(n)
       \/ \E m \in Messages : active_peer_send(n, m)
       \/ crash(n) \/ lose(n)

\* Both tasks of an end are polled when they can go on.
Fairness == \A n \in Nodes : WF_vars(Writer(n)) /\ WF_vars(ReadLoop(n))

Spec == Init /\ [][Next]_vars /\ Fairness

-----------------------------------------------------------------------------
\* What a reader makes of the bytes is what the other end sent, in order,
\* with nothing added, changed or left out, wherever the stream is cut and
\* however it arrives in pieces (message.rs encode and decode, control.rs
\* read loop).
ReadsWhatWasSent == \A n \in Nodes : IsPrefix(got[n], said[peer(n)])

\* A message that the reader refuses.
OverLong(m) == Len(encode(m)) - 5 > MaxLen

\* No end gives up a connection by itself, and everything sent is read and
\* handled though nothing is read while an answer waits for room, unless a
\* node crashes or a payload is longer than the reader accepts: the exchange
\* of greetings and regions comes to its end (control.rs read loop,
\* process_control_message, send_existing_mrs).  This is about an exchange in
\* which one end has no regions: both readers may wait for room for ever when
\* both ends have more of them than channel and stream hold.
ExchangeCompletes ==
    (\E n \in Nodes : mr_table[n] = 0) =>
       \/ <>(crashed # {})
       \/ <>(\E n \in Nodes : \E i \in DOMAIN said[n] : OverLong(said[n][i]))
       \/ <>[](\A n \in Nodes : rd[n].pc = "read" /\ got[n] = said[peer(n)])

\* An end whose peer is gone ends too: its reader does not hang, neither in
\* the middle of a frame nor in an answer that waits for room.
EndsWithPeer == \A n \in Nodes : Gone(peer(n)) ~> Gone(n)
=============================================================================
