-------------------------- MODULE MCControlStream --------------------------
(***************************************************************************)
(* Instances of ControlStream: node 1 has regions for more than its        *)
(* channel and TCP hold, and any one message of the protocol is sent       *)
(* besides.                                                                *)
(***************************************************************************)
EXTENDS ControlStream

MCRegions == <<2, 0>>

\* A value for the i-th field of a payload, different for each.
Value(kind, i) ==
    CASE kind = "bytes" -> <<i, i + 1>>
      [] kind \in DOMAIN Accepted -> i % 2
      [] kind = "perms" -> i % 8
      [] OTHER -> i

Payload(layout) ==
    [f \in {layout[i][1] : i \in DOMAIN layout} |->
       LET i == CHOOSE j \in DOMAIN layout : layout[j][1] = f IN Value(layout[i][2], i)]

\* A snapshot of this many nodes; three are too many for the reader.
Snapshot(k) ==
    [type |-> "MemberSnapshot", p |-> [nodes |-> [i \in 1..k |-> Payload(snapshot_node_decode)]]]

Profiles(k) ==
    [type |-> "DeviceProfilePublish", p |-> [entries |-> [i \in 1..k |-> Payload(device_profile_decode)]]]

\* What other tasks send besides the exchange: a message with an answer, and
\* without one a payload of exactly MaxLen bytes and a longer one.
MCMessages == {[type |-> "Heartbeat", p |-> Payload(heartbeat_decode)], Profiles(1), Snapshot(3)}

\* Every type of message.
AllMessages ==
    {[type |-> t, p |-> Payload(Layout[t])] : t \in DOMAIN Layout}
      \union {Snapshot(k) : k \in 0..3} \union {Profiles(k) : k \in 0..1}

\* A frame decodes to the message it was encoded from, whatever its type and
\* whatever follows it in the stream, and a part of a frame decodes to
\* nothing (message.rs, ControlMsg::encode and decode).  What follows is a
\* greeting, or what is written of it: before anything is read.
FramesStandAlone ==
    (\A n \in Nodes : got[n] = <<>> /\ ~closed[n]) =>
       \A n \in Nodes, m \in AllMessages :
          /\ decode(encode(m) \o tcp[n]) = {m}
          /\ \A k \in 0..Len(encode(m)) - 1 : decode(SubSeq(encode(m), 1, k)) = {}
=============================================================================
