---------------------------- MODULE ControlCodec ----------------------------
(***************************************************************************)
(* The encoding of control messages (ub-control/src/message.rs): a frame   *)
(* is Length(4) MsgType(1) Payload, and a payload its fields in order,     *)
(* integers big-endian and strings behind their length.  What is written   *)
(* (..._encode, a sequence of bytes) and what is read (..._decode, the     *)
(* fields in the order in which the cursor reads them) are stated apart,   *)
(* as they are in the code.                                                *)
(*                                                                         *)
(* Every field has its width in bytes.  An integer of several bytes is     *)
(* written in base Radix, not 256, which keeps it within TLC's integers; a *)
(* u8 is one byte.                                                         *)
(***************************************************************************)
EXTENDS Naturals, SequencesExt

CONSTANT Radix   \* base of the bytes of an integer

ASSUME RadixAssumption == Radix \in Nat \ {0, 1}

CtrlMsgType ==
    [Hello |-> 1, HelloAck |-> 2, MemberUp |-> 3, MemberDown |-> 4, MemberSnapshot |-> 5,
     MrPublish |-> 6, MrRevoke |-> 7, Heartbeat |-> 8, HeartbeatAck |-> 9, Join |-> 16,
     DeviceProfilePublish |-> 17, AllocReq |-> 18, AllocResp |-> 19, RegionCreate |-> 20,
     RegionCreateOk |-> 21, RegionDelete |-> 22, Fetch |-> 23, FetchResp |-> 24,
     WriteLockReq |-> 25, WriteLockGranted |-> 26, WriteUnlock |-> 27, Invalidate |-> 28,
     InvalidateAck |-> 29]

Types == DOMAIN CtrlMsgType
from_u8(v) == {t \in Types : CtrlMsgType[t] = v}

-----------------------------------------------------------------------------
(* Writing.                                                                *)

\* put_u8; put_u16 (w = 2) to put_u128 (w = 16); a length and its bytes.
U8(v) == <<v>>
U(w, v) == [i \in 1..w |-> (v \div Radix^(w - i)) % Radix]
Bytes(b) == U(4, Len(b)) \o b

hello_encode(p) ==
    U(2, p.node_id) \o U(2, p.version) \o U(4, p.local_epoch) \o U(4, p.initial_credits)
      \o Bytes(p.data_addr)

heartbeat_encode(p) == U(2, p.node_id) \o U(8, p.timestamp)

mr_publish_encode(p) ==
    U(2, p.owner_node) \o U(4, p.mr_handle) \o U(16, p.base_ub_addr) \o U(8, p.len)
      \o U8(p.perms) \o U8(p.device_kind)

mr_revoke_encode(p) == U(2, p.owner_node) \o U(4, p.mr_handle)

member_down_encode(p) == U(2, p.node_id) \o U8(p.reason)

join_encode(p) ==
    U(2, p.node_id) \o U(4, p.epoch) \o Bytes(p.data_addr) \o Bytes(p.control_addr)
      \o U(4, p.initial_credits)

snapshot_node_encode(n) ==
    U(2, n.node_id) \o U8(n.state) \o U(4, n.epoch) \o Bytes(n.data_addr)
      \o Bytes(n.control_addr)

member_snapshot_encode(p) ==
    U(4, Len(p.nodes)) \o FlattenSeq([i \in DOMAIN p.nodes |-> snapshot_node_encode(p.nodes[i])])

device_profile_encode(e) ==
    U(2, e.node_id) \o U(2, e.device_id) \o U8(e.kind) \o U8(e.tier) \o U(8, e.capacity_bytes)
      \o U(4, e.peak_read_bw_mbps) \o U(4, e.peak_write_bw_mbps)
      \o U(4, e.read_latency_ns_p50) \o U(4, e.write_latency_ns_p50)
      \o U(8, e.used_bytes) \o U(4, e.recent_rps)

device_profile_publish_encode(p) ==
    U(4, Len(p.entries))
      \o FlattenSeq([i \in DOMAIN p.entries |-> Bytes(device_profile_encode(p.entries[i]))])

alloc_req_encode(p) ==
    U(8, p.region_id) \o U(8, p.size) \o U8(p.access) \o U8(p.latency_class)
      \o U8(p.capacity_class) \o U8(p.pin_kind) \o U(4, p.expected_readers)
      \o U(2, p.requester_node_id)

alloc_resp_encode(p) ==
    U(8, p.region_id) \o U(16, p.ub_va) \o U(2, p.home_node_id) \o U(2, p.device_id)
      \o U(4, p.mr_handle) \o U(8, p.base_offset) \o U(4, p.error_code)

region_create_encode(p) == U(8, p.region_id) \o U(8, p.size) \o U8(p.device_kind)

region_create_ok_encode(p) ==
    U(8, p.region_id) \o U(4, p.mr_handle) \o U(8, p.base_offset) \o U(2, p.device_id)

region_delete_encode(p) == U(8, p.region_id)

fetch_encode(p) ==
    U(8, p.region_id) \o U(8, p.offset) \o U(4, p.len) \o U(2, p.requester_node_id)

fetch_resp_encode(p) ==
    U(8, p.region_id) \o U(8, p.epoch) \o Bytes(p.payload) \o U(4, p.error_code)

write_lock_req_encode(p) == U(8, p.region_id) \o U(2, p.writer_node_id)

write_lock_granted_encode(p) == U(8, p.region_id) \o U(8, p.epoch) \o U(4, p.error_code)

write_unlock_encode(p) == U(8, p.region_id) \o U(2, p.writer_node_id)

invalidate_encode(p) == U(8, p.region_id) \o U(8, p.new_epoch)

invalidate_ack_encode(p) == U(8, p.region_id)

encode_payload(m) ==
    CASE m.type \in {"Hello", "HelloAck", "MemberUp"} -> hello_encode(m.p)
      [] m.type = "MemberDown" -> member_down_encode(m.p)
      [] m.type = "MemberSnapshot" -> member_snapshot_encode(m.p)
      [] m.type \in {"Heartbeat", "HeartbeatAck"} -> heartbeat_encode(m.p)
      [] m.type = "MrPublish" -> mr_publish_encode(m.p)
      [] m.type = "MrRevoke" -> mr_revoke_encode(m.p)
      [] m.type = "Join" -> join_encode(m.p)
      [] m.type = "DeviceProfilePublish" -> device_profile_publish_encode(m.p)
      [] m.type = "AllocReq" -> alloc_req_encode(m.p)
      [] m.type = "AllocResp" -> alloc_resp_encode(m.p)
      [] m.type = "RegionCreate" -> region_create_encode(m.p)
      [] m.type = "RegionCreateOk" -> region_create_ok_encode(m.p)
      [] m.type = "RegionDelete" -> region_delete_encode(m.p)
      [] m.type = "Fetch" -> fetch_encode(m.p)
      [] m.type = "FetchResp" -> fetch_resp_encode(m.p)
      [] m.type = "WriteLockReq" -> write_lock_req_encode(m.p)
      [] m.type = "WriteLockGranted" -> write_lock_granted_encode(m.p)
      [] m.type = "WriteUnlock" -> write_unlock_encode(m.p)
      [] m.type = "Invalidate" -> invalidate_encode(m.p)
      [] m.type = "InvalidateAck" -> invalidate_ack_encode(m.p)

\* ControlMsg::encode: encode_ctrl_message around the payload.
encode(m) ==
    LET payload == encode_payload(m)
    IN  U(4, Len(payload)) \o U8(CtrlMsgType[m.type]) \o payload

-----------------------------------------------------------------------------
(* Reading.  A cursor has a position, the number of bytes read, and the    *)
(* record read so far.  A read yields the set of cursors it may leave: one, *)
(* or none if it fails, and then the message does not decode.              *)

Width ==
    [u8 |-> 1, u16 |-> 2, u32 |-> 4, u64 |-> 8, u128 |-> 16, bytes |-> 4, perms |-> 1,
     kind |-> 1, tier |-> 1, access |-> 1, latency |-> 1, capacity |-> 1]

\* The values that the from_u8 of an enumeration accepts.
Accepted ==
    [kind |-> 0..1, tier |-> 0..2, access |-> 0..2, latency |-> 0..2, capacity |-> 0..2]

Number(bs) ==
    LET v[i \in 0..Len(bs)] == IF i = 0 THEN 0 ELSE v[i - 1] * Radix + bs[i]
    IN  v[Len(bs)]

NewCursor(at) == [at |-> at, rec |-> <<>>]

\* read_u8, ..., read_u128: a number and the position after it.
read_number(bs, at, w) ==
    IF at + w > Len(bs) THEN {}
    ELSE {[at |-> at + w, v |-> Number(b)] : b \in {SubSeq(bs, at + 1, at + w)}}

\* A length and read_exact of as many bytes.
read_bytes(bs, at) ==
    {[at |-> len.at + len.v, v |-> SubSeq(bs, len.at + 1, len.at + len.v)] :
       len \in {x \in read_number(bs, at, 4) : x.at + x.v <= Len(bs)}}

\* One field: from_u8 for an enumeration, from_bits_truncate for perms.
read_field(bs, cur, name, kind) ==
    LET read == IF kind = "bytes" THEN read_bytes(bs, cur.at)
                ELSE read_number(bs, cur.at, Width[kind])
    IN  {[at |-> x.at,
          rec |-> cur.rec @@ (name :> IF kind = "perms" THEN x.v % 8 ELSE x.v)] :
           x \in {y \in read : kind \in DOMAIN Accepted => y.v \in Accepted[kind]}}

read_fields(bs, cur, layout) ==
    LET c[i \in 0..Len(layout)] ==
          IF i = 0 THEN {cur}
          ELSE UNION {read_field(bs, x, layout[i][1], layout[i][2]) : x \in c[i - 1]}
    IN  c[Len(layout)]

hello_decode ==
    << <<"node_id", "u16">>, <<"version", "u16">>, <<"local_epoch", "u32">>,
       <<"initial_credits", "u32">>, <<"data_addr", "bytes">> >>

heartbeat_decode == << <<"node_id", "u16">>, <<"timestamp", "u64">> >>

mr_publish_decode ==
    << <<"owner_node", "u16">>, <<"mr_handle", "u32">>, <<"base_ub_addr", "u128">>,
       <<"len", "u64">>, <<"perms", "perms">>, <<"device_kind", "kind">> >>

mr_revoke_decode == << <<"owner_node", "u16">>, <<"mr_handle", "u32">> >>

member_down_decode == << <<"node_id", "u16">>, <<"reason", "u8">> >>

\* A mistake to compare with: the credits are read where JOIN has the
\* control address.
join_decode_early_credits ==
    << <<"node_id", "u16">>, <<"epoch", "u32">>, <<"data_addr", "bytes">>,
       <<"initial_credits", "u32">>, <<"control_addr", "bytes">> >>

join_decode ==
    << <<"node_id", "u16">>, <<"epoch", "u32">>, <<"data_addr", "bytes">>,
       <<"control_addr", "bytes">>, <<"initial_credits", "u32">> >>

snapshot_node_decode ==
    << <<"node_id", "u16">>, <<"state", "u8">>, <<"epoch", "u32">>,
       <<"data_addr", "bytes">>, <<"control_addr", "bytes">> >>

device_profile_decode ==
    << <<"node_id", "u16">>, <<"device_id", "u16">>, <<"kind", "kind">>, <<"tier", "tier">>,
       <<"capacity_bytes", "u64">>, <<"peak_read_bw_mbps", "u32">>,
       <<"peak_write_bw_mbps", "u32">>, <<"read_latency_ns_p50", "u32">>,
       <<"write_latency_ns_p50", "u32">>, <<"used_bytes", "u64">>, <<"recent_rps", "u32">> >>

\* A mistake to compare with: two classes of the request are swapped.
alloc_req_decode_swapped ==
    << <<"region_id", "u64">>, <<"size", "u64">>, <<"access", "access">>,
       <<"capacity_class", "capacity">>, <<"latency_class", "latency">>, <<"pin_kind", "u8">>,
       <<"expected_readers", "u32">>, <<"requester_node_id", "u16">> >>

alloc_req_decode ==
    << <<"region_id", "u64">>, <<"size", "u64">>, <<"access", "access">>,
       <<"latency_class", "latency">>, <<"capacity_class", "capacity">>, <<"pin_kind", "u8">>,
       <<"expected_readers", "u32">>, <<"requester_node_id", "u16">> >>

alloc_resp_decode ==
    << <<"region_id", "u64">>, <<"ub_va", "u128">>, <<"home_node_id", "u16">>,
       <<"device_id", "u16">>, <<"mr_handle", "u32">>, <<"base_offset", "u64">>,
       <<"error_code", "u32">> >>

region_create_decode == << <<"region_id", "u64">>, <<"size", "u64">>, <<"device_kind", "kind">> >>

region_create_ok_decode ==
    << <<"region_id", "u64">>, <<"mr_handle", "u32">>, <<"base_offset", "u64">>,
       <<"device_id", "u16">> >>

region_delete_decode == << <<"region_id", "u64">> >>

fetch_decode ==
    << <<"region_id", "u64">>, <<"offset", "u64">>, <<"len", "u32">>,
       <<"requester_node_id", "u16">> >>

fetch_resp_decode ==
    << <<"region_id", "u64">>, <<"epoch", "u64">>, <<"payload", "bytes">>,
       <<"error_code", "u32">> >>

write_lock_req_decode == << <<"region_id", "u64">>, <<"writer_node_id", "u16">> >>

write_lock_granted_decode ==
    << <<"region_id", "u64">>, <<"epoch", "u64">>, <<"error_code", "u32">> >>

write_unlock_decode == << <<"region_id", "u64">>, <<"writer_node_id", "u16">> >>

invalidate_decode == << <<"region_id", "u64">>, <<"new_epoch", "u64">> >>

invalidate_ack_decode == << <<"region_id", "u64">> >>

\* A count and as many elements: Element reads one, from a position on.
read_list(bs, Element(_)) ==
    LET More(c) == {[at |-> e.at, rec |-> Append(c.rec, e.rec)] : e \in Element(c.at)}
        Elements(at, count) ==
          LET list[i \in 0..count] ==
                IF i = 0 THEN {NewCursor(at)} ELSE UNION {More(c) : c \in list[i - 1]}
          IN  list[count]
    IN  UNION {Elements(count.at, count.v) : count \in read_number(bs, 0, 4)}

member_snapshot_decode(bs) ==
    {[nodes |-> c.rec] :
       c \in read_list(bs, LAMBDA at : read_fields(bs, NewCursor(at), snapshot_node_decode))}

\* Each entry has its length: it is copied to a buffer and decoded there.
device_profile_publish_decode(bs) ==
    LET Entry(at) ==
          UNION {{[at |-> b.at, rec |-> e.rec] :
                    e \in read_fields(b.v, NewCursor(0), device_profile_decode)} :
                 b \in read_bytes(bs, at)}
    IN  {[entries |-> c.rec] : c \in read_list(bs, Entry)}

Layout ==
    [Hello |-> hello_decode, HelloAck |-> hello_decode, MemberUp |-> hello_decode,
     MemberDown |-> member_down_decode, MrPublish |-> mr_publish_decode,
     MrRevoke |-> mr_revoke_decode, Heartbeat |-> heartbeat_decode,
     HeartbeatAck |-> heartbeat_decode, Join |-> join_decode, AllocReq |-> alloc_req_decode,
     AllocResp |-> alloc_resp_decode, RegionCreate |-> region_create_decode,
     RegionCreateOk |-> region_create_ok_decode, RegionDelete |-> region_delete_decode,
     Fetch |-> fetch_decode, FetchResp |-> fetch_resp_decode,
     WriteLockReq |-> write_lock_req_decode, WriteLockGranted |-> write_lock_granted_decode,
     WriteUnlock |-> write_unlock_decode, Invalidate |-> invalidate_decode,
     InvalidateAck |-> invalidate_ack_decode]

decode_payload(type, bs) ==
    IF type = "MemberSnapshot" THEN member_snapshot_decode(bs)
    ELSE IF type = "DeviceProfilePublish" THEN device_profile_publish_decode(bs)
    ELSE {c.rec : c \in read_fields(bs, NewCursor(0), Layout[type])}

\* decode_ctrl_message: the type and the payload of a frame that is whole
\* and of a known type.
decode_ctrl_message(bs) ==
    IF Len(bs) < 5 THEN {}
    ELSE {[type |-> t, payload |-> SubSeq(bs, 6, 5 + len.v)] :
            t \in from_u8(bs[5]), len \in {x \in read_number(bs, 0, 4) : 5 + x.v <= Len(bs)}}

\* ControlMsg::decode: the message of a frame, or none.
decode(bs) ==
    UNION {{[type |-> f.type, p |-> p] : p \in decode_payload(f.type, f.payload)} :
           f \in decode_ctrl_message(bs)}
=============================================================================
