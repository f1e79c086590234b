--------------------------- MODULE ReliableSession ---------------------------
(***************************************************************************)
(* The per-peer session record and its methods                             *)
(* (crates/ub-transport/src/session.rs, read_cache.rs).  Every method is   *)
(* an operator from the old session to the new one.                        *)
(*                                                                         *)
(* The retransmit queue is a set of entries: the code pushes entries in    *)
(* increasing order of seq and no method depends on that order otherwise.  *)
(* Deadlines, RTT samples and the RTO itself are left out: check_rto takes *)
(* the set of the entries whose deadline has passed.                       *)
(***************************************************************************)
EXTENDS DedupWindow, Sequences, FiniteSets

CONSTANTS
    Nodes,                 \* the node ids
    MaxRetries,            \* config.transport.max_retries
    AckEvery,              \* 8 in should_send_ack
    DupAckThreshold,       \* 3 in process_ack_for_fast_retransmit
    RecordCap,             \* 1024 in mark_executed
    CacheCap,              \* 1024 in ReadResponseCache::default_cache
    InfThreshold           \* u32::MAX, the first ssthresh

ASSUME SessionAssumption ==
    /\ MaxRetries \in Nat
    /\ AckEvery \in Nat \ {0}
    /\ DupAckThreshold \in Nat \ {0}
    /\ RecordCap \in Nat \ {0}
    /\ CacheCap \in Nat \ {0}
    /\ InfThreshold \in Nat

FireAndForget == {"Write", "WriteImm", "Send"}
Requests      == {"ReadReq", "AtomicCas", "AtomicFaa"}
Responses     == {"ReadResp", "AtomicCasResp", "AtomicFaaResp"}

\* The identity of a payload: the k-th operation its node ever queued.
Id == Nodes \X Nat

Entry == [seq : Nat, verb : FireAndForget \cup Requests, opaque : Nat,
          id : Id, retry_count : Nat]

\* A cached response: `id` is the request it answers.
Cached == [opaque : Nat, id : Id, order : Nat]

Session ==
    [state : {"Active", "Dead"},
     next_seq : Nat, available_credits : Nat, retransmit_queue : SUBSET Entry,
     cwnd : Nat, ssthresh : Nat,
     dup_ack_count : Nat, last_ack_seq : Nat,
     dedup : Window, execution_records : Seq(Nat),
     read_cache : SUBSET Cached, next_order : Nat,
     credits_to_grant : Nat, frames_since_last_ack : Nat]

new_session(initial_credits) ==
    [state |-> "Active",
     next_seq |-> 1, available_credits |-> initial_credits, retransmit_queue |-> {},
     cwnd |-> initial_credits, ssthresh |-> InfThreshold,
     dup_ack_count |-> 0, last_ack_seq |-> 0,
     dedup |-> new_window(1), execution_records |-> << >>,
     read_cache |-> {}, next_order |-> 0,
     credits_to_grant |-> 0, frames_since_last_ack |-> 0]

-----------------------------------------------------------------------------
(* Send side *)

consume_credit(s) == [s EXCEPT !.available_credits = @ - 1]

assign_seq(s, verb, opaque, id) ==
    [s EXCEPT !.next_seq = @ + 1,
              !.retransmit_queue = @ \cup {[seq |-> s.next_seq, verb |-> verb,
                  opaque |-> opaque, id |-> id, retry_count |-> 0]}]

add_credits(s, credits) == [s EXCEPT !.available_credits = @ + credits]

on_new_ack(s) ==
    [s EXCEPT !.cwnd = IF @ < s.ssthresh THEN 2 * @ ELSE @ + 1,
              !.dup_ack_count = 0]

on_loss(s) ==
    [s EXCEPT !.ssthresh = IF s.cwnd \div 2 < 2 THEN 2 ELSE s.cwnd \div 2,
              !.cwnd = 1,
              !.dup_ack_count = 0]

\* The session after the duplicate-ACK check, and the seq to resend (0: none).
process_ack_for_fast_retransmit(s, ack) ==
    IF ack.ack_seq > s.last_ack_seq
    THEN [session |-> [s EXCEPT !.last_ack_seq = ack.ack_seq, !.dup_ack_count = 0],
          resend  |-> 0]
    ELSE IF s.dup_ack_count + 1 >= DupAckThreshold
    THEN [session |-> [s EXCEPT !.dup_ack_count = 0], resend |-> ack.ack_seq + 1]
    ELSE [session |-> [s EXCEPT !.dup_ack_count = @ + 1], resend |-> 0]

\* A mistake to compare with: an ACK removes requests too.
Acked_requests_too(s, ack) == {e \in s.retransmit_queue : e.seq <= ack.ack_seq}

\* A mistake to compare with: one entry too many.
Acked_one_more(s, ack) ==
    {e \in s.retransmit_queue : e.seq <= ack.ack_seq + 1 /\ e.verb \in FireAndForget}

Acked(s, ack) ==
    {e \in s.retransmit_queue : e.seq <= ack.ack_seq /\ e.verb \in FireAndForget}

process_ack(s, ack) ==
    LET kept     == [s EXCEPT !.retransmit_queue = @ \ Acked(s, ack)]
        credited == add_credits(kept, ack.credit_grant)
    IN  IF ack.ack_seq > s.last_ack_seq THEN on_new_ack(credited) ELSE credited

complete_request(s, opaque) ==
    [s EXCEPT !.retransmit_queue =
        {e \in @ : ~(e.opaque = opaque /\ e.verb \in Requests)}]

get_retransmit_entry(s, seq) == {e \in s.retransmit_queue : e.seq = seq}

kill(s) == [s EXCEPT !.state = "Dead", !.retransmit_queue = {}]

\* `expired`: the entries whose deadline has passed.  The loop of the code
\* stops at the first entry out of retries, and the session dies with all of
\* its entries; otherwise the expired entries are sent again.
OutOfRetries(expired) == \E e \in expired : e.retry_count + 1 > MaxRetries

check_rto(s, expired) ==
    IF OutOfRetries(expired)
    THEN kill(s)
    ELSE on_loss([s EXCEPT !.retransmit_queue =
             (@ \ expired) \cup {[e EXCEPT !.retry_count = @ + 1] : e \in expired}])

-----------------------------------------------------------------------------
(* Receive side *)

receive_frame(s, seq) ==
    [s EXCEPT !.frames_since_last_ack = @ + 1,
              !.credits_to_grant = @ + 1,
              !.dedup = IF check(@, seq) \in {"InOrder", "OutOfOrder"}
                        THEN mark_and_advance(@, seq) ELSE @]

\* A mistake to compare with: one frame more than the threshold is needed.
should_send_ack_late(s) ==
    s.frames_since_last_ack > AckEvery \/ s.credits_to_grant > AckEvery

should_send_ack(s) ==
    s.frames_since_last_ack >= AckEvery \/ s.credits_to_grant >= AckEvery

\* A mistake to compare with: the ACK carries no credits.
build_ack_payload_no_credits(s, has_gap) ==
    [ack_seq |-> s.dedup.next_expected - 1, credit_grant |-> 0, sack |-> has_gap]

\* The bits of the SACK bitmap are never read by the sender; whether the
\* bitmap is there is kept.
build_ack_payload(s, has_gap) ==
    [ack_seq |-> s.dedup.next_expected - 1,
     credit_grant |-> s.credits_to_grant, sack |-> has_gap]

ack_sent(s) == [s EXCEPT !.credits_to_grant = 0, !.frames_since_last_ack = 0]

is_executed(s, seq) ==
    \E i \in DOMAIN s.execution_records : s.execution_records[i] = seq

\* A mistake to compare with: a number is never recorded.
mark_executed_forgets(s, seq) == s

mark_executed(s, seq) ==
    IF is_executed(s, seq) THEN s
    ELSE [s EXCEPT !.execution_records =
             IF Len(@) + 1 > RecordCap THEN Tail(Append(@, seq)) ELSE Append(@, seq)]

-----------------------------------------------------------------------------
(* The read response cache (read_cache.rs).  An entry past its TTL is      *)
(* dropped when it is next looked at; cache_expire drops it at any time.   *)

cache_lookup(s, opaque) == {c \in s.read_cache : c.opaque = opaque}

cache_get(s, opaque) ==
    [s EXCEPT !.read_cache =
         (@ \ cache_lookup(s, opaque))
             \cup {[c EXCEPT !.order = s.next_order] : c \in cache_lookup(s, opaque)},
              !.next_order = IF cache_lookup(s, opaque) = {} THEN @ ELSE @ + 1]

find_lru_key(s) ==
    {c \in s.read_cache : \A d \in s.read_cache : c.order <= d.order}

cache_insert(s, opaque, id) ==
    LET room == IF Cardinality(s.read_cache) >= CacheCap
                THEN s.read_cache \ find_lru_key(s) ELSE s.read_cache
    IN  [s EXCEPT !.read_cache = {c \in room : c.opaque # opaque}
             \cup {[opaque |-> opaque, id |-> id, order |-> s.next_order]},
                  !.next_order = @ + 1]

cache_expire(s, c) == [s EXCEPT !.read_cache = @ \ {c}]
=============================================================================
