--------------------------- MODULE CallInvariant ----------------------------
(***************************************************************************)
(* The inductive invariants of the calls: CallInv, about the calls and the *)
(* requests kept for them, and ResponseInv, about the responses that may   *)
(* come for them.                                                          *)
(***************************************************************************)
EXTENDS DataPlaneInvariant

-----------------------------------------------------------------------------
(* The invariants                                                          *)

\* The call of n with opaque o queued the frame id.
Asks(n, o, id) == o \in DOMAIN calls[n] /\ calls[n][o].id = id

\* The opaque of a call is its place among the calls; a call is pending while
\* it is open; a queued request belongs to one call and, while the session
\* lives, stays queued until that call has its response.
CallsOf(n) ==
    /\ next_opaque[n] = Len(calls[n]) + 1
    /\ pending[n] \subseteq DOMAIN calls[n]
    /\ \A o \in pending[n] : calls[n][o].status \in {"Waiting", "Refused"}
    /\ \A o \in DOMAIN calls[n] : calls[n][o].id # NoId =>
           \E k \in DOMAIN issued[n] : calls[n][o].id = <<n, k>> /\ issued[n][k] \in Requests
    /\ \A o, p \in DOMAIN calls[n] :
           calls[n][o].id = calls[n][p].id /\ calls[n][o].id # NoId => o = p
    /\ \A e \in Session1(n).retransmit_queue :
           e.verb \in Requests => Asks(n, e.opaque, e.id)
    /\ Session1(n).state = "Active" =>
           \A o \in DOMAIN calls[n] :
               \/ calls[n][o].id = NoId
               \/ \E e \in Session1(n).retransmit_queue : e.id = calls[n][o].id
               \/ calls[n][o].status \in {"Ok", "Refused"} /\ o \notin pending[n]

CallInv == \A n \in Nodes : CallsOf(n)

\* The operation of n that id names has been executed, unless it is a read.
Served(n, id) == issued[n][id[2]] # "ReadReq" => exec[Peer(n)][id[2]] >= 1

\* The call of n with opaque o has the result of its own operation.
Answered1(n, o) ==
    LET c == calls[n][o]
    IN  c.id # NoId /\ c.answer = c.id /\ Served(n, c.id)

\* A request carries the opaque of its call; a response the opaque of a call
\* of the other node, with the operation of that call, which was executed; and
\* no error response looks like a read.
Sound(f) ==
    /\ f.verb \in Requests /\ f.seq # 0 => Asks(f.src, f.opaque, f.id)
    /\ f.verb = "ReadReq" => f.seq # 0
    /\ f.verb \in Responses =>
           Asks(Peer(f.src), f.opaque, f.id) /\ Served(Peer(f.src), f.id)

\* What node n has cached answers a call of its peer.
CacheSound(n, o, id) == Asks(Peer(n), o, id) /\ Served(Peer(n), id)

ResponseInv ==
    /\ \A f \in InFlight(data) : Sound(f)
    /\ \A n \in Nodes : \A i \in DOMAIN inbound[n] : Sound(inbound[n][i])
    /\ \A n \in Nodes : \A c \in Session1(n).read_cache : CacheSound(n, c.opaque, c.id)
    /\ \A n \in Nodes : \A k \in DOMAIN issued[n] : issued[n][k] \in Verbs
    /\ \A n \in Nodes : \A o \in DOMAIN calls[n] : calls[n][o].status = "Ok" => Answered1(n, o)

-----------------------------------------------------------------------------
(* What the steps do to the calls                                          *)

\* Entries keep what they stand for, and a living session all its requests.
Keeps(t, s) ==
    /\ \A e \in t.retransmit_queue : \E d \in s.retransmit_queue :
           e.id = d.id /\ e.verb = d.verb /\ e.opaque = d.opaque
    /\ t.state = "Active" =>
           /\ s.state = "Active"
           /\ \A d \in s.retransmit_queue : d.verb \in Requests =>
                  \E e \in t.retransmit_queue : e.id = d.id

\* Every cached response was cached before.
CacheFrom(t, s) ==
    \A c \in t.read_cache : \E d \in s.read_cache : c.opaque = d.opaque /\ c.id = d.id

\* What the verb engine finds has arrived before or is in flight.
InboundFrom ==
    \A m \in Nodes : \A i \in DOMAIN inbound'[m] :
        \/ \E j \in DOMAIN inbound[m] : inbound'[m][i] = inbound[m][j]
        \/ inbound'[m][i] \in InFlight(data)

\* The transports and the network carry what the callers queued.
Carried ==
    /\ \A m \in Nodes : /\ Keeps(Session1(m)', Session1(m))
                        /\ CacheFrom(Session1(m)', Session1(m))
    /\ \A g \in InFlight(data)' :
           \/ g \in InFlight(data)
           \/ \E m \in Nodes : \E e \in Session1(m).retransmit_queue : g = EntryFrame(m, e)
    /\ InboundFrom
    /\ issued' = issued
    /\ UNCHANGED engineVars

\* Calls and operations stay what they are, executions stay executed.
Forward ==
    \A n \in Nodes :
        /\ \A o \in DOMAIN calls[n] :
               /\ o \in DOMAIN calls'[n]
               /\ calls'[n][o].id = calls[n][o].id
        /\ \A k \in DOMAIN issued[n] :
               /\ k \in DOMAIN issued'[n] /\ issued'[n][k] = issued[n][k]
               /\ exec[Peer(n)][k] >= 1 => exec'[Peer(n)][k] >= 1

\* The calls of n with one more, the N + 1st.
Grown(n, id, status, N) ==
    /\ DOMAIN calls[n] = 1 .. N /\ next_opaque[n] = N + 1
    /\ DOMAIN calls'[n] = 1 .. N + 1 /\ Len(calls'[n]) = N + 1
    /\ next_opaque'[n] = N + 2
    /\ pending'[n] = pending[n] \cup {N + 1}
    /\ \A o \in 1 .. N : calls'[n][o] = calls[n][o]
    /\ calls'[n][N + 1].id = id
    /\ calls'[n][N + 1].status = status

OtherCalls(n) ==
    \A m \in Nodes : m # n =>
        /\ next_opaque'[m] = next_opaque[m] /\ pending'[m] = pending[m]
        /\ calls'[m] = calls[m]

\* The node n has queued e and sent at most its frame.
Queues(n, verb, opaque, t, e) ==
    /\ Session1(n)' = t
    /\ \A m \in Nodes : m # n => Session1(m)' = Session1(m) /\ issued'[m] = issued[m]
    /\ t.state = Session1(n).state
    /\ t.read_cache = Session1(n).read_cache
    /\ t.retransmit_queue = Session1(n).retransmit_queue \cup {e}
    /\ e.verb = verb /\ e.opaque = opaque /\ e.id = NextId(n) /\ e.seq # 0
    /\ \A g \in InFlight(data)' : g \in InFlight(data) \/ g = EntryFrame(n, e)
    /\ NextId(n) \in Id
    /\ \E k \in DOMAIN issued'[n] :
           NextId(n) = <<n, k>> /\ issued'[n][k] = verb /\ k \notin DOMAIN issued[n]
    /\ \A k \in DOMAIN issued[n] : k \in DOMAIN issued'[n] /\ issued'[n][k] = issued[n][k]
    /\ \A k \in DOMAIN issued'[n] : k \in DOMAIN issued[n] \/ issued'[n][k] = verb

\* One call that changes, and all the others.
Changed(n, o, c) ==
    /\ DOMAIN calls'[n] = DOMAIN calls[n] /\ Len(calls'[n]) = Len(calls[n])
    /\ calls'[n][o] = c
    /\ \A p \in DOMAIN calls[n] : p # o => calls'[n][p] = calls[n][p]
    /\ \A m \in Nodes : m # n => calls'[m] = calls[m]

\* What node n may answer the operation id of the call o with when it handles
\* f: a response it has cached, or the operation of f, which it executes.
Known(n, f, o, id) ==
    \/ \E d \in Session1(n).read_cache : o = d.opaque /\ id = d.id
    \/ /\ f.verb \in Requests /\ o = f.opaque /\ id = f.id
       /\ f.verb # "ReadReq" => ~f.err /\ Count(n, f)

AnswerEffect(n, f, t) ==
    /\ sess' = [sess EXCEPT ![n][1] = t]
    /\ SameSender(t, Session1(n))
    /\ \A c \in t.read_cache : Known(n, f, c.opaque, c.id)
    /\ \A g \in InFlight(data)' :
           \/ g \in InFlight(data)
           \/ f.verb \in Requests /\ Refusals /\ g = ErrorFrame(n, f)
           \/ \E id \in Id : /\ f.verb \in Requests
                             /\ Known(n, f, f.opaque, id)
                             /\ g = ResponseFrame(n, f, id)
    /\ UNCHANGED <<next_opaque, pending, calls>>

\* Marking f as executed leaves the sender and the cache alone.
Remarked(n, s, t) ==
    /\ sess' = [sess EXCEPT ![n][1] = t]
    /\ SameSender(t, Session1(n))
    /\ t.read_cache = s.read_cache

\* What complete_pending_request does to the call of f.
Completes(n, f, o, c) ==
    /\ calls' = [calls EXCEPT ![n][o] = c]
    /\ c.id = calls[n][o].id
    /\ \/ c.status = "Ok" /\ c.answer = f.id
       \/ c.status = "Refused"
=============================================================================
