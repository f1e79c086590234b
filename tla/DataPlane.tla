------------------------------ MODULE DataPlane ------------------------------
(***************************************************************************)
(* The verb engines of two nodes over their transports                     *)
(* (crates/ub-dataplane/src/lib.rs), and the peer events that the daemon   *)
(* turns into sessions and channels (crates/unibusd/src/main.rs).          *)
(*                                                                         *)
(* A request call (read, CAS, FAA) takes an opaque, waits for a response   *)
(* and times out; write, write_imm and send are fire and forget.  One task *)
(* per node takes the inbound frames one at a time.  Whether the memory    *)
(* region or the jetty of an operation accepts it is left open (Refusals). *)
(***************************************************************************)
EXTENDS Transport

CONSTANTS
    Verbs,                 \* the verbs the callers use
    Refusals,              \* whether the target MR or jetty may refuse an operation
    MaxEpochs              \* bound: how many incarnations a node has

ASSUME DataPlaneAssumption ==
    /\ Verbs \subseteq FireAndForget \cup Requests
    /\ Refusals \in BOOLEAN
    /\ MaxEpochs \in Nat \ {0}

VARIABLES
    next_opaque,   \* next_opaque[n]
    pending,       \* pending[n]: the opaques with a waiting channel
    calls,         \* calls[n][o]: what became of the call that took opaque o
    exec           \* history: exec[n][k], how often n executed the peer's k-th frame

engineVars == <<next_opaque, pending, calls, exec>>
vars == <<transportVars, engineVars>>

\* A response with a non-zero status would be a further outcome, but no frame
\* with a response verb carries ERR_RESP.
Outcome == {"Waiting", "Ok", "Refused", "Timeout", "LinkDown"}

\* `id` is what the call queued, `answer` what its response answers.
NoId == <<>>
Call == [id : Id \cup {NoId}, answer : Id \cup {NoId}, status : Outcome]

-----------------------------------------------------------------------------
(* Callers *)

\* ub_write_remote, ub_write_imm_remote, ub_send_remote.  A call that is
\* refused before a sequence number is taken changes nothing.
IssueFireAndForget(n) ==
    /\ \E verb \in Verbs \cap FireAndForget, taken \in BOOLEAN :
           send(n, verb, 0, taken)
    /\ UNCHANGED <<epoch, cur, sender, acks, inbound, faults, engineVars>>

\* ub_read_remote, ub_atomic_cas_remote, ub_atomic_faa_remote.  The pending
\* entry is made first and stays when the transport refuses the frame.
TakeOpaque(n, id, status) ==
    /\ next_opaque' = [next_opaque EXCEPT ![n] = @ + 1]
    /\ pending' = [pending EXCEPT ![n] = @ \cup {next_opaque[n]}]
    /\ calls' = [calls EXCEPT ![n] =
           Append(@, [id |-> id, answer |-> NoId, status |-> status])]

IssueRequest(n) ==
    /\ \E verb \in Verbs \cap Requests, taken \in BOOLEAN :
           /\ send(n, verb, next_opaque[n], taken)
           /\ TakeOpaque(n, NextId(n), IF taken THEN "Waiting" ELSE "Refused")
    /\ UNCHANGED <<epoch, cur, sender, acks, inbound, faults, exec>>

\* The bound on next_opaque is MaxSends: a refused call counts as one.
RefuseRequest(n) ==
    /\ Verbs \cap Requests # {}
    /\ ~CanSend(n)
    /\ next_opaque[n] <= MaxSends[n]
    /\ TakeOpaque(n, NoId, "Refused")
    /\ UNCHANGED <<transportVars, exec>>

\* A mistake to compare with: the pending entry stays.
VerbTimeout_leaks(n) ==
    \E o \in DOMAIN calls[n] :
        /\ calls[n][o].status = "Waiting"
        /\ calls' = [calls EXCEPT ![n][o].status = "Timeout"]
        /\ UNCHANGED <<transportVars, next_opaque, pending, exec>>

\* VERB_TIMEOUT: the pending entry goes, the retransmit entry stays.
VerbTimeout(n) ==
    \E o \in DOMAIN calls[n] :
        /\ calls[n][o].status = "Waiting"
        /\ pending' = [pending EXCEPT ![n] = @ \ {o}]
        /\ calls' = [calls EXCEPT ![n][o].status = "Timeout"]
        /\ UNCHANGED <<transportVars, next_opaque, exec>>

-----------------------------------------------------------------------------
(* handle_verb_frame *)

Executed(n, seq) == HasSession(n) /\ is_executed(CurrentSession(n), seq)

MarkExecuted(n, S, seq) ==
    IF HasSession(n) THEN [S EXCEPT ![n][cur[n]] = mark_executed(@, seq)] ELSE S

Hit(n, opaque) ==
    IF HasSession(n) THEN cache_lookup(CurrentSession(n), opaque) ELSE {}

ReadCacheGet(n, opaque) ==
    IF HasSession(n) THEN Update(n, cache_get(CurrentSession(n), opaque)) ELSE sess

ReadCacheInsert(n, opaque, id) ==
    IF HasSession(n) THEN Update(n, cache_insert(CurrentSession(n), opaque, id)) ELSE sess

ResponseVerb(verb) ==
    CASE verb = "ReadReq"   -> "ReadResp"
      [] verb = "AtomicCas" -> "AtomicCasResp"
      [] verb = "AtomicFaa" -> "AtomicFaaResp"

ResponseFrame(n, f, id) ==
    [src |-> n, seq |-> 0, verb |-> ResponseVerb(f.verb), opaque |-> f.opaque,
     id |-> id, err |-> FALSE]

\* An error response keeps the verb of the request.
ErrorFrame(n, f) ==
    [src |-> n, seq |-> 0, verb |-> f.verb, opaque |-> f.opaque, id |-> f.id, err |-> TRUE]

Count(n, f) == exec' = [exec EXCEPT ![n][f.id[2]] = @ + 1]

\* handle_write and handle_write_imm; the jetty part of handle_write_imm is
\* left out.
HandleWrite(n, f) ==
    /\ f.verb \in {"Write", "WriteImm"}
    /\ IF Executed(n, f.seq)
       THEN UNCHANGED <<sess, exec>>
       ELSE /\ sess' = MarkExecuted(n, sess, f.seq)
            /\ Count(n, f) \/ (Refusals /\ UNCHANGED exec)
    /\ UNCHANGED <<data, next_opaque, pending, calls>>

HandleSend(n, f) ==
    /\ f.verb = "Send"
    /\ Count(n, f) \/ (Refusals /\ UNCHANGED exec)
    /\ UNCHANGED <<sess, data, next_opaque, pending, calls>>

ResendCached(n, f) ==
    /\ sess' = ReadCacheGet(n, f.opaque)
    /\ data' = SentToPeer(n, {ResponseFrame(n, f, c.id) : c \in Hit(n, f.opaque)})
    /\ UNCHANGED <<engineVars>>

HandleRead(n, f) ==
    /\ f.verb = "ReadReq"
    /\ IF Hit(n, f.opaque) # {}
       THEN ResendCached(n, f)
       ELSE \/ /\ sess' = ReadCacheInsert(n, f.opaque, f.id)
               /\ data' = SentToPeer(n, {ResponseFrame(n, f, f.id)})
               /\ IF f.err THEN UNCHANGED exec ELSE Count(n, f)
               /\ UNCHANGED <<next_opaque, pending, calls>>
            \/ /\ Refusals
               /\ data' = SentToPeer(n, {ErrorFrame(n, f)})
               /\ UNCHANGED <<sess, engineVars>>

\* handle_atomic_cas and handle_atomic_faa.  The four bytes of an error
\* response are too short a payload, so an error frame never executes.
HandleAtomic(n, f) ==
    /\ f.verb \in {"AtomicCas", "AtomicFaa"}
    /\ IF Executed(n, f.seq)
       THEN ResendCached(n, f)
       ELSE /\ \/ /\ ~f.err
                  /\ sess' = MarkExecuted(n, ReadCacheInsert(n, f.opaque, f.id), f.seq)
                  /\ data' = SentToPeer(n, {ResponseFrame(n, f, f.id)})
                  /\ Count(n, f)
               \/ /\ Refusals
                  /\ sess' = MarkExecuted(n, sess, f.seq)
                  /\ data' = SentToPeer(n, {ErrorFrame(n, f)})
                  /\ UNCHANGED exec
            /\ UNCHANGED <<next_opaque, pending, calls>>

\* A mistake to compare with: the oldest waiting call is completed.
complete_pending_request_oldest(n, f) ==
    /\ f.verb \in Responses
    /\ \E o \in pending[n] :
           /\ \A p \in pending[n] : o <= p
           /\ pending' = [pending EXCEPT ![n] = @ \ {o}]
           /\ calls' = IF calls[n][o].status = "Waiting"
                       THEN [calls EXCEPT ![n][o].status = "Ok", ![n][o].answer = f.id]
                       ELSE calls
    /\ UNCHANGED <<sess, data, next_opaque, exec>>

complete_pending_request(n, f) ==
    /\ f.verb \in Responses
    /\ IF f.opaque \in pending[n]
       THEN /\ pending' = [pending EXCEPT ![n] = @ \ {f.opaque}]
            /\ calls' = IF calls[n][f.opaque].status = "Waiting"
                        THEN [calls EXCEPT ![n][f.opaque].status = "Ok",
                                           ![n][f.opaque].answer = f.id]
                        ELSE calls
            /\ sess' = IF HasSession(n)
                       THEN Update(n, complete_request(CurrentSession(n), f.opaque))
                       ELSE sess
       ELSE UNCHANGED <<pending, calls, sess>>
    /\ UNCHANGED <<data, next_opaque, exec>>

handle_verb_frame(n) ==
    /\ inbound[n] # << >>
    /\ LET f == Head(inbound[n])
       IN  \/ HandleWrite(n, f)
           \/ HandleSend(n, f)
           \/ HandleRead(n, f)
           \/ HandleAtomic(n, f)
           \/ complete_pending_request(n, f)
    /\ inbound' = [inbound EXCEPT ![n] = Tail(@)]
    /\ UNCHANGED <<epoch, cur, sender, acks, issued, faults>>

CacheExpire(n) ==
    /\ \E k \in DOMAIN sess[n] : \E c \in sess[n][k].read_cache :
           sess' = [sess EXCEPT ![n][k] = cache_expire(@, c)]
    /\ UNCHANGED <<epoch, cur, sender, data, acks, inbound, issued, faults, engineVars>>

-----------------------------------------------------------------------------
(* Peer events (the peer-change task of main.rs) *)

\* A HELLO, HELLO_ACK or JOIN brings the peer's initial credits, a member
\* snapshot zero credits.  The event may be older than the peer's present
\* incarnation.  The channel is made after the session; a frame queued in
\* between is one the channel does not take.
PeerJoined(n) ==
    /\ \E e \in 1 .. epoch[Peer(n)], credits \in {InitialCredits, 0} :
           create_session(n, e, credits)
    /\ sender' = [sender EXCEPT ![n] = TRUE]
    /\ UNCHANGED <<epoch, data, acks, inbound, issued, faults, engineVars>>

PeerRecovered(n) ==
    /\ sender' = [sender EXCEPT ![n] = TRUE]
    /\ UNCHANGED <<epoch, sess, cur, data, acks, inbound, issued, faults, engineVars>>

\* disconnect_peer: the requests among the entries of the killed sessions fail.
QueuedRequests(n) ==
    {o \in pending[n] : \E k \in DOMAIN sess[n] : \E e \in sess[n][k].retransmit_queue :
                            e.verb \in Requests /\ e.opaque = o}

\* A mistake to compare with: the waiting calls are not failed.
PeerDown_quiet(n) ==
    /\ notify_peer_down(n)
    /\ UNCHANGED <<epoch, data, acks, inbound, issued, faults, engineVars>>

PeerDown(n) ==
    /\ notify_peer_down(n)
    /\ pending' = [pending EXCEPT ![n] = @ \ QueuedRequests(n)]
    /\ calls' = [calls EXCEPT ![n] = [o \in DOMAIN @ |->
           IF o \in QueuedRequests(n) /\ @[o].status = "Waiting"
           THEN [@[o] EXCEPT !.status = "LinkDown"] ELSE @[o]]]
    /\ UNCHANGED <<epoch, data, acks, inbound, issued, faults, next_opaque, exec>>

\* The process ends and starts again: its memory is gone, datagrams are not.
Restart(n) ==
    /\ epoch[n] < MaxEpochs
    /\ epoch' = [epoch EXCEPT ![n] = @ + 1]
    /\ notify_peer_down(n)
    /\ inbound' = [inbound EXCEPT ![n] = << >>]
    /\ next_opaque' = [next_opaque EXCEPT ![n] = 1]
    /\ pending' = [pending EXCEPT ![n] = {}]
    /\ calls' = [calls EXCEPT ![n] = << >>]
    /\ exec' = [exec EXCEPT ![n] = [k \in DOMAIN @ |-> 0]]
    /\ UNCHANGED <<data, acks, issued, faults>>

-----------------------------------------------------------------------------
(* Specifications *)

Init ==
    /\ epoch = [n \in Nodes |-> 1]
    /\ sess = [n \in Nodes |-> << >>]
    /\ cur = [n \in Nodes |-> 0]
    /\ sender = [n \in Nodes |-> FALSE]
    /\ data = NoFrames
    /\ acks = NoFrames
    /\ inbound = [n \in Nodes |-> << >>]
    /\ issued = [n \in Nodes |-> << >>]
    /\ faults = [duplicated |-> 0, lost |-> 0]
    /\ next_opaque = [n \in Nodes |-> 1]
    /\ pending = [n \in Nodes |-> {}]
    /\ calls = [n \in Nodes |-> << >>]
    /\ exec = [n \in Nodes |-> [k \in 1 .. MaxSends[Peer(n)] |-> 0]]

\* Both nodes have just processed the Joined event of their peer.
InitJoined ==
    /\ epoch = [n \in Nodes |-> 1]
    /\ sess = [n \in Nodes |-> [k \in {1} |-> new_session(InitialCredits)]]
    /\ cur = [n \in Nodes |-> 1]
    /\ sender = [n \in Nodes |-> TRUE]
    /\ data = NoFrames
    /\ acks = NoFrames
    /\ inbound = [n \in Nodes |-> << >>]
    /\ issued = [n \in Nodes |-> << >>]
    /\ faults = [duplicated |-> 0, lost |-> 0]
    /\ next_opaque = [n \in Nodes |-> 1]
    /\ pending = [n \in Nodes |-> {}]
    /\ calls = [n \in Nodes |-> << >>]
    /\ exec = [n \in Nodes |-> [k \in 1 .. MaxSends[Peer(n)] |-> 0]]

CallStep(n) ==
    \/ IssueFireAndForget(n)
    \/ IssueRequest(n)
    \/ RefuseRequest(n)
    \/ VerbTimeout(n)

TransportStep(n) ==
    /\ \/ RtoTick(n)
       \/ handle_data_frame(n)
       \/ handle_ack_frame(n)
    /\ UNCHANGED engineVars

NetworkStep ==
    /\ \/ LoseData
       \/ LoseAck
       \/ DuplicateData
       \/ DuplicateAck
    /\ UNCHANGED engineVars

PeerEvent(n) ==
    \/ PeerJoined(n)
    \/ PeerRecovered(n)
    \/ PeerDown(n)
    \/ Restart(n)

StableNext ==
    \/ \E n \in Nodes : CallStep(n) \/ TransportStep(n) \/ handle_verb_frame(n) \/ CacheExpire(n)
    \/ NetworkStep

Next == StableNext \/ \E n \in Nodes : PeerEvent(n)

\* While the control plane reports no change, the sessions stay as they are.
StableSpec == InitJoined /\ [][StableNext]_vars

Spec == Init /\ [][Next]_vars

\* The tasks every node runs never stop: the receive tasks and the verb task
\* take what arrives.  The RTO task is not among them: unibusd does not start
\* it.
Fairness ==
    \A n \in Nodes :
        /\ WF_vars(handle_data_frame(n) /\ UNCHANGED engineVars)
        /\ WF_vars(handle_ack_frame(n) /\ UNCHANGED engineVars)
        /\ WF_vars(handle_verb_frame(n))

FairStableSpec == StableSpec /\ Fairness

-----------------------------------------------------------------------------
(* Properties *)

\* Every variable has the type its declaration gives it; opaques index calls.
TypeOK ==
    /\ epoch \in [Nodes -> Nat]
    /\ cur \in [Nodes -> Nat]
    /\ \A n \in Nodes : sess[n] \in [DOMAIN sess[n] -> Session]
    /\ sender \in [Nodes -> BOOLEAN]
    /\ InFlight(data) \subseteq DataFrame
    /\ InFlight(acks) \subseteq AckFrame
    /\ inbound \in [Nodes -> Seq(DataFrame)]
    /\ issued \in [Nodes -> Seq(FireAndForget \cup Requests)]
    /\ faults \in [duplicated : Nat, lost : Nat]
    /\ next_opaque \in [Nodes -> Nat]
    /\ pending \in [Nodes -> SUBSET Nat]
    /\ calls \in [Nodes -> Seq(Call)]
    /\ \A n \in Nodes : exec[n] \in [1 .. MaxSends[Peer(n)] -> Nat]

\* No write, send or atomic is executed twice, however its frame is resent,
\* duplicated or reordered: the dedup window stops the second copy of a
\* fire-and-forget frame, the execution records that of an atomic (which the
\* transport hands over again).  The records hold the last RecordCap sequence
\* numbers, so this is promised while the peer has queued fewer frames.
AtMostOnce ==
    \A n \in Nodes : Len(issued[Peer(n)]) < RecordCap =>
        \A k \in DOMAIN issued[Peer(n)] :
            issued[Peer(n)][k] # "ReadReq" => exec[n][k] <= 1

\* The same without the bound: what the documents promise of every operation.
AtMostOnceAlways ==
    \A n \in Nodes : \A k \in DOMAIN issued[Peer(n)] :
        issued[Peer(n)][k] # "ReadReq" => exec[n][k] <= 1

Queued(n, k) == \E e \in CurrentSession(n).retransmit_queue : e.id = <<n, k>>

\* While a session lives, process_ack drops a fire-and-forget frame from the
\* retransmit queue only when the peer's window has marked it: no ACK, old,
\* duplicated or reordered, covers a frame that has not arrived.
DroppedOnlyIfReceived ==
    \A n \in Nodes : CurrentSession(n).state = "Active" =>
        \A k \in DOMAIN issued[n] :
            issued[n][k] \in FireAndForget /\ ~Queued(n, k)
                => is_seen(CurrentSession(Peer(n)).dedup, k)

\* While a session lives, a request leaves the retransmit queue only when its
\* response has come: a cumulative ACK does not remove it, a call that timed
\* out does not either.
RequestKeptUntilAnswered ==
    \A n \in Nodes : CurrentSession(n).state = "Active" =>
        \A o \in DOMAIN calls[n] :
            \/ calls[n][o].id = NoId
            \/ Queued(n, calls[n][o].id[2])
            \/ calls[n][o].status \in {"Ok", "Refused"} /\ o \notin pending[n]

\* A response completes the call whose request it answers.
AnswersTheCall ==
    \A n \in Nodes : \A o \in DOMAIN calls[n] :
        calls[n][o].status = "Ok" => calls[n][o].answer = calls[n][o].id

\* A call that returned the result of an atomic had it executed (AtMostOnce:
\* once), although a response may come from the cache.
OkMeansExecuted ==
    \A n \in Nodes : \A o \in DOMAIN calls[n] :
        calls[n][o].status = "Ok" /\ issued[n][calls[n][o].id[2]] # "ReadReq"
            => exec[Peer(n)][calls[n][o].id[2]] >= 1

\* The engines implement VerbService: resends, duplicates, reordering, late
\* responses and expired cache entries never execute an operation twice or a
\* write or send after a later one.
Service == INSTANCE VerbService
               WITH accepted <- issued, times <- [n \in Nodes |-> exec[Peer(n)]]

ImplementsVerbService == Service!Spec

\* A fire-and-forget frame that was acknowledged, and so will never be sent
\* again, has been executed or waits for the verb engine.
NoSilentLoss ==
    \A n \in Nodes : CurrentSession(n).state = "Active" =>
        \A k \in DOMAIN issued[n] :
            issued[n][k] \in FireAndForget /\ ~Queued(n, k)
              => \/ exec[Peer(n)][k] > 0
                 \/ \E i \in DOMAIN inbound[Peer(n)] : inbound[Peer(n)][i].id = <<n, k>>

\* A queued frame that the peer has not executed, its datagram being lost for
\* instance, is resent until it is executed, acknowledged or given up.
UnexecutedIsResent ==
    \A n \in Nodes : \A k \in 1 .. MaxSends[n] :
        Queued(n, k) /\ exec[Peer(n)][k] = 0
            ~> exec[Peer(n)][k] > 0 \/ ~Queued(n, k)

\* A sender out of credits gets credits again although the receiver answers
\* every AckEvery-th frame only and nobody resends: the frames that used up the
\* credits bring the receiver to its threshold.  So it is with as many credits
\* as frames per ACK, and while nothing is lost.
CreditsReturn ==
    \A n \in Nodes :
        InitialCredits >= AckEvery /\ CurrentSession(n).available_credits = 0
            ~> \/ CurrentSession(n).available_credits > 0
               \/ faults.lost > 0

\* A waiting call can be woken by its response or by the loss of the peer: its
\* channel is in the pending table and its request in the queue of a session
\* (disconnect_peer finds the calls to fail in those queues).  Sessions that
\* ran out of retries have lost their queue, so this is promised without the
\* RTO task, as in the daemon.
WaitingIsTracked ==
    \A n \in Nodes : \A o \in DOMAIN calls[n] : calls[n][o].status = "Waiting" =>
        /\ o \in pending[n]
        /\ RtoTask \/ o \in QueuedRequests(n)

\* The pending table holds no finished call: a result, a timeout and the loss
\* of the peer each remove the entry.  Only the entry of a call that the
\* transport refused stays.
PendingIsOpen ==
    \A n \in Nodes : \A o \in pending[n] : calls[n][o].status \in {"Waiting", "Refused"}

\* The error response to a request ends the call that waits for it.
ErrorEndsTheCall ==
    [][\A n \in Nodes :
          LET f == Head(inbound[n])
          IN  handle_verb_frame(n) /\ f.err /\ f.opaque \in pending[n]
                  => f.opaque \notin pending'[n]]_vars
=============================================================================
