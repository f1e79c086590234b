------------------------------ MODULE KvSlot -------------------------------
(***************************************************************************)
(* One slot of the distributed KV store (unibusd/src/main.rs: kv_init,     *)
(* kv_put, kv_get, kv_cas, notify_replica): a key and value, written as a  *)
(* whole, beside a version word that puts add to and cas swaps.            *)
(*                                                                         *)
(* Requests at the owner use the device directly, one device operation at  *)
(* a time.  Requests at another node go over the data plane under that     *)
(* node's data plane lock; its verbs execute in order and may be lost, a   *)
(* call may time out before or after its verb executes, and the write is   *)
(* fire-and-forget.  What is written is named by the request writing it.   *)
(***************************************************************************)
EXTENDS Naturals, Sequences, FiniteSets

CONSTANTS
    Local,      \* requests served by the owner's daemon
    Remote,     \* requests served by another node's daemon
    MaxExpect   \* bound on the version a cas expects

Tasks == Local \union Remote
MaxVersion == Cardinality(Tasks)
None == "none"
ASSUME KvAssumption ==
    /\ IsFiniteSet(Tasks) /\ Local \intersect Remote = {} /\ None \notin Tasks
    /\ MaxExpect \in Nat

VARIABLES
    init,     \* kv_init: "registered", "version" (first word zeroed), "done"
    version,  \* the slot's version word
    data,     \* the slot's key and value: the request that wrote them, or None
    op,       \* request -> its state
    net,      \* verbs of the other node under way to the owner
    lock,     \* holder of the other node's data plane lock
    told      \* the highest version any caller or replica has been told of

vars == <<init, version, data, op, net, lock, told>>

\* got: the version word the request's atomic or read returned; floor: what
\* the store had told anyone when a get began; late: kv_init was over; alone:
\* it made the current version, with no other write outstanding.
Idle == [pc |-> "idle", kind |-> "get", expect |-> 0, got |-> 0, floor |-> 0,
         late |-> FALSE, alone |-> FALSE]

Init ==
    /\ init = "registered"
    /\ version = 0 /\ data = None
    /\ op = [t \in Tasks |-> Idle]
    /\ net = <<>> /\ lock = None /\ told = 0

\* kv_init zeroes a region that is registered, and so published, already.
kv_init_version ==
    /\ init = "registered"
    /\ version' = 0 /\ init' = "version"
    /\ UNCHANGED <<data, op, net, lock, told>>

kv_init_slot ==
    /\ init = "version"
    /\ version' = 0 /\ data' = None /\ init' = "done"
    /\ UNCHANGED <<op, net, lock, told>>

Requests == {<<"put", 0>>, <<"get", 0>>} \union ({"cas"} \X (0..MaxExpect))

Begin(t, pc, kind, expect) ==
    /\ op[t].pc = "idle"
    /\ op' = [op EXCEPT ![t] = [pc |-> pc, kind |-> kind, expect |-> expect, got |-> 0,
                                floor |-> IF kind = "get" THEN told ELSE 0,
                                late |-> init = "done", alone |-> FALSE]]

kv_request_local(t) ==
    /\ t \in Local
    /\ \E r \in Requests : Begin(t, "device", r[1], r[2])
    /\ UNCHANGED <<init, version, data, net, lock, told>>

kv_request_remote(t) ==
    /\ t \in Remote /\ lock = None
    /\ \E r \in Requests :
         /\ Begin(t, "waiting", r[1], r[2])
         /\ net' = Append(net, [op |-> t, kind |-> r[1], expect |-> r[2]])
    /\ lock' = t
    /\ UNCHANGED <<init, version, data, told>>

-----------------------------------------------------------------------------
(* The device: MemoryDevice executes one operation at a time on the slot.  *)

Wins(kind, expect) == kind = "put" \/ (kind = "cas" /\ version = expect)

Writing(t) == op[t].pc = "won" \/ \E i \in DOMAIN net : net[i].op = t /\ net[i].kind = "write"

\* What the request's record becomes once its verb executed, and the others'.
Return(t, wins) ==
    op' = [u \in Tasks |->
             IF u = t /\ op[t].pc \in {"device", "waiting"}
             THEN [op[t] EXCEPT !.pc = IF wins THEN "won" ELSE "lost", !.expect = 0, !.got = version,
                                !.alone = wins /\ ~\E v \in Tasks \ {t} : Writing(v)]
             ELSE [op[u] EXCEPT !.alone = @ /\ ~wins]]

\* A mistake to compare with: the swap stores without comparing.
device_atomic_store(t, kind, expect) ==
    LET wins == Wins(kind, expect) IN
    /\ version' = IF kind = "cas" THEN expect + 1 ELSE IF wins THEN version + 1 ELSE version
    /\ Return(t, kind # "get")

\* atomic_faa, atomic_cas, or the read of the slot.
device_atomic(t, kind, expect) ==
    LET wins == Wins(kind, expect) IN
    /\ version' = IF wins THEN version + 1 ELSE version
    /\ Return(t, wins)

Goto(t, pc) == op' = [op EXCEPT ![t].pc = pc]
Over(t) == op' = [op EXCEPT ![t] = [Idle EXCEPT !.pc = "over"]]
Tell(t) == told' = IF op[t].late /\ op[t].got >= told THEN op[t].got + 1 ELSE told

-----------------------------------------------------------------------------
(* Requests at the owner.                                                  *)

local_atomic(t) ==
    /\ t \in Local /\ op[t].pc = "device"
    /\ device_atomic(t, op[t].kind, op[t].expect)
    /\ UNCHANGED <<init, data, net, lock, told>>

local_write(t) ==
    /\ t \in Local /\ op[t].pc = "won"
    /\ data' = t
    /\ Goto(t, "notify")
    /\ UNCHANGED <<init, version, net, lock, told>>

\* kv_get's answer, or cas_failed.
answer_without_write(t) ==
    /\ op[t].pc = "lost"
    /\ Over(t)
    /\ lock' = IF lock = t THEN None ELSE lock
    /\ UNCHANGED <<init, version, data, net, told>>

-----------------------------------------------------------------------------
(* Requests at the other node.                                             *)

\* The owner executes the next verb that arrives.
net_execute ==
    /\ net # <<>>
    /\ LET m == Head(net) IN
       IF m.kind = "write"
         THEN data' = m.op /\ UNCHANGED <<version, op>>
         ELSE device_atomic(m.op, m.kind, m.expect) /\ UNCHANGED data
    /\ net' = Tail(net)
    /\ UNCHANGED <<init, lock, told>>

net_lose ==
    /\ net # <<>>
    /\ net' = Tail(net)
    /\ UNCHANGED <<init, version, data, op, lock, told>>

\* The call's answer does not come in time; the verb may still execute.
remote_timeout(t) ==
    /\ t \in Remote /\ op[t].pc \in {"waiting", "won", "lost"}
    /\ Over(t)
    /\ lock' = None
    /\ UNCHANGED <<init, version, data, net, told>>

\* Mistakes to compare with: the lock is held until the answer; the write is
\* not under the test of the swap.
remote_write_locked(t) ==
    /\ t \in Remote /\ op[t].pc = "won"
    /\ net' = Append(net, [op |-> t, kind |-> "write", expect |-> 0])
    /\ Goto(t, "notify")
    /\ UNCHANGED <<init, version, data, lock, told>>

remote_write_always(t) ==
    /\ t \in Remote /\ (op[t].pc = "won" \/ (op[t].pc = "lost" /\ op[t].kind = "cas"))
    /\ net' = Append(net, [op |-> t, kind |-> "write", expect |-> 0])
    /\ IF op[t].pc = "won" THEN Goto(t, "notify") ELSE Over(t)
    /\ lock' = None
    /\ UNCHANGED <<init, version, data, told>>

\* The write goes out unless the session refuses it: that is kv_put's error,
\* and kv_cas ignores it.  The lock is dropped before the replica is told.
remote_write(t) ==
    /\ t \in Remote /\ op[t].pc = "won"
    /\ \/ /\ net' = Append(net, [op |-> t, kind |-> "write", expect |-> 0])
          /\ Goto(t, "notify")
       \/ /\ net' = net
          /\ IF op[t].kind = "put" THEN Over(t) ELSE Goto(t, "notify")
    /\ lock' = None
    /\ UNCHANGED <<init, version, data, told>>

\* notify_replica takes the lock (the owner's own is never held for long),
\* sends and forgets; then the caller is answered.
notify_replica(t) ==
    /\ op[t].pc = "notify"
    /\ t \in Remote => lock = None
    /\ Tell(t)
    /\ op' = [op EXCEPT ![t].pc = "done", ![t].kind = "put"]
    /\ UNCHANGED <<init, version, data, net, lock>>

-----------------------------------------------------------------------------
Finished == init = "done" /\ net = <<>> /\ \A t \in Tasks : op[t].pc \in {"done", "over"}
Terminating == Finished /\ UNCHANGED vars

Step(t) ==
    \/ local_atomic(t) \/ local_write(t) \/ answer_without_write(t)
    \/ remote_timeout(t) \/ remote_write(t) \/ notify_replica(t)

Next ==
    \/ kv_init_version \/ kv_init_slot
    \/ \E t \in Tasks : kv_request_local(t) \/ kv_request_remote(t) \/ Step(t)
    \/ net_execute \/ net_lose
    \/ Terminating

\* A request's task runs whenever it can; its call's deadline passes.
Spec == Init /\ [][Next]_vars /\ \A t \in Tasks : WF_vars(Step(t))

-----------------------------------------------------------------------------
Ops == [pc : {"idle", "device", "waiting", "won", "lost", "notify", "done", "over"},
        kind : {"put", "get", "cas"}, expect : 0..MaxExpect,
        got : 0..MaxVersion, floor : 0..MaxVersion, late : BOOLEAN, alone : BOOLEAN]

\* Every variable has its type, and the other node's lock is held by a
\* request of that node that is in a call or about to use its answer.
TypeOK ==
    /\ init \in {"registered", "version", "done"}
    /\ version \in 0..MaxVersion /\ told \in 0..version
    /\ data \in Tasks \union {None}
    /\ op \in [Tasks -> Ops]
    /\ lock \in Remote \union {None}
    /\ \A t \in Remote : lock = t <=> op[t].pc \in {"waiting", "won", "lost"}

Assigned(t) == op[t].pc \in {"won", "notify", "done"} /\ op[t].late

\* No two requests that begin after kv_init are given the same version, puts
\* and successful cas alike, at the owner or elsewhere, whatever calls time
\* out (kv_put's FAA and kv_cas's CAS on the one version word).
DistinctVersions ==
    \A t, u \in Tasks : t # u /\ Assigned(t) /\ Assigned(u) => op[t].got # op[u].got

\* A get that begins once a caller or a replica has been told of a version
\* returns that version or a later one.
ReadAfterAnswer ==
    \A t \in Tasks :
       op[t].kind = "get" /\ op[t].late /\ op[t].pc = "lost"
         => op[t].got >= op[t].floor

\* The value of the current version stays: once a request at the owner has
\* written, and no other write was outstanding when it got its version, the
\* slot keeps its value until another request gets a version.
ValueOfVersionStays ==
    \A t \in Local :
       op[t].alone /\ op[t].late /\ op[t].pc \in {"notify", "done"}
         => data = t /\ version = op[t].got + 1

\* Every request that has begun its first operation is answered, at the owner
\* or, with the lock of the data plane held from one verb to the next, at the
\* other node, whatever verbs are lost (kv_put, kv_cas, kv_get; the timeout of
\* a remote verb).  A request still waiting for the lock has not begun.
CallsEnd ==
    \A t \in Tasks : op[t].pc \in {"device", "waiting"} ~> op[t].pc \in {"done", "over"}
=============================================================================
