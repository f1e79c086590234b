------------------------------ MODULE KvProofs ------------------------------
(***************************************************************************)
(* Theorems about one slot of the KV store, for any number of requests at  *)
(* the owner and at the other node.                                        *)
(*                                                                         *)
(* The invariant says, of the requests that begin once kv_init is over,    *)
(* that the version word has passed what they were given; of the one that  *)
(* made the current version undisturbed, that nobody else has a write      *)
(* outstanding; and it counts the requests that may still win a version,   *)
(* of which each has at most one atomic verb under way.                    *)
(***************************************************************************)
EXTENDS KvSlot, TLAPS, FiniteSetTheorems

Winning == {"won", "notify", "done"}
Verbs == [op : Remote, kind : {"put", "get", "cas", "write"}, expect : 0..MaxExpect]

KvTypes ==
    /\ init \in {"registered", "version", "done"}
    /\ version \in Nat /\ told \in 0..version
    /\ data \in Tasks \union {None}
    /\ op \in [Tasks -> Ops] /\ net \in Seq(Verbs)
    /\ lock \in Remote \union {None}
    /\ \A t \in Remote : lock = t <=> op[t].pc \in {"waiting", "won", "lost"}
    /\ \A t \in Remote : op[t].pc # "device"

\* The requests that may still be given a version.
Pending ==
    {t \in Tasks : \/ op[t].pc \in {"idle", "device"}
                   \/ \E i \in DOMAIN net : net[i].op = t /\ net[i].kind # "write"}

Counting ==
    /\ version + Cardinality(Pending) <= MaxVersion
    /\ \A i, j \in DOMAIN net : net[i].kind # "write" /\ net[j].kind # "write"
                                  /\ net[i].op = net[j].op => i = j
    /\ \A i \in DOMAIN net : net[i].kind # "write" => op[net[i].op].pc # "idle"

VersionInv ==
    /\ told > 0 => init = "done"
    /\ \A t \in Tasks : op[t].late =>
         /\ init = "done" /\ op[t].floor <= version
         /\ op[t].pc = "lost" => op[t].floor <= op[t].got
         /\ op[t].pc \in Winning => op[t].got < version
    /\ DistinctVersions

ValueInv ==
    \A t \in Tasks : op[t].alone =>
      /\ op[t].pc \in Winning
      /\ \A v \in Tasks \ {t} : ~Writing(v)
      /\ op[t].late => version = op[t].got + 1
      /\ op[t].late /\ t \in Local /\ op[t].pc # "won" => data = t

IInv == KvTypes /\ Counting /\ VersionInv /\ ValueInv

-----------------------------------------------------------------------------
(* Requests' records.                                                      *)

\* The fields of a request's record.
LEMMA OpFields ==
    ASSUME NEW r \in Ops
    PROVE  /\ DOMAIN r = {"pc", "kind", "expect", "got", "floor", "late", "alone"}
           /\ r.pc \in {"idle", "device", "waiting", "won", "lost", "notify", "done", "over"}
           /\ r.got \in 0..MaxVersion /\ r.floor \in 0..MaxVersion
           /\ r.late \in BOOLEAN /\ r.alone \in BOOLEAN
BY DEF Ops

\* The number of requests, and of those that may still win, is finite.
LEMMA PendingFinite ==
    /\ IsFiniteSet(Pending) /\ Cardinality(Pending) \in Nat /\ MaxVersion \in Nat
    /\ Cardinality(Pending) <= MaxVersion
<1>1. Pending \subseteq Tasks
  BY DEF Pending
<1> QED
  BY <1>1, FS_Subset, FS_CardinalityType, KvAssumption DEF MaxVersion

LEMMA VersionBound == ASSUME KvTypes, Counting PROVE version \in 0..MaxVersion
BY PendingFinite DEF KvTypes, Counting

LEMMA OneOp ==
    ASSUME KvTypes, NEW t \in Tasks, NEW r \in Ops, op' = [op EXCEPT ![t] = r]
    PROVE  /\ op' \in [Tasks -> Ops] /\ op'[t] = r
           /\ \A u \in Tasks : u # t => op'[u] = op[u]
BY DEF KvTypes

\* The verbs under way are of requests of the other node.
LEMMA NetVerbs == ASSUME KvTypes PROVE \A i \in DOMAIN net : net[i].op \in Remote /\ net[i].op \in Tasks
<1>1. \A i \in DOMAIN net : net[i] \in Verbs
  BY DEF KvTypes
<1>2. \A m \in Verbs : m.op \in Remote /\ m.op \in Tasks
  BY DEF Verbs, Tasks
<1> QED
  BY <1>1, <1>2

-----------------------------------------------------------------------------
(* Steps in which no request comes to more than it had.                    *)

Fades ==
    \A t \in Tasks :
      /\ op'[t].late => op[t].late /\ op'[t].floor = op[t].floor /\ op'[t].got = op[t].got
      /\ op'[t].pc \in Winning => op[t].pc \in Winning
      /\ op'[t].pc = "lost" => op[t].pc = "lost"
      /\ op'[t].pc = "idle" => op[t].pc = "idle"
      /\ op'[t].pc = "device" => op[t].pc = "device"
      /\ op'[t].alone => op[t].alone /\ op'[t].pc \in Winning

\* The versions given out, and what was told, stay behind the version word.
LEMMA VersionKept ==
    ASSUME KvTypes, VersionInv, Fades, init' = init, version' = version, told' > 0 => init = "done"
    PROVE  VersionInv'
<1>1. \A t \in Tasks : op'[t].late =>
         /\ init = "done" /\ op'[t].floor <= version
         /\ op'[t].pc = "lost" => op'[t].floor <= op'[t].got
         /\ op'[t].pc \in Winning => op'[t].got < version
  BY ZenonT(60) DEF VersionInv, Fades
<1>2. \A t \in Tasks : Assigned(t)' => Assigned(t) /\ op'[t].got = op[t].got
  BY ZenonT(60) DEF Assigned, Fades, Winning
<1>3. DistinctVersions'
  BY ZenonT(60), <1>2 DEF VersionInv, DistinctVersions
<1> QED
  BY ZenonT(60), <1>1, <1>3 DEF VersionInv

\* The value of the current version stays.
LEMMA ValueKept ==
    ASSUME KvTypes, ValueInv, Fades, version' = version,
           \A v \in Tasks : Writing(v)' => Writing(v),
           \A t \in Local : op'[t].alone /\ op'[t].late /\ op'[t].pc # "won" => data' = t
    PROVE  ValueInv'
BY ZenonT(60) DEF ValueInv, Fades

\* A verb leaves the connection, a write enters it, or neither.
NetMoves ==
    \/ net' = net
    \/ net # <<>> /\ net' = Tail(net)
    \/ \E m \in Verbs : m.kind = "write" /\ net' = Append(net, m)

\* Each atomic verb of the connection was there before.
LEMMA NetShrinks ==
    ASSUME KvTypes, NetMoves
    PROVE  /\ net' \in Seq(Verbs)
           /\ \E k \in {0, 1} : \A i \in DOMAIN net' :
                net'[i].kind # "write" => i + k \in DOMAIN net /\ net'[i] = net[i + k]
<1>1. CASE net' = net
  BY <1>1 DEF KvTypes
<1>2. CASE net # <<>> /\ net' = Tail(net)
  <2>1. net' \in Seq(Verbs) /\ \A i \in DOMAIN net' : i + 1 \in DOMAIN net /\ net'[i] = net[i + 1]
    BY <1>2 DEF KvTypes
  <2> QED
    BY <2>1
<1>3. CASE \E m \in Verbs : m.kind = "write" /\ net' = Append(net, m)
  <2>1. PICK m \in Verbs : m.kind = "write" /\ net' = Append(net, m)
    BY <1>3
  <2>2. net' \in Seq(Verbs) /\ \A i \in DOMAIN net' : net'[i] = m \/ (i \in DOMAIN net /\ net'[i] = net[i])
    BY <2>1 DEF KvTypes
  <2>3. \A i \in DOMAIN net' : i + 0 = i
    BY <2>2
  <2> QED
    BY <2>1, <2>2, <2>3
<1> QED
  BY <1>1, <1>2, <1>3 DEF NetMoves

\* Nobody more may win a version.
LEMMA CountKept ==
    ASSUME KvTypes, Counting, Fades, version' = version, NetMoves
    PROVE  Counting'
<1>1. PICK k \in {0, 1} : \A i \in DOMAIN net' :
        net'[i].kind # "write" => i + k \in DOMAIN net /\ net'[i] = net[i + k]
  BY NetShrinks
<1>2. Pending' \subseteq Pending
  <2>1. ASSUME NEW t \in Tasks, NEW i \in DOMAIN net', net'[i].op = t, net'[i].kind # "write"
        PROVE  t \in Pending
    BY <1>1, <2>1 DEF Pending
  <2>2. ASSUME NEW t \in Tasks, op'[t].pc \in {"idle", "device"} PROVE t \in Pending
    BY <2>2 DEF Pending, Fades
  <2> QED
    BY <2>1, <2>2 DEF Pending
<1>3. Cardinality(Pending') <= Cardinality(Pending) /\ Cardinality(Pending') \in Nat
  BY <1>2, PendingFinite, FS_Subset, FS_CardinalityType
<1>4. version + Cardinality(Pending') <= MaxVersion
  BY <1>3, PendingFinite DEF KvTypes, Counting
<1>5. net' \in Seq(Verbs) /\ DOMAIN net' \subseteq Nat
  BY NetShrinks
<1>6. ASSUME NEW i \in DOMAIN net', NEW j \in DOMAIN net', net'[i].kind # "write", net'[j].kind # "write",
             net'[i].op = net'[j].op
      PROVE  i = j
  <2>1. i + k = j + k
    BY ZenonT(60), <1>1, <1>6 DEF Counting
  <2> QED
    BY <1>5, <2>1
<1>7. ASSUME NEW i \in DOMAIN net', net'[i].kind # "write" PROVE op'[net'[i].op].pc # "idle"
  <2>1. net'[i].op \in Tasks /\ op[net'[i].op].pc # "idle"
    <3>1. i + k \in DOMAIN net /\ net'[i] = net[i + k]
      BY <1>1, <1>7
    <3>2. net'[i] \in Verbs
      BY <1>5
    <3>3. net'[i].op \in Tasks
      BY <3>2 DEF Verbs, Tasks
    <3> QED
      BY ZenonT(60), <1>7, <3>1, <3>3 DEF Counting
  <2> QED
    BY ZenonT(60), <2>1 DEF Fades
<1> QED
  BY ZenonT(60), <1>4, <1>6, <1>7 DEF Counting, MaxVersion

-----------------------------------------------------------------------------
(* The start, and kv_init.                                                 *)

LEMMA IdleOp == Idle \in Ops /\ Idle.pc = "idle" /\ ~Idle.late /\ ~Idle.alone
<1>1. 0 \in 0..MaxExpect /\ 0 \in 0..MaxVersion
  BY PendingFinite, KvAssumption
<1> QED
  BY <1>1 DEF Idle, Ops

LEMMA InitInv == ASSUME Init PROVE IInv
<1>1. op = [t \in Tasks |-> Idle] /\ net = <<>>
  BY DEF Init
<1>2. op \in [Tasks -> Ops] /\ \A t \in Tasks : op[t].pc = "idle" /\ ~op[t].late /\ ~op[t].alone
  BY ZenonT(60), <1>1, IdleOp
<1>3. KvTypes
  <2>1. net \in Seq(Verbs) /\ init = "registered" /\ version = 0 /\ told = 0 /\ data = None /\ lock = None
    BY DEF Init
  <2>2. \A t \in Remote : t \in Tasks /\ lock # t
    BY <2>1, KvAssumption DEF Tasks
  <2> QED
    BY <1>2, <2>1, <2>2 DEF KvTypes
<1>4. Counting
  BY <1>1, PendingFinite DEF Init, Counting
<1>5. VersionInv /\ ValueInv
  BY <1>2 DEF Init, VersionInv, ValueInv, DistinctVersions, Assigned
<1> QED
  BY <1>3, <1>4, <1>5 DEF IInv

\* kv_init zeroes the version before any request counts.
LEMMA InitSteps == ASSUME IInv, kv_init_version \/ kv_init_slot PROVE IInv'
<1>1. /\ init # "done" /\ version' = 0 /\ init' \in {"version", "done"}
      /\ data' \in {data, None} /\ op' = op /\ net' = net /\ lock' = lock /\ told' = told
  BY DEF kv_init_version, kv_init_slot
<1>2. told = 0 /\ \A t \in Tasks : ~op[t].late
  BY <1>1 DEF IInv, VersionInv, KvTypes
<1>3. KvTypes'
  BY <1>1, <1>2 DEF IInv, KvTypes
<1>4. Counting'
  <2>1. Pending' = Pending
    BY <1>1 DEF Pending
  <2>2. 0 + Cardinality(Pending) <= MaxVersion
    BY PendingFinite
  <2> QED
    BY ZenonT(60), <1>1, <2>1, <2>2 DEF IInv, Counting, MaxVersion
<1>5. VersionInv'
  BY <1>1, <1>2 DEF VersionInv, DistinctVersions, Assigned
<1>6. ValueInv'
  <2>1. \A v \in Tasks : Writing(v)' <=> Writing(v)
    BY <1>1 DEF Writing
  <2> QED
    BY ZenonT(60), <1>1, <1>2, <2>1 DEF IInv, ValueInv
<1> QED
  BY <1>3, <1>4, <1>5, <1>6 DEF IInv

-----------------------------------------------------------------------------
(* A request begins.                                                       *)

\* What a new request's record says.
LEMMA BeginOp ==
    ASSUME IInv, NEW t \in Tasks, NEW pc \in {"device", "waiting"}, NEW r \in Requests,
           Begin(t, pc, r[1], r[2])
    PROVE  /\ op[t].pc = "idle" /\ op' \in [Tasks -> Ops]
           /\ \A u \in Tasks : u # t => op'[u] = op[u]
           /\ op'[t].pc = pc /\ ~op'[t].alone
           /\ op'[t].late => init = "done" /\ op'[t].floor <= version
           /\ r[1] \in {"put", "get", "cas"} /\ r[2] \in 0..MaxExpect
<1>1. r[1] \in {"put", "get", "cas"} /\ r[2] \in 0..MaxExpect
  BY KvAssumption DEF Requests
<1>2. PICK k \in {"put", "get", "cas"}, x \in 0..MaxExpect : k = r[1] /\ x = r[2]
  BY <1>1
<1>3. PICK f \in 0..MaxVersion : f = (IF k = "get" THEN told ELSE 0) /\ f <= version
  <2>1. told \in 0..MaxVersion /\ told <= version /\ 0 <= version /\ 0 \in 0..MaxVersion
    BY VersionBound, PendingFinite DEF IInv, KvTypes
  <2> QED
    BY <2>1
<1>4. PICK b \in BOOLEAN : b = (init = "done")
  BY Zenon
<1> DEFINE q == [pc |-> pc, kind |-> k, expect |-> x, got |-> 0, floor |-> f, late |-> b, alone |-> FALSE]
<1>5. 0 \in 0..MaxVersion
  BY PendingFinite
<1>6. q \in Ops
  BY <1>5 DEF Ops
<1>7. q.pc = pc /\ ~q.alone /\ q.late = b /\ q.floor = f
  OBVIOUS
<1>8. op[t].pc = "idle" /\ op' = [op EXCEPT ![t] = q]
  BY ZenonT(60), <1>2, <1>3, <1>4 DEF Begin
<1> HIDE DEF q
<1>9. /\ op' \in [Tasks -> Ops] /\ op'[t] = q
      /\ \A u \in Tasks : u # t => op'[u] = op[u]
  BY Zenon, <1>6, <1>8, OneOp DEF IInv
<1> QED
  BY Zenon, <1>1, <1>3, <1>4, <1>7, <1>8, <1>9

\* Nothing was given to a request that begins.
LEMMA BeginKeeps ==
    ASSUME IInv, NEW t \in Tasks, NEW pc \in {"device", "waiting"}, NEW r \in Requests,
           Begin(t, pc, r[1], r[2]), UNCHANGED <<init, version, data, told>>,
           \A v \in Tasks : Writing(v)' => Writing(v)
    PROVE  VersionInv' /\ ValueInv'
<1>1. /\ op[t].pc = "idle"
      /\ \A u \in Tasks : u # t => op'[u] = op[u]
      /\ op'[t].pc \notin Winning /\ op'[t].pc # "lost" /\ ~op'[t].alone
      /\ op'[t].late => init = "done" /\ op'[t].floor <= version
  BY BeginOp DEF Winning
<1>2. \A u \in Tasks : op'[u].late =>
         /\ init = "done" /\ op'[u].floor <= version
         /\ op'[u].pc = "lost" => op'[u].floor <= op'[u].got
         /\ op'[u].pc \in Winning => op'[u].got < version
  BY ZenonT(60), <1>1 DEF IInv, VersionInv
<1>3. \A u \in Tasks : Assigned(u)' => Assigned(u) /\ op'[u].got = op[u].got
  BY ZenonT(60), <1>1 DEF Assigned, Winning
<1>4. DistinctVersions'
  BY ZenonT(60), <1>3 DEF IInv, VersionInv, DistinctVersions
<1>5. VersionInv'
  BY ZenonT(60), <1>2, <1>4 DEF IInv, VersionInv
<1>6. ValueInv'
  BY ZenonT(60), <1>1 DEF IInv, ValueInv
<1> QED
  BY <1>5, <1>6

LEMMA LocalBegins == ASSUME IInv, NEW t \in Tasks, kv_request_local(t) PROVE IInv'
<1>1. PICK r \in Requests : Begin(t, "device", r[1], r[2])
  BY DEF kv_request_local
<1>2. t \in Local /\ net' = net /\ lock' = lock /\ UNCHANGED <<init, version, data, told>>
  BY DEF kv_request_local
<1>3. /\ op[t].pc = "idle" /\ op' \in [Tasks -> Ops]
      /\ \A u \in Tasks : u # t => op'[u] = op[u]
      /\ op'[t].pc = "device"
  BY <1>1, BeginOp
<1>4. t \notin Remote
  BY <1>2, KvAssumption
<1>5. KvTypes'
  BY <1>2, <1>3, <1>4 DEF IInv, KvTypes, Tasks
<1>6. \A v \in Tasks : Writing(v)' => Writing(v)
  BY <1>2, <1>3 DEF Writing
<1>7. Counting'
  <2>1. Pending' = Pending
    BY <1>2, <1>3 DEF Pending
  <2>2. \A i \in DOMAIN net : net[i].op \in Tasks
    BY NetVerbs DEF IInv
  <2>3. \A i \in DOMAIN net : net[i].kind # "write" => op'[net[i].op].pc # "idle"
    BY ZenonT(60), <1>3, <2>2 DEF IInv, Counting
  <2> QED
    BY ZenonT(60), <1>2, <2>1, <2>3 DEF IInv, Counting, MaxVersion
<1> QED
  BY <1>1, <1>2, <1>5, <1>6, <1>7, BeginKeeps DEF IInv

LEMMA RemoteBegins == ASSUME IInv, NEW t \in Tasks, kv_request_remote(t) PROVE IInv'
<1>1. PICK r \in Requests : /\ Begin(t, "waiting", r[1], r[2])
                            /\ net' = Append(net, [op |-> t, kind |-> r[1], expect |-> r[2]])
  BY DEF kv_request_remote
<1>2. t \in Remote /\ lock = None /\ lock' = t /\ UNCHANGED <<init, version, data, told>>
  BY DEF kv_request_remote
<1>3. /\ op[t].pc = "idle" /\ op' \in [Tasks -> Ops]
      /\ \A u \in Tasks : u # t => op'[u] = op[u]
      /\ op'[t].pc = "waiting" /\ r[1] \in {"put", "get", "cas"} /\ r[2] \in 0..MaxExpect
  BY <1>1, BeginOp
<1> DEFINE m == [op |-> t, kind |-> r[1], expect |-> r[2]]
<1>4. m \in Verbs /\ m.op = t /\ m.kind # "write"
  BY <1>2, <1>3 DEF Verbs
<1>5. net' = Append(net, m)
  BY <1>1
<1> HIDE DEF m
<1>6. /\ net' \in Seq(Verbs) /\ Len(net) \in Nat /\ DOMAIN net = 1..Len(net)
      /\ DOMAIN net' = 1..(Len(net) + 1) /\ net'[Len(net) + 1] = m
      /\ \A i \in 1..Len(net) : net'[i] = net[i]
  BY <1>4, <1>5 DEF IInv, KvTypes
<1>7. \A i \in DOMAIN net' : (i \in DOMAIN net /\ net'[i] = net[i]) \/ (i = Len(net) + 1 /\ net'[i] = m)
  BY <1>6
<1>8. \A i \in DOMAIN net : i \in DOMAIN net' /\ net'[i] = net[i]
  BY <1>6
<1>9. KvTypes'
  <2>1. \A u \in Remote : lock # u /\ u \in Tasks
    BY <1>2, KvAssumption DEF Tasks
  <2> QED
    BY SMTT(30), <1>2, <1>3, <1>6, <2>1 DEF IInv, KvTypes
<1>10. \A v \in Tasks : Writing(v)' => Writing(v)
  BY ZenonT(60), <1>3, <1>4, <1>7 DEF Writing
<1>11. Counting'
  <2>1. Pending' \subseteq Pending
    BY ZenonT(60), <1>3, <1>4, <1>7 DEF Pending
  <2>2. Cardinality(Pending') <= Cardinality(Pending) /\ Cardinality(Pending') \in Nat
    BY <2>1, PendingFinite, FS_Subset, FS_CardinalityType
  <2>3. version + Cardinality(Pending') <= MaxVersion
    BY <2>2, PendingFinite DEF IInv, KvTypes, Counting
  <2>4. \A i \in DOMAIN net : net[i].op \in Tasks /\ (net[i].kind # "write" => net[i].op # t)
    <3>1. \A i \in DOMAIN net : net[i].op \in Tasks
      BY NetVerbs DEF IInv
    <3> QED
      BY ZenonT(60), <1>3, <3>1 DEF IInv, Counting
  <2>5. \A i \in DOMAIN net' : net'[i].kind # "write" => op'[net'[i].op].pc # "idle"
    BY ZenonT(60), <1>3, <1>4, <1>7, <2>4 DEF IInv, Counting
  <2>6. ASSUME NEW i \in DOMAIN net', NEW j \in DOMAIN net', net'[i].kind # "write", net'[j].kind # "write",
               net'[i].op = net'[j].op
        PROVE  i = j
    BY ZenonT(60), <1>4, <1>7, <2>4, <2>6 DEF IInv, Counting
  <2> QED
    BY ZenonT(60), <1>2, <2>3, <2>5, <2>6 DEF Counting, MaxVersion
<1> QED
  BY <1>1, <1>2, <1>9, <1>10, <1>11, BeginKeeps DEF IInv

-----------------------------------------------------------------------------
(* The steps that give no request anything.                                *)

LEMMA QuietStep ==
    ASSUME IInv, KvTypes', Fades, NetMoves, init' = init, version' = version,
           told' > 0 => init = "done",
           \A v \in Tasks : Writing(v)' => Writing(v),
           \A t \in Local : op'[t].alone /\ op'[t].late /\ op'[t].pc # "won" => data' = t
    PROVE  IInv'
BY VersionKept, ValueKept, CountKept DEF IInv

\* The slot's value is the local request's that made the version alone.
LEMMA ValueHere ==
    ASSUME IInv
    PROVE  \A t \in Local : op[t].alone /\ op[t].late /\ op[t].pc # "won" => data = t
BY DEF IInv, ValueInv, Tasks

\* A request whose answer came without a version, whose call timed out or
\* whose write was refused is over.
LEMMA OverKeeps ==
    ASSUME IInv, NEW t \in Tasks, Over(t), op[t].pc \in {"waiting", "won", "lost"},
           lock' = (IF lock = t THEN None ELSE lock),
           UNCHANGED <<init, version, data, net, told>>
    PROVE  IInv'
<1> DEFINE r == [Idle EXCEPT !.pc = "over"]
<1>1. r \in Ops /\ r.pc = "over" /\ ~r.late /\ ~r.alone
  <2>1. \A q \in Ops : /\ [q EXCEPT !.pc = "over"] \in Ops /\ [q EXCEPT !.pc = "over"].pc = "over"
                       /\ [q EXCEPT !.pc = "over"].late = q.late /\ [q EXCEPT !.pc = "over"].alone = q.alone
    BY DEF Ops
  <2> QED
    BY <2>1, IdleOp
<1>2. op' = [op EXCEPT ![t] = r]
  BY DEF Over
<1> HIDE DEF r
<1>3. /\ op' \in [Tasks -> Ops] /\ op'[t].pc = "over" /\ ~op'[t].late /\ ~op'[t].alone
      /\ \A u \in Tasks : u # t => op'[u] = op[u]
  BY Zenon, <1>1, <1>2, OneOp DEF IInv
<1>4. KvTypes'
  <2>1. \A u \in Remote : u # None /\ u \in Tasks
    BY KvAssumption DEF Tasks
  <2> QED
    BY <1>3, <2>1 DEF IInv, KvTypes
<1>5. Fades
  <2>1. \A u \in Tasks : op[u].alone => op[u].pc \in Winning
    BY DEF IInv, ValueInv
  <2> QED
    BY ZenonT(60), <1>3, <2>1 DEF Fades, Winning
<1>6. \A v \in Tasks : Writing(v)' => Writing(v)
  BY ZenonT(60), <1>3 DEF Writing
<1>7. \A u \in Local : op'[u].alone /\ op'[u].late /\ op'[u].pc # "won" => data' = u
  <2>1. \A u \in Local : u \in Tasks
    BY DEF Tasks
  <2> QED
    BY ZenonT(60), <1>3, <2>1, ValueHere
<1>8. told' > 0 => init = "done"
  BY DEF IInv, VersionInv
<1> QED
  BY <1>4, <1>5, <1>6, <1>7, <1>8, QuietStep DEF NetMoves

\* A request moves on from its version.
LEMMA OnwardKeeps ==
    ASSUME IInv, NEW t \in Tasks, NEW pc \in {"notify", "done"}, NEW r \in Ops,
           op' = [op EXCEPT ![t] = r],
           r.pc = pc /\ r.got = op[t].got /\ r.floor = op[t].floor,
           r.late = op[t].late /\ r.alone = op[t].alone,
           op[t].pc \in {"won", "notify"}, pc = "done" => op[t].pc = "notify",
           lock' = (IF t \in Remote /\ op[t].pc = "won" THEN None ELSE lock),
           UNCHANGED <<init, version>>, NetMoves,
           \A v \in Tasks : Writing(v)' => Writing(v),
           told' \in 0..version, told' > 0 => init = "done",
           data' = data \/ (data' = t /\ op[t].pc = "won"),
           t \in Local /\ op[t].pc = "won" => data' = t
    PROVE  IInv'
<1>1. /\ op' \in [Tasks -> Ops] /\ op'[t] = r
      /\ \A u \in Tasks : u # t => op'[u] = op[u]
  BY Zenon, OneOp DEF IInv
<1>2. KvTypes'
  <2>1. \A u \in Remote : u # None /\ u \in Tasks
    BY KvAssumption DEF Tasks
  <2>2. net' \in Seq(Verbs)
    BY NetShrinks DEF IInv
  <2>3. lock' \in Remote \union {None} /\ \A u \in Remote : lock' = u <=> op'[u].pc \in {"waiting", "won", "lost"}
    BY <1>1, <2>1 DEF IInv, KvTypes
  <2>4. \A u \in Remote : op'[u].pc # "device"
    BY <1>1, <2>1 DEF IInv, KvTypes
  <2> QED
    BY <1>1, <2>2, <2>3, <2>4 DEF IInv, KvTypes
<1>3. Fades
  <2>1. \A u \in Tasks : op[u].alone => op[u].pc \in Winning
    BY DEF IInv, ValueInv
  <2>2. r.pc \in Winning /\ op[t].pc \in Winning /\ r.pc \notin {"lost", "idle", "device"}
    BY DEF Winning
  <2> QED
    BY ZenonT(60), <1>1, <2>1, <2>2 DEF Fades
<1>4. ASSUME NEW u \in Local, op'[u].alone, op'[u].late, op'[u].pc # "won" PROVE data' = u
  <2>0. u \in Tasks
    BY DEF Tasks
  <2>1. CASE u = t
    <3>1. op[t].pc = "notify" => data = t
      BY SMTT(30), <1>1, <1>4, <2>1, ValueHere
    <3> QED
      BY SMTT(30), <2>1, <3>1
  <2>2. CASE u # t
    <3>1. data = u /\ ~Writing(t)
      BY ZenonT(60), <1>1, <1>4, <2>0, <2>2, ValueHere DEF IInv, ValueInv
    <3>2. op[t].pc # "won"
      BY <3>1 DEF Writing
    <3> QED
      BY <3>1, <3>2
  <2> QED
    BY <2>1, <2>2
<1> QED
  BY <1>2, <1>3, <1>4, QuietStep

\* What a change of pc leaves alone in a record.
LEMMA PcOnly ==
    ASSUME NEW q \in Ops, NEW pc \in {"won", "lost", "notify", "done", "over"}
    PROVE  /\ [q EXCEPT !.pc = pc] \in Ops /\ [q EXCEPT !.pc = pc].pc = pc
           /\ [q EXCEPT !.pc = pc].got = q.got /\ [q EXCEPT !.pc = pc].floor = q.floor
           /\ [q EXCEPT !.pc = pc].late = q.late /\ [q EXCEPT !.pc = pc].alone = q.alone
BY DEF Ops

\* What the store has told of, it has.
LEMMA Told == ASSUME IInv PROVE told \in 0..version /\ (told > 0 => init = "done")
BY DEF IInv, KvTypes, VersionInv

LEMMA LocalWrites == ASSUME IInv, NEW t \in Tasks, local_write(t) PROVE IInv'
<1>1. /\ t \in Local /\ op[t].pc = "won" /\ data' = t /\ Goto(t, "notify")
      /\ init' = init /\ version' = version /\ net' = net /\ lock' = lock /\ told' = told
  BY DEF local_write
<1>2. t \notin Remote
  BY <1>1, KvAssumption
<1> DEFINE r == [op[t] EXCEPT !.pc = "notify"]
<1>3. op[t] \in Ops
  BY DEF IInv, KvTypes
<1>4. /\ r \in Ops /\ r.pc = "notify" /\ r.got = op[t].got /\ r.floor = op[t].floor
      /\ r.late = op[t].late /\ r.alone = op[t].alone
  BY Zenon, <1>3, PcOnly
<1>5. op' = [op EXCEPT ![t] = r]
  BY <1>1 DEF Goto
<1> HIDE DEF r
<1>6. \A v \in Tasks : Writing(v)' => Writing(v)
  <2>1. \A v \in Tasks : op'[v].pc = "won" => op[v].pc = "won"
    BY <1>4, <1>5, OneOp DEF IInv
  <2> QED
    BY ZenonT(60), <1>1, <2>1 DEF Writing
<1>7. lock' = (IF t \in Remote /\ op[t].pc = "won" THEN None ELSE lock) /\ NetMoves
  BY <1>1, <1>2 DEF NetMoves
<1>8. told' \in 0..version /\ (told' > 0 => init = "done")
  BY <1>1, Told
<1> QED
  BY Zenon, <1>1, <1>4, <1>5, <1>6, <1>7, <1>8, OnwardKeeps

LEMMA RemoteWrites == ASSUME IInv, NEW t \in Tasks, remote_write(t) PROVE IInv'
<1>1. /\ t \in Remote /\ op[t].pc = "won" /\ lock' = None
      /\ init' = init /\ version' = version /\ data' = data /\ told' = told
  BY DEF remote_write
<1>2. t \notin Local /\ lock = t
  BY <1>1, KvAssumption DEF IInv, KvTypes
<1>3. CASE Over(t) /\ net' = net
  BY <1>1, <1>2, <1>3, OverKeeps
<1>4. ASSUME Goto(t, "notify"), net' = net \/ net' = Append(net, [op |-> t, kind |-> "write", expect |-> 0])
      PROVE  IInv'
  <2> DEFINE r == [op[t] EXCEPT !.pc = "notify"]
  <2>1. op[t] \in Ops
    BY DEF IInv, KvTypes
  <2>2. /\ r \in Ops /\ r.pc = "notify" /\ r.got = op[t].got /\ r.floor = op[t].floor
        /\ r.late = op[t].late /\ r.alone = op[t].alone
    BY Zenon, <2>1, PcOnly
  <2>3. op' = [op EXCEPT ![t] = r]
    BY <1>4 DEF Goto
  <2> HIDE DEF r
  <2>4. \A v \in Tasks : op'[v].pc = "won" => op[v].pc = "won"
    BY <2>2, <2>3, OneOp DEF IInv
  <2> DEFINE m == [op |-> t, kind |-> "write", expect |-> 0]
  <2>5. m \in Verbs /\ m.op = t /\ m.kind = "write"
    BY <1>1, KvAssumption DEF Verbs
  <2>6. net' = net \/ net' = Append(net, m)
    BY <1>4
  <2> HIDE DEF m
  <2>7. NetMoves
    BY <2>5, <2>6 DEF NetMoves
  <2>8. \A i \in DOMAIN net' : net'[i].op = t \/ (i \in DOMAIN net /\ net'[i] = net[i])
    BY <2>5, <2>6 DEF IInv, KvTypes
  <2>9. \A v \in Tasks : Writing(v)' => Writing(v)
    BY ZenonT(60), <1>1, <2>4, <2>8 DEF Writing
  <2>10. lock' = (IF t \in Remote /\ op[t].pc = "won" THEN None ELSE lock)
    BY <1>1
  <2>11. told' \in 0..version /\ (told' > 0 => init = "done")
    BY SMTT(30), <1>1, Told
  <2> QED
    BY ZenonT(60), <1>1, <1>2, <2>2, <2>3, <2>7, <2>9, <2>10, <2>11, OnwardKeeps
<1> QED
  BY <1>3, <1>4 DEF remote_write

\* notify_replica, and the answer: what is told of is behind the version word.
LEMMA NotifyKeeps == ASSUME IInv, NEW t \in Tasks, notify_replica(t) PROVE IInv'
<1>1. /\ op[t].pc = "notify" /\ Tell(t) /\ op' = [op EXCEPT ![t].pc = "done", ![t].kind = "put"]
      /\ init' = init /\ version' = version /\ data' = data /\ net' = net /\ lock' = lock
  BY DEF notify_replica
<1> DEFINE r == [op[t] EXCEPT !.pc = "done", !.kind = "put"]
<1>2. op[t] \in Ops /\ op \in [Tasks -> Ops]
  BY DEF IInv, KvTypes
<1>3. /\ r \in Ops /\ r.pc = "done" /\ r.got = op[t].got /\ r.floor = op[t].floor
      /\ r.late = op[t].late /\ r.alone = op[t].alone
  BY Zenon, <1>2 DEF Ops
<1>4. op' = [op EXCEPT ![t] = r]
  BY Zenon, <1>1, <1>2 DEF Ops
<1> HIDE DEF r
<1>5. \A v \in Tasks : Writing(v)' => Writing(v)
  <2>1. \A v \in Tasks : op'[v].pc = "won" => op[v].pc = "won"
    BY SMTT(30), <1>3, <1>4, OneOp DEF IInv
  <2> QED
    BY ZenonT(60), <1>1, <2>1 DEF Writing
<1>6. told' \in 0..version /\ (told' > 0 => init = "done")
  <2>1. CASE op[t].late /\ op[t].got >= told
    <3>1. op[t].got < version /\ init = "done" /\ op[t].got \in Nat /\ version \in Nat
      BY <1>1, <1>2, <2>1, OpFields DEF IInv, VersionInv, Winning, KvTypes
    <3>2. told' = op[t].got + 1
      BY <1>1, <2>1 DEF Tell
    <3> QED
      BY <3>1, <3>2
  <2>2. CASE ~(op[t].late /\ op[t].got >= told)
    BY <1>1, <2>2, Told DEF Tell
  <2> QED
    BY <2>1, <2>2
<1>7. lock' = (IF t \in Remote /\ op[t].pc = "won" THEN None ELSE lock) /\ NetMoves
  BY <1>1 DEF NetMoves
<1> QED
  BY Zenon, <1>1, <1>3, <1>4, <1>5, <1>6, <1>7, OnwardKeeps

\* A verb is lost, a write arrives, or nothing happens.
LEMMA ArrivalKeeps ==
    ASSUME IInv, UNCHANGED <<init, version, op, lock, told>>, NetMoves,
           \A i \in DOMAIN net' : net'[i].kind = "write" => \E j \in DOMAIN net : net[j] = net'[i],
           data' = data \/ \E j \in DOMAIN net : net[j].kind = "write" /\ data' = net[j].op
    PROVE  IInv'
<1>1. op' = op /\ \A v \in Tasks : Writing(v)' => Writing(v)
  BY ZenonT(60) DEF Writing
<1>2. data' \in Tasks \union {None} /\ net' \in Seq(Verbs)
  BY SMTT(30), NetVerbs, NetShrinks DEF IInv, KvTypes
<1>3. KvTypes'
  BY <1>1, <1>2 DEF IInv, KvTypes
<1>4. Fades
  <2>1. \A u \in Tasks : op[u].alone => op[u].pc \in Winning
    BY DEF IInv, ValueInv
  <2> QED
    BY ZenonT(60), <1>1, <2>1 DEF Fades
<1>5. ASSUME NEW u \in Local, op[u].alone, op[u].late, op[u].pc # "won" PROVE data' = u
  <2>1. data = u /\ u \in Tasks
    BY <1>5, ValueHere DEF Tasks
  <2>2. ASSUME NEW j \in DOMAIN net, net[j].kind = "write" PROVE FALSE
    <3>1. net[j].op \in Tasks \ {u}
      BY <2>1, NetVerbs, KvAssumption DEF IInv
    <3>2. Writing(net[j].op)
      BY ZenonT(60), <2>2 DEF Writing
    <3> QED
      BY ZenonT(60), <1>5, <2>1, <3>1, <3>2 DEF IInv, ValueInv
  <2> QED
    BY <2>1, <2>2
<1>6. told' > 0 => init = "done"
  BY Told
<1> QED
  BY ZenonT(60), <1>1, <1>3, <1>4, <1>5, <1>6, QuietStep

-----------------------------------------------------------------------------
(* An atomic verb, or a read, executes at the owner.                       *)

\* What it does to the records: the caller that waits for it gets what it
\* returns, and a new version ends the solitude of every other request.
LEMMA ReturnOps ==
    ASSUME IInv, NEW t \in Tasks, NEW w \in BOOLEAN, Return(t, w)
    PROVE  /\ op' \in [Tasks -> Ops]
           /\ \A u \in Tasks : op'[u].late = op[u].late /\ op'[u].floor = op[u].floor
           /\ \A u \in Tasks : u # t \/ op[t].pc \notin {"device", "waiting"} =>
                /\ op'[u].pc = op[u].pc /\ op'[u].got = op[u].got
                /\ op'[u].alone <=> op[u].alone /\ ~w
           /\ op[t].pc \in {"device", "waiting"} =>
                /\ op'[t].pc = (IF w THEN "won" ELSE "lost") /\ op'[t].got = version
                /\ op'[t].alone <=> w /\ ~\E v \in Tasks \ {t} : Writing(v)
<1>1. PICK b \in BOOLEAN : b <=> w /\ ~\E v \in Tasks \ {t} : Writing(v)
  BY Zenon
<1>2. \A u \in Tasks : op[u] \in Ops
  BY DEF IInv, KvTypes
<1>3. version \in 0..MaxVersion /\ 0 \in 0..MaxExpect
  BY VersionBound, KvAssumption DEF IInv
<1> DEFINE p == IF w THEN "won" ELSE "lost"
<1> DEFINE q == [op[t] EXCEPT !.pc = p, !.expect = 0, !.got = version, !.alone = b]
<1> DEFINE z(u, c) == [op[u] EXCEPT !.alone = c]
<1>4. p \in {"won", "lost"}
  OBVIOUS
<1> HIDE DEF p
<1>5. /\ q \in Ops /\ q.pc = p /\ q.got = version /\ q.alone = b
      /\ q.late = op[t].late /\ q.floor = op[t].floor
  BY Zenon, <1>2, <1>3, <1>4 DEF Ops
<1>6. ASSUME NEW u \in Tasks, NEW c \in BOOLEAN
      PROVE  /\ z(u, c) \in Ops /\ z(u, c).alone = c /\ z(u, c).pc = op[u].pc
             /\ z(u, c).got = op[u].got /\ z(u, c).late = op[u].late /\ z(u, c).floor = op[u].floor
  BY <1>2 DEF Ops
<1>7. ASSUME NEW u \in Tasks, u # t \/ op[t].pc \notin {"device", "waiting"}
      PROVE  \E c \in BOOLEAN : op'[u] = z(u, c) /\ (c <=> op[u].alone /\ ~w)
  <2>1. PICK c \in BOOLEAN : c = (op[u].alone /\ ~w)
    BY Zenon
  <2>2. op'[u] = z(u, c)
    BY ZenonT(60), <1>7, <2>1 DEF Return
  <2> QED
    BY Zenon, <2>1, <2>2
<1>8. op[t].pc \in {"device", "waiting"} => op'[t] = q
  <2>1. b = (w /\ ~\E v \in Tasks \ {t} : Writing(v))
    BY <1>1
  <2> QED
    BY ZenonT(60), <2>1 DEF Return, p
<1> HIDE DEF q, z
<1>9. \A u \in Tasks : op'[u] \in Ops
  BY <1>5, <1>6, <1>7, <1>8
<1>10. op' \in [Tasks -> Ops]
  <2>1. op' = [u \in Tasks |-> op'[u]]
    BY ZenonT(60) DEF Return
  <2> QED
    BY <1>9, <2>1
<1>11. \A u \in Tasks : op'[u].late = op[u].late /\ op'[u].floor = op[u].floor
  BY <1>5, <1>6, <1>7, <1>8
<1>12. ASSUME NEW u \in Tasks, u # t \/ op[t].pc \notin {"device", "waiting"}
       PROVE  /\ op'[u].pc = op[u].pc /\ op'[u].got = op[u].got
              /\ op'[u].alone <=> op[u].alone /\ ~w
  BY <1>6, <1>7, <1>12
<1> QED
  BY ZenonT(60), <1>1, <1>5, <1>8, <1>10, <1>11, <1>12 DEF p

LEMMA ExecuteKeeps ==
    ASSUME IInv, NEW t \in Tasks, NEW w \in BOOLEAN, Return(t, w),
           version' = (IF w THEN version + 1 ELSE version),
           UNCHANGED <<init, data, lock, told>>, net' = net \/ (net # <<>> /\ net' = Tail(net)),
           t \in Remote \/ op[t].pc = "device",
           t \in Pending, t \notin Pending'
    PROVE  IInv'
<1>1. /\ op' \in [Tasks -> Ops]
      /\ \A u \in Tasks : op'[u].late = op[u].late /\ op'[u].floor = op[u].floor
      /\ \A u \in Tasks : u # t \/ op[t].pc \notin {"device", "waiting"} =>
           /\ op'[u].pc = op[u].pc /\ op'[u].got = op[u].got
           /\ op'[u].alone <=> op[u].alone /\ ~w
      /\ op[t].pc \in {"device", "waiting"} =>
           /\ op'[t].pc = (IF w THEN "won" ELSE "lost") /\ op'[t].got = version
           /\ op'[t].alone <=> w /\ ~\E v \in Tasks \ {t} : Writing(v)
  BY ReturnOps
<1>2. version \in Nat /\ version' \in Nat /\ version <= version' /\ (w => version' = version + 1) /\ (~w => version' = version)
  BY DEF IInv, KvTypes
<1>3. NetMoves
  BY DEF NetMoves
<1>4. PICK k \in {0, 1} : \A i \in DOMAIN net' : i + k \in DOMAIN net /\ net'[i] = net[i + k]
  <2>1. CASE net' = net
    BY <2>1 DEF IInv, KvTypes
  <2>2. CASE net # <<>> /\ net' = Tail(net)
    <3>1. \A i \in DOMAIN net' : i + 1 \in DOMAIN net /\ net'[i] = net[i + 1]
      BY <2>2 DEF IInv, KvTypes
    <3> QED
      BY <3>1
  <2> QED
    BY <2>1, <2>2
<1>5. \A v \in Tasks : v # t => (Writing(v)' => Writing(v))
  <2>1. \A v \in Tasks : v # t => op'[v].pc = op[v].pc
    BY <1>1
  <2> QED
    BY ZenonT(60), <1>4, <2>1 DEF Writing
<1>6. KvTypes'
  <2>1. \A u \in Remote : u \in Tasks
    BY DEF Tasks
  <2>2. net' \in Seq(Verbs)
    BY <1>3, NetShrinks DEF IInv
  <2>3. \A u \in Remote : (op'[u].pc \in {"waiting", "won", "lost"} <=> op[u].pc \in {"waiting", "won", "lost"})
                         /\ op'[u].pc # "device"
    <3>1. \A u \in Remote : op[u].pc # "device"
      BY DEF IInv, KvTypes
    <3>2. \A u \in Remote : u # t \/ op[t].pc \notin {"device", "waiting"} => op'[u].pc = op[u].pc
      BY ZenonT(60), <1>1, <2>1
    <3>3. op[t].pc \in {"device", "waiting"} => op'[t].pc \in {"won", "lost"}
      BY <1>1
    <3> QED
      BY SMTT(30), <3>1, <3>2, <3>3
  <2>4. told' \in 0..version'
    BY <1>2 DEF IInv, KvTypes
  <2> QED
    BY <1>1, <1>2, <2>2, <2>3, <2>4 DEF IInv, KvTypes
<1>7. Counting'
  <2>1. op'[t].pc # "idle"
    BY DEF Pending
  <2>2. Pending' \subseteq Pending \ {t}
    <3>1. \A u \in Tasks : u # t => op'[u].pc = op[u].pc
      BY <1>1
    <3> QED
      BY ZenonT(229), <1>4, <3>1 DEF Pending
  <2>3. Cardinality(Pending \ {t}) = Cardinality(Pending) - 1 /\ IsFiniteSet(Pending \ {t})
    BY PendingFinite, FS_RemoveElement
  <2>4. Cardinality(Pending') <= Cardinality(Pending) - 1 /\ Cardinality(Pending') \in Nat
    BY <2>2, <2>3, FS_Subset, FS_CardinalityType
  <2>5. version' + Cardinality(Pending') <= MaxVersion
    BY <1>2, <2>4, PendingFinite DEF IInv, Counting
  <2>6. DOMAIN net' \subseteq Nat
    BY <1>6 DEF KvTypes
  <2>7. ASSUME NEW i \in DOMAIN net', NEW j \in DOMAIN net', net'[i].kind # "write", net'[j].kind # "write",
               net'[i].op = net'[j].op
        PROVE  i = j
    <3>1. i + k = j + k
      BY ZenonT(60), <1>4, <2>7 DEF IInv, Counting
    <3> QED
      BY <2>6, <3>1
  <2>8. ASSUME NEW i \in DOMAIN net', net'[i].kind # "write" PROVE op'[net'[i].op].pc # "idle"
    <3>1. net'[i].op \in Tasks /\ op[net'[i].op].pc # "idle"
      BY ZenonT(60), <1>4, <2>8, NetVerbs DEF IInv, Counting
    <3> QED
      BY ZenonT(60), <1>1, <2>1, <3>1
  <2> QED
    BY ZenonT(60), <2>5, <2>7, <2>8 DEF Counting, MaxVersion
<1>8. VersionInv'
  <2>1. ASSUME NEW u \in Tasks, op'[u].late
        PROVE  /\ init = "done" /\ op'[u].floor <= version'
               /\ op'[u].pc = "lost" => op'[u].floor <= op'[u].got
               /\ op'[u].pc \in Winning => op'[u].got < version'
    <3>1. /\ init = "done" /\ op[u].floor <= version /\ op'[u].floor = op[u].floor
          /\ op[u].pc = "lost" => op[u].floor <= op[u].got
          /\ op[u].pc \in Winning => op[u].got < version
      BY ZenonT(60), <1>1, <2>1 DEF IInv, VersionInv
    <3>2. op[u].floor \in Nat /\ op[u].got \in Nat
      BY OpFields DEF IInv, KvTypes
    <3>3. CASE u # t \/ op[t].pc \notin {"device", "waiting"}
      <4>1. op'[u].pc = op[u].pc /\ op'[u].got = op[u].got
        BY ZenonT(60), <1>1, <3>3
      <4> QED
        BY SMTT(30), <1>2, <3>1, <3>2, <4>1
    <3>4. CASE u = t /\ op[t].pc \in {"device", "waiting"}
      <4>1. op'[u].pc = (IF w THEN "won" ELSE "lost") /\ op'[u].got = version
        BY ZenonT(60), <1>1, <3>4
      <4> QED
        BY SMTT(30), <1>2, <3>1, <3>2, <4>1 DEF Winning
    <3> QED
      BY <3>3, <3>4
  <2>2. \A u \in Tasks : Assigned(u)' => \/ Assigned(u) /\ op'[u].got = op[u].got /\ op[u].got < version
                                         \/ u = t /\ op'[u].got = version
    BY ZenonT(60), <1>1 DEF IInv, VersionInv, Assigned, Winning
  <2>3. DistinctVersions'
    <3>1. \A u \in Tasks : op[u].got \in Nat
      BY SMTT(30), OpFields DEF IInv, KvTypes
    <3>2. ASSUME NEW u \in Tasks, NEW v \in Tasks, u # v, Assigned(u)', Assigned(v)'
          PROVE  op'[u].got # op'[v].got
      <4>1. CASE Assigned(u) /\ Assigned(v) /\ op'[u].got = op[u].got /\ op'[v].got = op[v].got
        BY ZenonT(60), <3>2, <4>1 DEF IInv, VersionInv, DistinctVersions
      <4>2. CASE u = t /\ op'[u].got = version /\ op'[v].got = op[v].got /\ op[v].got < version
        BY SMTT(30), <1>2, <3>1, <4>2
      <4>3. CASE v = t /\ op'[v].got = version /\ op'[u].got = op[u].got /\ op[u].got < version
        BY SMTT(30), <1>2, <3>1, <4>3
      <4> QED
        BY SMTT(30), <2>2, <3>2, <4>1, <4>2, <4>3
    <3> QED
      BY ZenonT(60), <3>2 DEF DistinctVersions
  <2> QED
    BY ZenonT(60), <2>1, <2>3 DEF IInv, VersionInv
<1>9. ValueInv'
  <2>1. CASE w
    <3>1. \A u \in Tasks : op'[u].alone => /\ u = t /\ op'[t].pc = "won" /\ op'[t].got = version
                                          /\ \A v \in Tasks \ {t} : ~Writing(v)
      BY ZenonT(60), <1>1, <2>1
    <3>2. "won" \in Winning /\ version' = version + 1
      BY <1>2, <2>1 DEF Winning
    <3> QED
      BY ZenonT(60), <1>5, <3>1, <3>2 DEF ValueInv
  <2>2. CASE ~w
    <3>1. \A u \in Tasks : op'[u].alone => /\ op[u].alone /\ op'[u].pc = op[u].pc /\ op'[u].got = op[u].got
      BY ZenonT(60), <1>1, <2>2
    <3>2. \A v \in Tasks : Writing(v)' => Writing(v)
      <4>1. op'[t].pc = "won" => op[t].pc = "won"
        BY <1>1, <2>2
      <4>2. Writing(t)' => Writing(t)
        BY ZenonT(60), <1>4, <4>1 DEF Writing
      <4> QED
        BY ZenonT(60), <1>5, <4>2
    <3>3. version' = version /\ data' = data
      BY <1>2, <2>2
    <3> QED
      BY ZenonT(60), <1>1, <3>1, <3>2, <3>3 DEF IInv, ValueInv
  <2> QED
    BY <2>1, <2>2
<1> QED
  BY SMTT(30), <1>6, <1>7, <1>8, <1>9 DEF IInv

LEMMA LocalExecutes == ASSUME IInv, NEW t \in Tasks, local_atomic(t) PROVE IInv'
<1>1. PICK w \in BOOLEAN : w = Wins(op[t].kind, op[t].expect)
  BY Zenon DEF Wins
<1>2. /\ t \in Local /\ op[t].pc = "device" /\ net' = net
      /\ UNCHANGED <<init, data, lock, told>>
      /\ Return(t, w) /\ version' = (IF w THEN version + 1 ELSE version)
  BY ZenonT(60), <1>1 DEF local_atomic, device_atomic
<1>3. op'[t].pc \in {"won", "lost"}
  BY <1>2, ReturnOps
<1>4. \A i \in DOMAIN net : net[i].op # t
  BY <1>2, NetVerbs, KvAssumption DEF IInv
<1>5. t \in Pending /\ t \notin Pending'
  BY <1>2, <1>3, <1>4 DEF Pending
<1> QED
  BY <1>2, <1>5, ExecuteKeeps

LEMMA NetExecutes == ASSUME IInv, net_execute PROVE IInv'
<1>1. /\ net # <<>> /\ net \in Seq(Verbs) /\ 1 \in DOMAIN net /\ Head(net) = net[1]
      /\ net' = Tail(net) /\ net' \in Seq(Verbs)
      /\ \A i \in DOMAIN net' : i \in Nat \ {0} /\ i + 1 \in DOMAIN net /\ net'[i] = net[i + 1]
  BY DEF net_execute, IInv, KvTypes
<1>2. init' = init /\ lock' = lock /\ told' = told
  BY DEF net_execute
<1>3. CASE Head(net).kind = "write"
  <2>1. data' = net[1].op /\ version' = version /\ op' = op /\ net[1].kind = "write"
    BY <1>1, <1>3 DEF net_execute
  <2>2. \A i \in DOMAIN net' : \E j \in DOMAIN net : net[j] = net'[i]
    BY ZenonT(60), <1>1
  <2>3. NetMoves
    BY <1>1 DEF NetMoves
  <2> QED
    BY ZenonT(60), <1>1, <1>2, <2>1, <2>2, <2>3, ArrivalKeeps
<1>4. CASE Head(net).kind # "write"
  <2>1. PICK t \in Remote : t = net[1].op
    BY <1>1, NetVerbs DEF IInv
  <2>2. PICK w \in BOOLEAN : w = Wins(net[1].kind, net[1].expect)
    BY Zenon DEF Wins
  <2>3. /\ Return(t, w) /\ version' = (IF w THEN version + 1 ELSE version) /\ data' = data
    BY ZenonT(60), <1>1, <1>4, <2>1, <2>2 DEF net_execute, device_atomic
  <2>4. t \in Tasks /\ net[1].kind # "write" /\ op[t].pc \notin {"idle", "device"}
    BY <1>1, <1>4, <2>1 DEF IInv, Counting, KvTypes, Tasks
  <2>5. op'[t].pc \notin {"idle", "device"}
    <3>1. op[t].pc \in {"device", "waiting"} => op'[t].pc = (IF w THEN "won" ELSE "lost")
      BY <2>3, <2>4, ReturnOps
    <3>2. op[t].pc \notin {"device", "waiting"} => op'[t].pc = op[t].pc
      BY <2>3, <2>4, ReturnOps
    <3> QED
      BY <2>4, <3>1, <3>2
  <2>6. ASSUME NEW i \in DOMAIN net', net'[i].op = t, net'[i].kind # "write" PROVE FALSE
    <3>1. i + 1 = 1
      BY ZenonT(60), <1>1, <2>1, <2>4, <2>6 DEF IInv, Counting
    <3> QED
      BY <1>1, <3>1
  <2>7. t \in Pending /\ t \notin Pending'
    BY ZenonT(60), <1>1, <2>1, <2>4, <2>5, <2>6 DEF Pending
  <2> QED
    BY <1>1, <1>2, <2>3, <2>4, <2>7, ExecuteKeeps
<1> QED
  BY <1>3, <1>4

LEMMA NetLoses == ASSUME IInv, net_lose PROVE IInv'
<1>1. /\ NetMoves /\ data' = data
      /\ \A i \in DOMAIN net' : \E j \in DOMAIN net : net[j] = net'[i]
  <2>1. net # <<>> /\ net' = Tail(net) /\ data' = data /\ net \in Seq(Verbs)
    BY DEF net_lose, IInv, KvTypes
  <2>2. \A i \in DOMAIN net' : i + 1 \in DOMAIN net /\ net'[i] = net[i + 1]
    BY <2>1
  <2> QED
    BY ZenonT(60), <2>1, <2>2 DEF NetMoves
<1> QED
  BY ZenonT(60), <1>1, ArrivalKeeps DEF net_lose

LEMMA StutterKeeps == ASSUME IInv, UNCHANGED vars PROVE IInv'
<1>1. init' = init /\ version' = version /\ data' = data /\ op' = op /\ net' = net /\ lock' = lock /\ told' = told
  BY DEF vars
<1>2. NetMoves /\ \A i \in DOMAIN net' : \E j \in DOMAIN net : net[j] = net'[i]
  BY ZenonT(60), <1>1 DEF NetMoves
<1> QED
  BY ZenonT(60), <1>1, <1>2, ArrivalKeeps

LEMMA StepKeeps == ASSUME IInv, NEW t \in Tasks, Step(t) PROVE IInv'
<1>1. CASE answer_without_write(t)
  BY <1>1, OverKeeps DEF answer_without_write
<1>2. CASE remote_timeout(t)
  <2>1. lock = t
    BY <1>2 DEF remote_timeout, IInv, KvTypes
  <2> QED
    BY <1>2, <2>1, OverKeeps DEF remote_timeout
<1> QED
  BY <1>1, <1>2, LocalExecutes, LocalWrites, RemoteWrites, NotifyKeeps DEF Step

-----------------------------------------------------------------------------
\* The invariant holds whatever requests are made at either node, and
\* whatever verbs are lost and calls time out.
THEOREM SlotInvariant == Spec => []IInv
<1>1. ASSUME IInv, [Next]_vars PROVE IInv'
  <2>1. CASE kv_init_version \/ kv_init_slot
    BY <1>1, <2>1, InitSteps
  <2>2. CASE \E t \in Tasks : kv_request_local(t) \/ kv_request_remote(t) \/ Step(t)
    BY <1>1, <2>2, LocalBegins, RemoteBegins, StepKeeps
  <2>3. CASE net_execute \/ net_lose
    BY <1>1, <2>3, NetExecutes, NetLoses
  <2>4. CASE UNCHANGED vars
    BY <1>1, <2>4, StutterKeeps
  <2> QED
    BY <1>1, <2>1, <2>2, <2>3, <2>4 DEF Next, Terminating
<1>2. Spec => Init /\ [][Next]_vars
  BY PTL DEF Spec
<1> QED
  BY <1>1, <1>2, InitInv, PTL

\* The version word never exceeds the number of requests, what was told never
\* exceeds the version word, and the lock of the other node is held exactly by
\* the request in a call or about to use its answer.
THEOREM TypeCorrectness == Spec => []TypeOK
<1>1. IInv => TypeOK
  <2>1. SUFFICES ASSUME IInv PROVE TypeOK
    OBVIOUS
  <2>2. KvTypes /\ version \in 0..MaxVersion
    BY SMTT(30), <2>1, VersionBound DEF IInv
  <2> QED
    BY <2>2 DEF KvTypes, TypeOK
<1> QED
  BY <1>1, SlotInvariant, PTL

\* No two requests that begin after kv_init are given the same version by the
\* owner's FAA and CAS.
THEOREM VersionsDistinct == Spec => []DistinctVersions
<1>1. IInv => DistinctVersions
  BY SMTT(30) DEF IInv, VersionInv
<1> QED
  BY <1>1, SlotInvariant, PTL

\* kv_get never returns a version below one that a caller or a replica had
\* been told of when it began.
THEOREM ReadsAreRecent == Spec => []ReadAfterAnswer
<1>1. IInv => ReadAfterAnswer
  <2>1. SUFFICES ASSUME IInv, NEW t \in Tasks, op[t].late, op[t].pc = "lost"
                 PROVE  op[t].got >= op[t].floor
    BY DEF ReadAfterAnswer
  <2>2. op[t].floor <= op[t].got /\ op[t].floor \in Nat /\ op[t].got \in Nat
    <3>1. op[t].floor <= op[t].got
      BY ZenonT(60), <2>1 DEF IInv, VersionInv
    <3>2. op[t] \in Ops
      BY <2>1 DEF IInv, KvTypes
    <3>3. op[t].floor \in 0..MaxVersion /\ op[t].got \in 0..MaxVersion
      BY SMTT(30), <3>2, OpFields
    <3> QED
      BY <3>1, <3>3, PendingFinite
  <2> QED
    BY <2>2
<1> QED
  BY <1>1, SlotInvariant, PTL

\* A value written at the owner, with no other write outstanding when its
\* request got its version, stays until another request gets a version.
THEOREM ValueStays == Spec => []ValueOfVersionStays
<1>1. IInv => ValueOfVersionStays
  BY DEF IInv, ValueInv, ValueOfVersionStays, Tasks
<1> QED
  BY <1>1, SlotInvariant, PTL
=============================================================================
