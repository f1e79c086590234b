----------------------------- MODULE VerbService -----------------------------
(***************************************************************************)
(* What the data plane promises its callers while two nodes keep their     *)
(* sessions: an operation that was accepted is executed by the peer at     *)
(* most once (a read may be repeated), and the fire-and-forget operations  *)
(* of a node are executed in the order in which they were accepted.        *)
(* Nothing says that an operation is executed at all.                      *)
(***************************************************************************)
EXTENDS Integers, Sequences

CONSTANTS Nodes, Verbs, FireAndForget

VARIABLES
    accepted,      \* accepted[n][k]: the verb of the k-th operation of n
    times          \* times[n][k]: how often the peer executed it

Init ==
    /\ accepted = [n \in Nodes |-> << >>]
    /\ \A n \in Nodes : \A k \in DOMAIN times[n] : times[n][k] = 0

Accept(n) ==
    /\ \E verb \in Verbs : accepted' = [accepted EXCEPT ![n] = Append(@, verb)]
    /\ UNCHANGED times

Execute(n, k) ==
    /\ accepted[n][k] # "ReadReq" => times[n][k] = 0
    /\ accepted[n][k] \in FireAndForget =>
           \A j \in k + 1 .. Len(accepted[n]) :
               accepted[n][j] \in FireAndForget => times[n][j] = 0
    /\ times' = [times EXCEPT ![n][k] = @ + 1]
    /\ UNCHANGED accepted

Next ==
    \E n \in Nodes : Accept(n) \/ \E k \in DOMAIN accepted[n] : Execute(n, k)

Spec == Init /\ [][Next]_<<accepted, times>>
=============================================================================
