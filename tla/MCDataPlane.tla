----------------------------- MODULE MCDataPlane -----------------------------
(* Instances of DataPlane for TLC: how many frames each of two nodes queues, *)
(* and the credits of a session, which are sums over what is in flight.      *)
EXTENDS DataPlane, FiniteSetsExt, TLC

CONSTANTS a, b

OneWay1 == (a :> 1) @@ (b :> 0)
OneWay2 == (a :> 2) @@ (b :> 0)
OneWay6 == (a :> 6) @@ (b :> 0)

\* What the sequenced frames of n in flight will bring when they arrive.
CreditsToEarn(n) ==
    MapThenSumSet(LAMBDA f : data[f], {f \in InFlight(data) : f.src = n /\ f.seq # 0})

\* What the ACKs on their way to n carry.
CreditsOnTheWay(n) ==
    MapThenSumSet(LAMBDA f : acks[f] * f.credit_grant, {f \in InFlight(acks) : f.src = Peer(n)})

\* The network and the channels lose nothing, yet ACKs and frames cross,
\* overtake each other, are repeated and are resent: no credit of a session
\* disappears.  Each is in hand, in an ACK, in the receiver's count or will be
\* earned by a frame in flight.  (Loss takes credits away for good: a lost ACK
\* had already reset the receiver's count, a frame that is not resent is never
\* counted.)
CreditsNotLost ==
    \A n \in Nodes : faults.lost = 0 /\ ~ChannelMayFill =>
        CurrentSession(n).available_credits + CreditsOnTheWay(n)
          + CurrentSession(Peer(n)).credits_to_grant + CreditsToEarn(n) >= InitialCredits
=============================================================================
