---------------------------- MODULE JettyProofs -----------------------------
(***************************************************************************)
(* Theorems about Jettys, for any number of them, of senders and of work,  *)
(* and any depths.                                                         *)
(*                                                                         *)
(* The invariant has three parts.  Each Jetty's queues keep to their       *)
(* depths, in the order of posting.  Every buffer and request that was     *)
(* posted is at one spot: a queue, the polled completions, or somebody's   *)
(* hands.  And what a Jetty has received was posted before the buffer in   *)
(* the handler's hands, which was posted before those that wait.           *)
(***************************************************************************)
EXTENDS Jetty, TLAPS

JettyState == [jfs : Seq(Work), jfr : Seq(Work), jfc : Seq(Cqe),
               created : BOOLEAN, life : Life, mark : 0..MaxWork]

Types ==
    /\ jetty \in Seq(JettyState) /\ Len(jetty) <= MaxJettys
    /\ default \in 0..MaxJettys
    /\ posted \in 0..MaxWork
    /\ sending \in [Senders -> 0..Len(jetty)]
    /\ handler \in [pc : {"idle", "found", "matched"}, h : 0..MaxJettys, w : 0..MaxWork]
    /\ handler.pc # "idle" => handler.h \in Handles
    /\ polled \in Seq(Cqe)
    /\ \A i \in DOMAIN polled : polled[i].work # 0 /\ polled[i].jetty_id \in Handles
    /\ dropped \subseteq Work
    /\ handed \subseteq Work

-----------------------------------------------------------------------------
(* One Jetty: r is the state of the Jetty h, n the number of posts.        *)

Increasing(s) == \A i, j \in DOMAIN s : i < j => s[i] < s[j]

NoTwice(cqes) ==
    \A i, j \in DOMAIN cqes : cqes[i].work = cqes[j].work /\ cqes[i].work # 0 => i = j

Good(h, r, n) ==
    /\ Len(r.jfs) <= jfs_depth /\ Len(r.jfr) <= jfr_depth
    /\ Len(r.jfc) <= jfc_depth + (IF r.life = "closed" THEN jfs_depth + jfr_depth ELSE 0)
    /\ Increasing(r.jfs) /\ Increasing(r.jfr) /\ NoTwice(r.jfc)
    /\ \A i \in DOMAIN r.jfc : r.jfc[i].jetty_id = h
    /\ r.mark <= n
    /\ r.life = "closed" => \A w \in Range(r.jfs) \union Range(r.jfr) : w > r.mark

-----------------------------------------------------------------------------
(* The spots where a buffer or a request can be, and what is there.        *)

Spots == ({"jfs", "jfr", "jfc"} \X Nat) \union ({"polled", "handler", "handed", "dropped"} \X {0})

Content(x) ==
    CASE x[1] = "jfs" -> IF x[2] \in Handles THEN Range(jetty[x[2]].jfs) ELSE {}
      [] x[1] = "jfr" -> IF x[2] \in Handles THEN Range(jetty[x[2]].jfr) ELSE {}
      [] x[1] = "jfc" -> IF x[2] \in Handles THEN WorkOf(jetty[x[2]].jfc) \ {0} ELSE {}
      [] x[1] = "polled" -> WorkOf(polled)
      [] x[1] = "handler" -> IF handler.pc = "matched" THEN {handler.w} ELSE {}
      [] x[1] = "handed" -> handed
      [] x[1] = "dropped" -> dropped

Owned ==
    /\ \A x \in Spots : Content(x) \subseteq 1..posted
    /\ \A w \in 1..posted : \E x \in Spots : w \in Content(x)
    /\ \A x, y \in Spots : \A w : w \in Content(x) /\ w \in Content(y) => x = y

\* What a spot means for the work at it, in the words of WorkPromise.
FateAt(x) ==
    CASE x[1] \in {"jfs", "jfr"} -> "posted"
      [] x[1] = "jfc" -> "done"
      [] x[1] = "polled" -> "reaped"
      [] x[1] \in {"handler", "handed"} -> "taken"
      [] x[1] = "dropped" -> "dropped"

\* A step carries the works of W from spots that mean f to spots that mean g,
\* and no other work anywhere.
Carried(W, f, g) ==
    /\ \A x \in Spots : \A v \in Content(x) : v \in W \/ v \in Content(x)'
    /\ \A w \in W : /\ \E x \in Spots : w \in Content(x) /\ FateAt(x) = f
                    /\ \E x \in Spots : w \in Content(x)' /\ FateAt(x) = g

\* Every step posts one work, carries one on, or completes all that waits.
Carries ==
    \/ /\ posted' = posted
       /\ \E W : Carried(W, "posted", "done")
    \/ /\ posted' = posted
       /\ \E w : Carried({w}, "posted", "taken") \/ Carried({w}, "taken", "done")
                 \/ Carried({w}, "taken", "dropped") \/ Carried({w}, "done", "reaped")
    \/ /\ posted' = posted + 1
       /\ \A x \in Spots : Content(x) \subseteq Content(x)'
       /\ \E x \in Spots : posted' \in Content(x)' /\ FateAt(x) = "posted"

-----------------------------------------------------------------------------
(* The order in which buffers are filled.                                  *)

Filled(c, h) == c.jetty_id = h /\ c.status = "OK" /\ c.work # 0

InOrder(cqes, h) ==
    \A i, j \in DOMAIN cqes :
      i < j /\ Filled(cqes[i], h) /\ Filled(cqes[j], h) => cqes[i].work < cqes[j].work

\* Of the Jetty h with state r: cqes are the completions polled, f the handler.
Sorted(h, r, cqes, f) ==
    /\ InOrder(cqes, h) /\ InOrder(r.jfc, h)
    /\ \A i \in DOMAIN cqes, j \in DOMAIN r.jfc :
         Filled(cqes[i], h) /\ Filled(r.jfc[j], h) => cqes[i].work < r.jfc[j].work
    /\ \A w \in Range(r.jfr) :
         /\ \A i \in DOMAIN cqes : Filled(cqes[i], h) => cqes[i].work < w
         /\ \A i \in DOMAIN r.jfc : Filled(r.jfc[i], h) => r.jfc[i].work < w
    /\ f.pc = "matched" /\ f.h = h =>
         /\ \A i \in DOMAIN cqes : Filled(cqes[i], h) => cqes[i].work < f.w
         /\ \A i \in DOMAIN r.jfc : Filled(r.jfc[i], h) => r.jfc[i].work < f.w
         /\ \A w \in Range(r.jfr) : f.w < w

IInv ==
    /\ Types /\ Owned /\ NoTwice(polled)
    /\ \A h \in Handles : Good(h, jetty[h], posted) /\ Sorted(h, jetty[h], polled, handler)

-----------------------------------------------------------------------------
(* Queues: taking from the front and adding at the end.                    *)

LEMMA TailOf ==
    ASSUME NEW S, NEW s \in Seq(S), s # <<>>
    PROVE  /\ Tail(s) \in Seq(S) /\ Len(Tail(s)) <= Len(s) /\ 1 \in DOMAIN s /\ Head(s) = s[1] /\ s[1] \in S
           /\ \A i \in DOMAIN Tail(s) : i + 1 \in DOMAIN s /\ Tail(s)[i] = s[i + 1]
           /\ \A i \in DOMAIN s : i # 1 => i - 1 \in DOMAIN Tail(s) /\ Tail(s)[i - 1] = s[i]
OBVIOUS

LEMMA AppendOf ==
    ASSUME NEW S, NEW s \in Seq(S), NEW x \in S
    PROVE  /\ Append(s, x) \in Seq(S) /\ Len(Append(s, x)) = Len(s) + 1 /\ Len(s) \in Nat
           /\ Len(s) + 1 \in DOMAIN Append(s, x) /\ Append(s, x)[Len(s) + 1] = x
           /\ \A i \in DOMAIN s : i \in DOMAIN Append(s, x) /\ Append(s, x)[i] = s[i] /\ i < Len(s) + 1
           /\ \A i \in DOMAIN Append(s, x) : i = Len(s) + 1 \/ i \in DOMAIN s
OBVIOUS

LEMMA AppendElements ==
    ASSUME NEW S, NEW s \in Seq(S), NEW x \in S
    PROVE  /\ Append(s, x) \in Seq(S)
           /\ \A i \in DOMAIN Append(s, x) :
                Append(s, x)[i] = x \/ (i \in DOMAIN s /\ Append(s, x)[i] = s[i])
<1> DEFINE e == Append(s, x)
           n == Len(s) + 1
<1>1. /\ e \in Seq(S) /\ e[n] = x
      /\ \A i \in DOMAIN s : e[i] = s[i]
      /\ \A i \in DOMAIN e : i = n \/ i \in DOMAIN s
  BY AppendOf
<1> HIDE DEF e, n
<1>2. e \in Seq(S) /\ \A i \in DOMAIN e : e[i] = x \/ (i \in DOMAIN s /\ e[i] = s[i])
  BY Zenon, <1>1
<1> QED
  BY <1>2 DEF e

LEMMA InRange ==
    ASSUME NEW s
    PROVE  (\A i \in DOMAIN s : s[i] \in Range(s)) /\ \A w \in Range(s) : \E i \in DOMAIN s : w = s[i]
BY DEF Range

\* The front of a queue is its least element, and leaves it for good.
LEMMA TailQueue ==
    ASSUME NEW s \in Seq(Work), s # <<>>, Increasing(s)
    PROVE  /\ Range(Tail(s)) = Range(s) \ {Head(s)} /\ Head(s) \in Range(s) /\ Head(s) \in Work
           /\ Increasing(Tail(s)) /\ \A w \in Range(Tail(s)) : Head(s) < w
<1>1. /\ 1 \in DOMAIN s /\ Head(s) = s[1] /\ s[1] \in Work
      /\ \A i \in DOMAIN Tail(s) : i + 1 \in DOMAIN s /\ Tail(s)[i] = s[i + 1]
      /\ \A i \in DOMAIN s : i # 1 => i - 1 \in DOMAIN Tail(s) /\ Tail(s)[i - 1] = s[i]
  BY TailOf
<1>2. /\ DOMAIN Tail(s) \subseteq Nat \ {0} /\ DOMAIN s \subseteq Nat /\ Work \subseteq Nat
      /\ \A i \in DOMAIN s : s[i] \in Work
  BY JettyAssumption DEF Work
<1>3. \A i \in DOMAIN Tail(s) : s[1] < Tail(s)[i] /\ s[1] # Tail(s)[i]
  <2>1. \A i \in DOMAIN Tail(s) : 1 < i + 1
    BY <1>2
  <2>2. \A i \in DOMAIN Tail(s) : s[1] < Tail(s)[i]
    BY ZenonT(60), <1>1, <2>1 DEF Increasing
  <2>3. \A i \in DOMAIN Tail(s) : Tail(s)[i] \in Nat /\ s[1] \in Nat
    BY ZenonT(60), <1>1, <1>2
  <2>4. \A a, b \in Nat : a < b => a # b
    OBVIOUS
  <2> QED
    BY ZenonT(60), <2>2, <2>3, <2>4
<1>8. /\ \A i \in DOMAIN s : s[i] \in Range(s)
      /\ \A w \in Range(s) : \E i \in DOMAIN s : w = s[i]
      /\ \A i \in DOMAIN Tail(s) : Tail(s)[i] \in Range(Tail(s))
      /\ \A w \in Range(Tail(s)) : \E i \in DOMAIN Tail(s) : w = Tail(s)[i]
  BY ZenonT(60), InRange
<1>4. ASSUME NEW w \in Range(Tail(s))
      PROVE  Head(s) < w /\ w \in Range(s) /\ w # Head(s)
  <2>1. PICK i \in DOMAIN Tail(s) : w = Tail(s)[i]
    BY Zenon, <1>8
  <2>2. w = s[i + 1] /\ i + 1 \in DOMAIN s /\ s[1] < w /\ s[1] # w
    BY Zenon, <1>1, <1>3, <2>1
  <2> QED
    BY Zenon, <1>1, <1>8, <2>2
<1>5. ASSUME NEW w \in Range(s)
      PROVE  w = Head(s) \/ w \in Range(Tail(s))
  <2>1. PICK i \in DOMAIN s : w = s[i]
    BY Zenon, <1>8
  <2>2. i = 1 \/ (i - 1 \in DOMAIN Tail(s) /\ w = Tail(s)[i - 1])
    BY Zenon, <1>1, <2>1
  <2> QED
    BY Zenon, <1>1, <1>8, <2>1, <2>2
<1>6. Increasing(Tail(s))
  <2>1. \A i, j \in DOMAIN Tail(s) : i < j => i + 1 < j + 1
    BY <1>2
  <2> QED
    BY ZenonT(60), <1>1, <2>1 DEF Increasing
<1>7. Head(s) \in Range(s) /\ Head(s) \in Work
  BY ZenonT(60), <1>1, <1>8
<1> QED
  BY ZenonT(60), <1>4, <1>5, <1>6, <1>7

\* What is posted is greater than all that waits.
LEMMA AppendQueue ==
    ASSUME NEW s \in Seq(Work), NEW x \in Work, Increasing(s), \A w \in Range(s) : w < x
    PROVE  Range(Append(s, x)) = Range(s) \union {x} /\ Increasing(Append(s, x))
<1>1. /\ Len(s) + 1 \in DOMAIN Append(s, x) /\ Append(s, x)[Len(s) + 1] = x
      /\ \A i \in DOMAIN s : i \in DOMAIN Append(s, x) /\ Append(s, x)[i] = s[i] /\ i < Len(s) + 1
      /\ \A i \in DOMAIN Append(s, x) : i = Len(s) + 1 \/ i \in DOMAIN s
  BY AppendOf
<1>2. Range(Append(s, x)) = Range(s) \union {x}
  <2>4. /\ \A i \in DOMAIN s : s[i] \in Range(s)
        /\ \A w \in Range(s) : \E i \in DOMAIN s : w = s[i]
        /\ \A i \in DOMAIN Append(s, x) : Append(s, x)[i] \in Range(Append(s, x))
        /\ \A w \in Range(Append(s, x)) : \E i \in DOMAIN Append(s, x) : w = Append(s, x)[i]
    BY ZenonT(60), InRange
  <2>1. ASSUME NEW w \in Range(Append(s, x))
        PROVE  w \in Range(s) \/ w = x
    <3>1. PICK i \in DOMAIN Append(s, x) : w = Append(s, x)[i]
      BY Zenon, <2>4
    <3>2. w = x \/ (i \in DOMAIN s /\ w = s[i])
      BY Zenon, <1>1, <3>1
    <3> QED
      BY Zenon, <2>4, <3>2
  <2>2. \A w \in Range(s) : w \in Range(Append(s, x))
    BY ZenonT(60), <1>1, <2>4
  <2>3. x \in Range(Append(s, x))
    BY ZenonT(60), <1>1, <2>4
  <2> QED
    BY ZenonT(60), <2>1, <2>2, <2>3
<1>3. \A i \in DOMAIN s : s[i] < x
  BY ZenonT(60), InRange
<1>4. \A i \in DOMAIN s : ~(Len(s) + 1 < i) /\ ~(Len(s) + 1 < Len(s) + 1)
  <2>1. DOMAIN s = 1..Len(s) /\ Len(s) \in Nat
    OBVIOUS
  <2> QED
    BY <2>1
<1>5. Increasing(Append(s, x))
  <2>1. ~(Len(s) + 1 < Len(s) + 1)
    <3>1. Len(s) \in Nat
      OBVIOUS
    <3> QED
      BY <3>1
  <2> QED
    BY ZenonT(60), <1>1, <1>3, <1>4, <2>1 DEF Increasing
<1> QED
  BY <1>2, <1>5

-----------------------------------------------------------------------------
(* Completion queues.                                                      *)

LEMMA InWorkOf ==
    ASSUME NEW c
    PROVE  /\ \A i \in DOMAIN c : c[i].work \in WorkOf(c)
           /\ \A w \in WorkOf(c) : \E i \in DOMAIN c : w = c[i].work
BY DEF WorkOf

\* Polling takes the first completion away, and it is the only one of its work.
LEMMA TailCqes ==
    ASSUME NEW c \in Seq(Cqe), c # <<>>, NoTwice(c)
    PROVE  /\ WorkOf(Tail(c)) \ {0} = (WorkOf(c) \ {0}) \ {Head(c).work}
           /\ Head(c).work \in WorkOf(c) /\ Head(c) \in Cqe /\ NoTwice(Tail(c))
           /\ \A h : InOrder(c, h) =>
                /\ InOrder(Tail(c), h)
                /\ \A i \in DOMAIN Tail(c) :
                     Filled(Head(c), h) /\ Filled(Tail(c)[i], h) => Head(c).work < Tail(c)[i].work
<1>1. /\ 1 \in DOMAIN c /\ Head(c) = c[1] /\ c[1] \in Cqe
      /\ \A i \in DOMAIN Tail(c) : i + 1 \in DOMAIN c /\ Tail(c)[i] = c[i + 1]
      /\ \A i \in DOMAIN c : i # 1 => i - 1 \in DOMAIN Tail(c) /\ Tail(c)[i - 1] = c[i]
  BY TailOf
<1>2. /\ \A i \in DOMAIN Tail(c) : 1 < i + 1 /\ i + 1 # 1
      /\ \A i, j \in DOMAIN Tail(c) : i < j => i + 1 < j + 1
      /\ \A i, j \in DOMAIN Tail(c) : i + 1 = j + 1 => i = j
  <2>1. DOMAIN Tail(c) \subseteq Nat \ {0}
    OBVIOUS
  <2> QED
    BY <2>1
<1>3. /\ \A i \in DOMAIN c : c[i].work \in WorkOf(c)
      /\ \A w \in WorkOf(c) : \E i \in DOMAIN c : w = c[i].work
      /\ \A i \in DOMAIN Tail(c) : Tail(c)[i].work \in WorkOf(Tail(c))
      /\ \A w \in WorkOf(Tail(c)) : \E i \in DOMAIN Tail(c) : w = Tail(c)[i].work
  BY ZenonT(60), InWorkOf
<1>4. ASSUME NEW w \in WorkOf(Tail(c)), w # 0
      PROVE  w \in WorkOf(c) /\ w # Head(c).work
  <2>1. PICK i \in DOMAIN Tail(c) : w = Tail(c)[i].work
    BY Zenon, <1>3
  <2>2. w = c[i + 1].work /\ i + 1 \in DOMAIN c /\ i + 1 # 1
    BY Zenon, <1>1, <1>2, <2>1
  <2> QED
    BY Zenon, <1>1, <1>3, <1>4, <2>2 DEF NoTwice
<1>5. ASSUME NEW w \in WorkOf(c)
      PROVE  w = Head(c).work \/ w \in WorkOf(Tail(c))
  <2>1. PICK i \in DOMAIN c : w = c[i].work
    BY Zenon, <1>3
  <2>2. i = 1 \/ (i - 1 \in DOMAIN Tail(c) /\ w = Tail(c)[i - 1].work)
    BY Zenon, <1>1, <2>1
  <2> QED
    BY Zenon, <1>1, <1>3, <2>1, <2>2
<1>6. ASSUME NEW i \in DOMAIN Tail(c), NEW j \in DOMAIN Tail(c),
             Tail(c)[i].work = Tail(c)[j].work, Tail(c)[i].work # 0
      PROVE  i = j
  <2>1. /\ i + 1 \in DOMAIN c /\ j + 1 \in DOMAIN c
        /\ c[i + 1].work = c[j + 1].work /\ c[i + 1].work # 0
    BY Zenon, <1>1, <1>6
  <2> QED
    BY Zenon, <1>2, <2>1 DEF NoTwice
<1>7. ASSUME NEW h, InOrder(c, h), NEW i \in DOMAIN Tail(c), NEW j \in DOMAIN Tail(c),
             i < j, Filled(Tail(c)[i], h), Filled(Tail(c)[j], h)
      PROVE  Tail(c)[i].work < Tail(c)[j].work
  <2>1. /\ i + 1 \in DOMAIN c /\ j + 1 \in DOMAIN c /\ i + 1 < j + 1
        /\ Tail(c)[i] = c[i + 1] /\ Tail(c)[j] = c[j + 1]
    BY Zenon, <1>1, <1>2, <1>7
  <2> QED
    BY Zenon, <1>7, <2>1 DEF InOrder
<1>8. ASSUME NEW h, InOrder(c, h), NEW i \in DOMAIN Tail(c), Filled(Head(c), h), Filled(Tail(c)[i], h)
      PROVE  Head(c).work < Tail(c)[i].work
  <2>1. i + 1 \in DOMAIN c /\ 1 < i + 1 /\ Tail(c)[i] = c[i + 1] /\ Head(c) = c[1] /\ 1 \in DOMAIN c
    BY Zenon, <1>1, <1>2
  <2> QED
    BY Zenon, <1>8, <2>1 DEF InOrder
<1>9. Head(c).work \in WorkOf(c) /\ Head(c) \in Cqe
  BY Zenon, <1>1, <1>3
<1>10. WorkOf(Tail(c)) \ {0} = (WorkOf(c) \ {0}) \ {Head(c).work}
  BY Zenon, <1>4, <1>5
<1> QED
  BY Zenon, <1>6, <1>7, <1>8, <1>9, <1>10 DEF NoTwice, InOrder

\* Putting completions behind others.
LEMMA ConcatOf ==
    ASSUME NEW S, NEW c \in Seq(S), NEW d \in Seq(S)
    PROVE  /\ c \o d \in Seq(S) /\ Len(c \o d) = Len(c) + Len(d)
           /\ \A i \in DOMAIN (c \o d) :
                \/ i \in DOMAIN c /\ (c \o d)[i] = c[i]
                \/ /\ i \notin DOMAIN c /\ i - Len(c) \in DOMAIN d
                   /\ (c \o d)[i] = d[i - Len(c)] /\ \A j \in DOMAIN c : ~(i < j)
           /\ \A i \in DOMAIN c : i \in DOMAIN (c \o d) /\ (c \o d)[i] = c[i]
           /\ \A i \in DOMAIN d : i + Len(c) \in DOMAIN (c \o d) /\ (c \o d)[i + Len(c)] = d[i]
           /\ \A i, j \in DOMAIN (c \o d) :
                /\ i - Len(c) = j - Len(c) => i = j
                /\ i < j => i - Len(c) < j - Len(c)
<1>1. /\ c \o d \in Seq(S) /\ Len(c \o d) = Len(c) + Len(d) /\ Len(c) \in Nat /\ Len(d) \in Nat
      /\ DOMAIN c = 1..Len(c) /\ DOMAIN d = 1..Len(d) /\ DOMAIN (c \o d) = 1..Len(c) + Len(d)
  OBVIOUS
<1>2. \A i \in 1..Len(c) + Len(d) : (c \o d)[i] = IF i <= Len(c) THEN c[i] ELSE d[i - Len(c)]
  OBVIOUS
<1> QED
  BY SMTT(30), <1>1, <1>2

LEMMA ConcatIds ==
    ASSUME NEW c \in Seq(Cqe), NEW d \in Seq(Cqe), NEW h,
           \A i \in DOMAIN c : c[i].jetty_id = h, \A i \in DOMAIN d : d[i].jetty_id = h
    PROVE  \A i \in DOMAIN (c \o d) : (c \o d)[i].jetty_id = h
<1> DEFINE e == c \o d
           n == Len(c)
<1>1. \A i \in DOMAIN e :
           \/ i \in DOMAIN c /\ e[i] = c[i]
           \/ i \notin DOMAIN c /\ i - n \in DOMAIN d /\ e[i] = d[i - n]
  BY ConcatOf
<1> HIDE DEF e, n
<1>2. \A i \in DOMAIN e : e[i].jetty_id = h
  BY Zenon, <1>1
<1> QED
  BY <1>2 DEF e

LEMMA ConcatLen ==
    ASSUME NEW c \in Seq(Cqe), NEW d \in Seq(Cqe)
    PROVE  c \o d \in Seq(Cqe) /\ Len(c \o d) = Len(c) + Len(d)
OBVIOUS

LEMMA ConcatCqes ==
    ASSUME NEW c \in Seq(Cqe), NEW d \in Seq(Cqe), NoTwice(c), NoTwice(d),
           \A w \in WorkOf(c) \ {0} : w \notin WorkOf(d)
    PROVE  /\ WorkOf(c \o d) = WorkOf(c) \union WorkOf(d)
           /\ NoTwice(c \o d)
<1> DEFINE e == c \o d
           n == Len(c)
<1>1. /\ \A i \in DOMAIN e :
           \/ i \in DOMAIN c /\ e[i] = c[i]
           \/ i \notin DOMAIN c /\ i - n \in DOMAIN d /\ e[i] = d[i - n]
      /\ \A i \in DOMAIN c : i \in DOMAIN e /\ e[i] = c[i]
      /\ \A i \in DOMAIN d : i + n \in DOMAIN e /\ e[i + n] = d[i]
      /\ \A i, j \in DOMAIN e : i - n = j - n => i = j
  <2>1. /\ \A i \in DOMAIN e :
             \/ i \in DOMAIN c /\ e[i] = c[i]
             \/ i \notin DOMAIN c /\ i - n \in DOMAIN d /\ e[i] = d[i - n]
        /\ \A i \in DOMAIN c : i \in DOMAIN e /\ e[i] = c[i]
    BY SMTT(30), ConcatOf
  <2>2. /\ \A i \in DOMAIN d : i + n \in DOMAIN e /\ e[i + n] = d[i]
        /\ \A i, j \in DOMAIN e : i - n = j - n => i = j
    BY SMTT(30), ConcatOf
  <2> QED
    BY Zenon, <2>1, <2>2
<1>2. /\ \A i \in DOMAIN c : c[i].work \in WorkOf(c)
      /\ \A w \in WorkOf(c) : \E i \in DOMAIN c : w = c[i].work
      /\ \A i \in DOMAIN d : d[i].work \in WorkOf(d)
      /\ \A w \in WorkOf(d) : \E i \in DOMAIN d : w = d[i].work
      /\ \A i \in DOMAIN e : e[i].work \in WorkOf(e)
      /\ \A w \in WorkOf(e) : \E i \in DOMAIN e : w = e[i].work
  <2> HIDE DEF e
  <2> QED
    BY ZenonT(60), InWorkOf
<1> HIDE DEF e, n
<1>3. ASSUME NEW w \in WorkOf(e)
      PROVE  w \in WorkOf(c) \/ w \in WorkOf(d)
  <2>1. PICK i \in DOMAIN e : w = e[i].work
    BY Zenon, <1>2
  <2> QED
    BY ZenonT(60), <1>1, <1>2, <2>1
<1>4. ASSUME NEW w \in WorkOf(c)
      PROVE  w \in WorkOf(e)
  <2>1. PICK i \in DOMAIN c : w = c[i].work
    BY Zenon, <1>2
  <2> QED
    BY Zenon, <1>1, <1>2, <2>1
<1>5. ASSUME NEW w \in WorkOf(d)
      PROVE  w \in WorkOf(e)
  <2>1. PICK i \in DOMAIN d : w = d[i].work
    BY Zenon, <1>2
  <2> QED
    BY Zenon, <1>1, <1>2, <2>1
<1>6. ASSUME NEW i \in DOMAIN e, NEW j \in DOMAIN e, e[i].work = e[j].work, e[i].work # 0
      PROVE  i = j
  <2>1. CASE e[i] = c[i] /\ i \in DOMAIN c
    <3>1. e[i].work \notin WorkOf(d)
      BY Zenon, <1>2, <1>6, <2>1
    <3>3. ~(j - n \in DOMAIN d /\ e[j] = d[j - n])
      BY Zenon, <1>2, <1>6, <3>1
    <3>2. j \in DOMAIN c /\ e[j] = c[j]
      BY Zenon, <1>1, <3>3
    <3> QED
      BY Zenon, <1>6, <2>1, <3>2 DEF NoTwice
  <2>2. CASE i - n \in DOMAIN d /\ e[i] = d[i - n]
    <3>1. e[i].work \in WorkOf(d)
      BY Zenon, <1>2, <2>2
    <3>4. ~(j \in DOMAIN c /\ e[j] = c[j])
      BY Zenon, <1>2, <1>6, <3>1
    <3>2. j - n \in DOMAIN d /\ e[j] = d[j - n]
      BY Zenon, <1>1, <3>4
    <3>3. i - n = j - n
      BY Zenon, <1>6, <2>2, <3>2 DEF NoTwice
    <3> QED
      BY Zenon, <1>1, <3>3
  <2> QED
    BY Zenon, <1>1, <2>1, <2>2
<1>7. WorkOf(e) = WorkOf(c) \union WorkOf(d) /\ NoTwice(e)
  BY Zenon, <1>3, <1>4, <1>5, <1>6 DEF NoTwice
<1> QED
  BY <1>7 DEF e

LEMMA AppendCqes ==
    ASSUME NEW c \in Seq(Cqe), NEW x \in Cqe, NoTwice(c), x.work = 0 \/ x.work \notin WorkOf(c)
    PROVE  /\ WorkOf(Append(c, x)) = WorkOf(c) \union {x.work}
           /\ NoTwice(Append(c, x))
<1>1. Append(c, x) = c \o <<x>> /\ <<x>> \in Seq(Cqe) /\ DOMAIN <<x>> = {1} /\ <<x>>[1] = x
  OBVIOUS
<1>2. WorkOf(<<x>>) = {x.work} /\ NoTwice(<<x>>)
  BY Zenon, <1>1 DEF WorkOf, NoTwice
<1>3. \A w \in WorkOf(c) \ {0} : w \notin WorkOf(<<x>>)
  BY Zenon, <1>2
<1> QED
  BY ZenonT(60), <1>1, <1>2, <1>3, ConcatCqes

LEMMA AppendInOrder ==
    ASSUME NEW c \in Seq(Cqe), NEW x \in Cqe, NEW h, InOrder(c, h),
           Filled(x, h) => \A i \in DOMAIN c : Filled(c[i], h) => c[i].work < x.work
    PROVE  InOrder(Append(c, x), h)
<1> DEFINE e == Append(c, x)
           n == Len(c) + 1
<1>1. /\ n \in DOMAIN e /\ e[n] = x
      /\ \A i \in DOMAIN c : i \in DOMAIN e /\ e[i] = c[i] /\ i < n
      /\ \A i \in DOMAIN e : i = n \/ i \in DOMAIN c
  BY AppendOf
<1>2. ~(n < n) /\ \A i \in DOMAIN c : ~(n < i)
  <2>1. Len(c) \in Nat /\ DOMAIN c = 1..Len(c)
    OBVIOUS
  <2> QED
    BY <2>1
<1> HIDE DEF e, n
<1>3. ASSUME NEW i \in DOMAIN e, NEW j \in DOMAIN e, i < j, Filled(e[i], h), Filled(e[j], h)
      PROVE  e[i].work < e[j].work
  <2>1. i \in DOMAIN c /\ e[i] = c[i]
    BY Zenon, <1>1, <1>2, <1>3
  <2>2. CASE j = n
    BY Zenon, <1>1, <1>3, <2>1, <2>2
  <2>3. CASE j \in DOMAIN c
    <3>1. e[j] = c[j]
      BY Zenon, <1>1, <2>3
    <3> QED
      BY Zenon, <1>3, <2>1, <2>3, <3>1 DEF InOrder
  <2> QED
    BY Zenon, <1>1, <2>2, <2>3
<1>4. InOrder(e, h)
  BY Zenon, <1>3 DEF InOrder
<1> QED
  BY <1>4 DEF e

\* What close puts into the completion queue: nothing of it was filled.
LEMMA FlushedOf ==
    ASSUME NEW h \in 1..MaxJettys, NEW q \in Seq(Work), Increasing(q)
    PROVE  /\ Flushed(h, q) \in Seq(Cqe) /\ Len(Flushed(h, q)) = Len(q)
           /\ WorkOf(Flushed(h, q)) = Range(q) /\ NoTwice(Flushed(h, q))
           /\ \A i \in DOMAIN Flushed(h, q) :
                Flushed(h, q)[i].jetty_id = h /\ \A g : ~Filled(Flushed(h, q)[i], g)
<1> DEFINE f == Flushed(h, q)
<1>1. DOMAIN q = 1..Len(q) /\ Len(q) \in Nat /\ \A i \in DOMAIN q : q[i] \in Work
  OBVIOUS
<1>2. /\ DOMAIN f = DOMAIN q
      /\ \A i \in DOMAIN q : f[i].work = q[i] /\ f[i].status = "FLUSHED" /\ f[i].jetty_id = h
  BY DEF Flushed
<1>3. \A i \in DOMAIN q : [work |-> q[i], status |-> "FLUSHED", jetty_id |-> h] \in Cqe
  BY <1>1, JettyAssumption DEF Cqe, Work
<1>4. f \in [1..Len(q) -> Cqe]
  BY Zenon, <1>1, <1>3 DEF Flushed
<1>5. f \in Seq(Cqe) /\ Len(f) = Len(q)
  <2> HIDE DEF f
  <2> QED
    BY <1>1, <1>4
<1>6. WorkOf(f) = Range(q)
  <2> HIDE DEF f
  <2> QED
    BY <1>2 DEF WorkOf, Range
<1>7. \A i, j \in DOMAIN q : q[i] = q[j] => i = j
  BY SMTT(30), <1>1, JettyAssumption DEF Increasing, Work
<1>8. NoTwice(f)
  BY ZenonT(60), <1>2, <1>7 DEF NoTwice
<1>9. \A i \in DOMAIN f : f[i].jetty_id = h /\ \A g : ~Filled(f[i], g)
  <2>1. "FLUSHED" # "OK"
    OBVIOUS
  <2> QED
    BY Zenon, <1>2, <2>1 DEF Filled
<1> QED
  BY Zenon, <1>5, <1>6, <1>8, <1>9

LEMMA ConcatInOrder ==
    ASSUME NEW c \in Seq(Cqe), NEW d \in Seq(Cqe), NEW h, InOrder(c, h),
           \A i \in DOMAIN d : ~Filled(d[i], h)
    PROVE  /\ InOrder(c \o d, h)
           /\ \A i \in DOMAIN (c \o d) :
                Filled((c \o d)[i], h) => i \in DOMAIN c /\ (c \o d)[i] = c[i]
<1> DEFINE e == c \o d
           n == Len(c)
<1>1. \A i \in DOMAIN e :
           \/ i \in DOMAIN c /\ e[i] = c[i]
           \/ i \notin DOMAIN c /\ i - n \in DOMAIN d /\ e[i] = d[i - n]
  BY ConcatOf
<1> HIDE DEF e, n
<1>2. \A i \in DOMAIN e : Filled(e[i], h) => i \in DOMAIN c /\ e[i] = c[i]
  BY Zenon, <1>1
<1>3. InOrder(e, h)
  BY Zenon, <1>2 DEF InOrder
<1> QED
  BY <1>2, <1>3 DEF e

-----------------------------------------------------------------------------
(* Work moves from spot to spot.                                           *)

\* If W comes to the spot b from wherever it was, everything stays owned once.
LEMMA MoveKeeps ==
    ASSUME Owned, NEW b \in Spots, NEW W, 1..posted' = (1..posted) \union W,
           \A x \in Spots : x # b => Content(x)' = Content(x) \ W,
           Content(b)' = Content(b) \union W
    PROVE  Owned'
<1>1. ASSUME NEW x \in Spots, NEW w \in Content(x)'
      PROVE  w \in 1..posted'
  <2>1. w \in Content(x) \/ w \in W
    BY Zenon, <1>1
  <2>2. w \in Content(x) => w \in 1..posted
    BY Zenon DEF Owned
  <2> QED
    BY Zenon, <2>1, <2>2
<1>2. ASSUME NEW w \in 1..posted'
      PROVE  \E x \in Spots : w \in Content(x)'
  <2>1. CASE w \in W
    BY Zenon, <2>1
  <2>2. CASE w \notin W
    <3>1. w \in 1..posted
      BY Zenon, <1>2, <2>2
    <3>2. PICK x \in Spots : w \in Content(x)
      BY Zenon, <3>1 DEF Owned
    <3> QED
      BY Zenon, <2>2, <3>2
  <2> QED
    BY <2>1, <2>2
<1>3. ASSUME NEW x \in Spots, NEW y \in Spots, NEW w, w \in Content(x)', w \in Content(y)'
      PROVE  x = y
  <2>1. CASE w \in W
    <3>1. x = b
      BY Zenon, <1>3, <2>1
    <3>2. y = b
      BY Zenon, <1>3, <2>1
    <3> QED
      BY <3>1, <3>2
  <2>2. CASE w \notin W
    <3>1. w \in Content(x)
      BY Zenon, <1>3, <2>2
    <3>2. w \in Content(y)
      BY Zenon, <1>3, <2>2
    <3> QED
      BY Zenon, <3>1, <3>2 DEF Owned
  <2> QED
    BY <2>1, <2>2
<1> QED
  BY Zenon, <1>1, <1>2, <1>3 DEF Owned

LEMMA FateAtIs ==
    /\ \A h : FateAt(<<"jfs", h>>) = "posted" /\ FateAt(<<"jfr", h>>) = "posted" /\ FateAt(<<"jfc", h>>) = "done"
    /\ FateAt(<<"polled", 0>>) = "reaped" /\ FateAt(<<"handler", 0>>) = "taken"
    /\ FateAt(<<"handed", 0>>) = "taken" /\ FateAt(<<"dropped", 0>>) = "dropped"
BY DEF FateAt

LEMMA MoveFrom ==
    ASSUME Owned, posted' = posted, NEW a \in Spots, NEW b \in Spots, NEW w, a # b,
           w \in Content(a), Content(a)' = Content(a) \ {w}, Content(b)' = Content(b) \union {w},
           \A x \in Spots : x # a /\ x # b => Content(x)' = Content(x),
           \/ FateAt(a) = "posted" /\ FateAt(b) = "taken"
           \/ FateAt(a) = "taken" /\ FateAt(b) = "done"
           \/ FateAt(a) = "taken" /\ FateAt(b) = "dropped"
           \/ FateAt(a) = "done" /\ FateAt(b) = "reaped"
    PROVE  Owned' /\ Carries
<1>1. ASSUME NEW x \in Spots, x # b
      PROVE  Content(x)' = Content(x) \ {w}
  <2>1. CASE x = a
    BY Zenon, <2>1
  <2>2. CASE x # a
    <3>1. w \notin Content(x)
      BY Zenon, <2>2 DEF Owned
    <3>2. Content(x)' = Content(x)
      BY Zenon, <1>1, <2>2
    <3> QED
      BY Zenon, <3>1, <3>2
  <2> QED
    BY Zenon, <2>1, <2>2
<1>2. 1..posted' = (1..posted) \union {w}
  <2>1. w \in 1..posted
    BY Zenon DEF Owned
  <2> QED
    BY Zenon, <2>1
<1>3. Owned'
  BY Zenon, <1>1, <1>2, MoveKeeps
<1>4. \A x \in Spots : \A v \in Content(x) : v \in {w} \/ v \in Content(x)'
  BY Zenon, <1>1
<1>5. /\ \E x \in Spots : w \in Content(x) /\ FateAt(x) = FateAt(a)
      /\ \E x \in Spots : w \in Content(x)' /\ FateAt(x) = FateAt(b)
  BY Zenon
<1>6. Carried({w}, FateAt(a), FateAt(b))
  BY Zenon, <1>4, <1>5 DEF Carried
<1> QED
  BY Zenon, <1>3, <1>6 DEF Carries

LEMMA MovePosted ==
    ASSUME Owned, posted \in Nat, posted' = posted + 1, NEW b \in Spots, FateAt(b) = "posted",
           Content(b)' = Content(b) \union {posted'},
           \A x \in Spots : x # b => Content(x)' = Content(x)
    PROVE  Owned' /\ Carries
<1>1. 1..posted' = (1..posted) \union {posted'} /\ posted' \notin 1..posted
  OBVIOUS
<1>2. ASSUME NEW x \in Spots, x # b
      PROVE  Content(x)' = Content(x) \ {posted'}
  <2>1. posted' \notin Content(x) /\ Content(x)' = Content(x)
    BY Zenon, <1>1, <1>2 DEF Owned
  <2> QED
    BY Zenon, <2>1
<1>3. Owned'
  BY Zenon, <1>1, <1>2, MoveKeeps
<1>4. \A x \in Spots : Content(x) \subseteq Content(x)'
  BY Zenon
<1>5. \E x \in Spots : posted' \in Content(x)' /\ FateAt(x) = "posted"
  BY Zenon
<1> QED
  BY Zenon, <1>3, <1>4, <1>5 DEF Carries

LEMMA NothingMoves ==
    ASSUME Owned, posted' = posted, \A x \in Spots : Content(x)' = Content(x)
    PROVE  Owned' /\ Carries
<1>1. \A x \in Spots : \A w : w \in Content(x)' <=> w \in Content(x)
  BY Zenon
<1>2. <<"handed", 0>> \in Spots
  BY DEF Spots
<1>3. /\ 1..posted' = (1..posted) \union {}
      /\ \A x \in Spots : Content(x)' = Content(x) \ {} /\ Content(x)' = Content(x) \union {}
  BY Zenon, <1>1
<1>4. Owned'
  BY Zenon, <1>2, <1>3, MoveKeeps
<1>5. Carried({}, "posted", "done")
  BY Zenon, <1>1 DEF Carried
<1> QED
  BY Zenon, <1>4, <1>5 DEF Carries

LEMMA Apart ==
    ASSUME Owned, NEW x \in Spots, NEW y \in Spots, x # y
    PROVE  (\A w \in Content(x) : w \notin Content(y)) /\ Content(x) \subseteq 1..posted
BY Zenon DEF Owned

\* What is at each spot.
LEMMA ContentIs ==
    /\ \A h \in Handles :
         /\ Content(<<"jfs", h>>) = Range(jetty[h].jfs)
         /\ Content(<<"jfr", h>>) = Range(jetty[h].jfr)
         /\ Content(<<"jfc", h>>) = WorkOf(jetty[h].jfc) \ {0}
    /\ Content(<<"polled", 0>>) = WorkOf(polled)
    /\ Content(<<"handler", 0>>) = IF handler.pc = "matched" THEN {handler.w} ELSE {}
    /\ Content(<<"handed", 0>>) = handed
    /\ Content(<<"dropped", 0>>) = dropped
BY DEF Content

LEMMA ContentWillBe ==
    /\ \A h \in Handles' :
         /\ Content(<<"jfs", h>>)' = Range(jetty'[h].jfs)
         /\ Content(<<"jfr", h>>)' = Range(jetty'[h].jfr)
         /\ Content(<<"jfc", h>>)' = WorkOf(jetty'[h].jfc) \ {0}
    /\ Content(<<"polled", 0>>)' = WorkOf(polled')
    /\ Content(<<"handler", 0>>)' = IF handler'.pc = "matched" THEN {handler'.w} ELSE {}
    /\ Content(<<"handed", 0>>)' = handed'
    /\ Content(<<"dropped", 0>>)' = dropped'
BY DEF Content

\* A step that rewrites the Jetty g leaves a spot alone if it leaves alone
\* the queue, the list or the hands that the spot stands for.
LEMMA SpotKept ==
    ASSUME NEW g \in Handles, NEW r, jetty' = [jetty EXCEPT ![g] = r], NEW x \in Spots,
           x = <<"jfs", g>> => r.jfs = jetty[g].jfs,
           x = <<"jfr", g>> => r.jfr = jetty[g].jfr,
           x = <<"jfc", g>> => r.jfc = jetty[g].jfc,
           x = <<"polled", 0>> => polled' = polled,
           x = <<"handler", 0>> => Content(x)' = Content(x),
           x = <<"handed", 0>> => handed' = handed,
           x = <<"dropped", 0>> => dropped' = dropped
    PROVE  Content(x)' = Content(x)
<1>1. Handles' = Handles
  BY DEF Handles
<1>2. \A h \in Handles : jetty'[h] = IF h = g THEN r ELSE jetty[h]
  BY DEF Handles
<1>3. x = <<x[1], x[2]>> /\ x[1] \in {"jfs", "jfr", "jfc", "polled", "handler", "handed", "dropped"}
  BY DEF Spots
<1>4. x[1] \in {"polled", "handler", "handed", "dropped"} => x[2] = 0
  BY DEF Spots
<1>5. CASE x[1] = "jfs"
  <2>1. x[2] \in Handles => jetty'[x[2]].jfs = jetty[x[2]].jfs
    BY Zenon, <1>2, <1>3, <1>5
  <2> QED
    BY <1>1, <1>5, <2>1 DEF Content
<1>6. CASE x[1] = "jfr"
  <2>1. x[2] \in Handles => jetty'[x[2]].jfr = jetty[x[2]].jfr
    BY Zenon, <1>2, <1>3, <1>6
  <2> QED
    BY <1>1, <1>6, <2>1 DEF Content
<1>7. CASE x[1] = "jfc"
  <2>1. x[2] \in Handles => jetty'[x[2]].jfc = jetty[x[2]].jfc
    BY Zenon, <1>2, <1>3, <1>7
  <2> QED
    BY <1>1, <1>7, <2>1 DEF Content
<1>8. CASE x[1] = "polled"
  <2>1. polled' = polled
    BY Zenon, <1>3, <1>4, <1>8
  <2> QED
    BY <1>8, <2>1 DEF Content
<1>9. CASE x[1] = "handler"
  BY Zenon, <1>3, <1>4, <1>9
<1>10. CASE x[1] = "handed"
  <2>1. handed' = handed
    BY Zenon, <1>3, <1>4, <1>10
  <2> QED
    BY <1>10, <2>1 DEF Content
<1>11. CASE x[1] = "dropped"
  <2>1. dropped' = dropped
    BY Zenon, <1>3, <1>4, <1>11
  <2> QED
    BY <1>11, <2>1 DEF Content
<1> QED
  BY Zenon, <1>3, <1>5, <1>6, <1>7, <1>8, <1>9, <1>10, <1>11

-----------------------------------------------------------------------------
(* A step on the Jetty g, whose state becomes r.                           *)

LEMMA Fields ==
    ASSUME NEW q \in JettyState
    PROVE  /\ q.jfs \in Seq(Work) /\ q.jfr \in Seq(Work) /\ q.jfc \in Seq(Cqe)
           /\ q.created \in BOOLEAN /\ q.life \in Life /\ q.mark \in 0..MaxWork
BY DEF JettyState

LEMMA JfsChanged ==
    ASSUME NEW q \in JettyState, NEW s \in Seq(Work)
    PROVE  LET r == [q EXCEPT !.jfs = s] IN
             /\ r \in JettyState /\ r.jfs = s /\ r.jfr = q.jfr /\ r.jfc = q.jfc
             /\ r.life = q.life /\ r.mark = q.mark
BY Zenon DEF JettyState

LEMMA JfrChanged ==
    ASSUME NEW q \in JettyState, NEW s \in Seq(Work)
    PROVE  LET r == [q EXCEPT !.jfr = s] IN
             /\ r \in JettyState /\ r.jfs = q.jfs /\ r.jfr = s /\ r.jfc = q.jfc
             /\ r.life = q.life /\ r.mark = q.mark
BY Zenon DEF JettyState

LEMMA JfcChanged ==
    ASSUME NEW q \in JettyState, NEW s \in Seq(Cqe)
    PROVE  LET r == [q EXCEPT !.jfc = s] IN
             /\ r \in JettyState /\ r.jfs = q.jfs /\ r.jfr = q.jfr /\ r.jfc = s
             /\ r.life = q.life /\ r.mark = q.mark
BY Zenon DEF JettyState

LEMMA Rewritten ==
    ASSUME Types, NEW g \in Handles, NEW r \in JettyState, jetty' = [jetty EXCEPT ![g] = r]
    PROVE  /\ Handles' = Handles /\ jetty' \in Seq(JettyState) /\ Len(jetty') = Len(jetty)
           /\ Handles = 1..Len(jetty) /\ g \in 1..MaxJettys /\ jetty[g] \in JettyState
           /\ jetty'[g] = r /\ \A h \in Handles : h # g => jetty'[h] = jetty[h]
<1>1. jetty \in Seq(JettyState) /\ Len(jetty) <= MaxJettys /\ g \in DOMAIN jetty
  BY DEF Types, Handles
<1>2. DOMAIN jetty = 1..Len(jetty) /\ Len(jetty) \in Nat /\ jetty[g] \in JettyState
  BY <1>1
<1>3. jetty' \in Seq(JettyState) /\ Len(jetty') = Len(jetty) /\ DOMAIN jetty' = DOMAIN jetty
  BY <1>1
<1>4. g \in 1..MaxJettys
  BY <1>1, <1>2, JettyAssumption
<1> QED
  BY Zenon, <1>1, <1>2, <1>3, <1>4 DEF Handles

\* Another Jetty's order does not depend on what the handler has at g.
LEMMA SortedElsewhere ==
    ASSUME NEW h, NEW r, NEW cqes, NEW e, NEW f, Sorted(h, r, cqes, e),
           f = e \/ f.pc # "matched" \/ f.h # h
    PROVE  Sorted(h, r, cqes, f)
BY Zenon DEF Sorted

LEMMA GoodLater ==
    ASSUME NEW h, NEW r \in JettyState, NEW n \in Nat, NEW m \in Nat, n <= m, Good(h, r, n)
    PROVE  Good(h, r, m)
<1>1. r.mark \in Nat
  BY Fields, JettyAssumption
<1>2. r.mark <= n => r.mark <= m
  BY <1>1
<1> QED
  BY Zenon, <1>2 DEF Good

\* The invariant after such a step, part by part.
LEMMA StepOn ==
    ASSUME IInv, NEW g \in Handles, NEW r \in JettyState, jetty' = [jetty EXCEPT ![g] = r],
           Types', Owned', NoTwice(polled'), posted <= posted',
           Good(g, r, posted'), Sorted(g, r, polled', handler'),
           \A h \in Handles : h # g => Sorted(h, jetty[h], polled', handler')
    PROVE  IInv'
<1>1. Types /\ posted \in Nat /\ posted' \in Nat
  BY SMTT(30) DEF IInv, Types
<1>2. /\ Handles' = Handles /\ jetty'[g] = r
      /\ \A h \in Handles : h # g => jetty'[h] = jetty[h]
  BY Zenon, <1>1, Rewritten
<1>3. ASSUME NEW h \in Handles
      PROVE  Good(h, jetty'[h], posted') /\ Sorted(h, jetty'[h], polled', handler')
  <2>1. CASE h = g
    BY Zenon, <1>2, <2>1
  <2>2. CASE h # g
    <3>1. jetty[h] \in JettyState
      BY SMTT(30), <1>1 DEF Types, Handles
    <3>2. Good(h, jetty[h], posted)
      BY Zenon DEF IInv
    <3>3. Good(h, jetty[h], posted')
      BY <1>1, <3>1, <3>2, GoodLater
    <3> QED
      BY Zenon, <1>2, <2>2, <3>3
  <2> QED
    BY <2>1, <2>2
<1> QED
  BY Zenon, <1>2, <1>3 DEF IInv

\* A step that leaves the Jettys and the lists alone.
LEMMA StepOff ==
    ASSUME IInv, jetty' = jetty, posted' = posted, polled' = polled, handed' = handed,
           dropped' = dropped, Types', Content(<<"handler", 0>>)' = Content(<<"handler", 0>>),
           \A h \in Handles : handler' = handler \/ handler'.pc # "matched" \/ handler'.h # h
    PROVE  IInv' /\ Carries
<1>1. ASSUME NEW x \in Spots
      PROVE  Content(x)' = Content(x)
  <2>1. x = <<x[1], x[2]>> /\ x[1] \in {"jfs", "jfr", "jfc", "polled", "handler", "handed", "dropped"}
    BY DEF Spots
  <2>2. x[1] = "handler" => x = <<"handler", 0>>
    BY DEF Spots
  <2>3. CASE x[1] = "handler"
    BY Zenon, <2>2, <2>3
  <2>4. CASE x[1] # "handler"
    BY <2>1, <2>4 DEF Content, Handles
  <2> QED
    BY <2>3, <2>4
<1>2. Owned' /\ Carries
  BY Zenon, <1>1, NothingMoves DEF IInv
<1>3. ASSUME NEW h \in Handles
      PROVE  Sorted(h, jetty[h], polled, handler')
  <2>1. Sorted(h, jetty[h], polled, handler)
    BY Zenon DEF IInv
  <2> QED
    BY Zenon, <2>1, SortedElsewhere
<1> QED
  BY Zenon, <1>2, <1>3 DEF IInv, Handles

-----------------------------------------------------------------------------
(* The table.                                                              *)

\* Only marks of the Jetty g change.
LEMMA Relabelled ==
    ASSUME IInv, NEW g \in Handles, NEW r \in JettyState, jetty' = [jetty EXCEPT ![g] = r],
           r.jfs = jetty[g].jfs, r.jfr = jetty[g].jfr, r.jfc = jetty[g].jfc, r.mark = jetty[g].mark,
           r.life = "closed" <=> jetty[g].life = "closed", default' \in 0..MaxJettys,
           UNCHANGED <<posted, sending, handler, polled, dropped, handed>>
    PROVE  IInv' /\ Carries
<1>1. Types /\ posted \in Nat /\ posted <= posted'
  BY DEF IInv, Types
<1>2. Handles' = Handles /\ jetty' \in Seq(JettyState) /\ Len(jetty') = Len(jetty)
  BY Zenon, <1>1, Rewritten
<1>3. Types'
  BY Zenon, <1>1, <1>2 DEF Types
<1>4. Content(<<"handler", 0>>)' = Content(<<"handler", 0>>)
  BY Zenon, ContentIs, ContentWillBe
<1>5. \A x \in Spots : Content(x)' = Content(x)
  BY ZenonT(60), <1>4, SpotKept
<1>6. Owned' /\ Carries
  BY Zenon, <1>5, NothingMoves DEF IInv
<1>7. Good(g, jetty[g], posted) /\ Sorted(g, jetty[g], polled, handler)
  BY Zenon DEF IInv
<1>8. Good(g, r, posted')
  BY Zenon, <1>7 DEF Good
<1>9. Sorted(g, r, polled', handler')
  BY Zenon, <1>7 DEF Sorted
<1>10. NoTwice(polled') /\ \A h \in Handles : h # g => Sorted(h, jetty[h], polled', handler')
  BY Zenon DEF IInv
<1> QED
  BY Zenon, <1>1, <1>3, <1>6, <1>8, <1>9, <1>10, StepOn

LEMMA MarksChanged ==
    ASSUME NEW q \in JettyState, NEW l \in Life
    PROVE  /\ LET r == [q EXCEPT !.created = TRUE] IN
                /\ r \in JettyState /\ r.jfs = q.jfs /\ r.jfr = q.jfr /\ r.jfc = q.jfc
                /\ r.life = q.life /\ r.mark = q.mark
           /\ LET r == [q EXCEPT !.life = l] IN
                /\ r \in JettyState /\ r.jfs = q.jfs /\ r.jfr = q.jfr /\ r.jfc = q.jfc
                /\ r.life = l /\ r.mark = q.mark
BY Zenon DEF JettyState

LEMMA HandleFacts ==
    ASSUME IInv, NEW h \in Handles
    PROVE  /\ h \in 1..MaxJettys /\ h \in 1..Len(jetty) /\ h \in Nat /\ jetty[h] \in JettyState
           /\ Good(h, jetty[h], posted) /\ Sorted(h, jetty[h], polled, handler)
<1>1. jetty \in Seq(JettyState) /\ Len(jetty) <= MaxJettys
  BY DEF IInv, Types
<1>2. h \in 1..Len(jetty) /\ Len(jetty) \in Nat /\ jetty[h] \in JettyState
  BY <1>1 DEF Handles
<1> QED
  BY <1>1, <1>2, JettyAssumption DEF IInv

LEMMA TableStep ==
    ASSUME IInv, NEW h \in Handles,
           create_default(h) \/ deregister_remove(h) \/ deregister_default(h)
    PROVE  IInv' /\ Carries
<1>1. h \in 1..MaxJettys /\ jetty[h] \in JettyState
  BY HandleFacts
<1>2. default \in 0..MaxJettys /\ h \in 0..MaxJettys /\ 0 \in 0..MaxJettys
  BY <1>1, JettyAssumption DEF IInv, Types
<1>3. "removed" \in Life /\ "cleared" \in Life
  BY DEF Life
<1>4. CASE create_default(h)
  <2> DEFINE r == [jetty[h] EXCEPT !.created = TRUE]
  <2>1. jetty' = [jetty EXCEPT ![h] = r] /\ default' \in 0..MaxJettys
    BY Zenon, <1>2, <1>4 DEF create_default
  <2>2. /\ r \in JettyState /\ r.jfs = jetty[h].jfs /\ r.jfr = jetty[h].jfr /\ r.jfc = jetty[h].jfc
        /\ r.life = jetty[h].life /\ r.mark = jetty[h].mark
    BY Zenon, <1>1, <1>3, MarksChanged
  <2>3. UNCHANGED <<posted, sending, handler, polled, dropped, handed>>
    BY Zenon, <1>4 DEF create_default
  <2> HIDE DEF r
  <2> QED
    BY Zenon, <2>1, <2>2, <2>3, Relabelled
<1>5. CASE deregister_remove(h)
  <2> DEFINE r == [jetty[h] EXCEPT !.life = "removed"]
  <2>1. jetty' = [jetty EXCEPT ![h] = r] /\ default' \in 0..MaxJettys
    BY Zenon, <1>2, <1>5 DEF deregister_remove
  <2>2. /\ r \in JettyState /\ r.jfs = jetty[h].jfs /\ r.jfr = jetty[h].jfr /\ r.jfc = jetty[h].jfc
        /\ r.life = "removed" /\ r.mark = jetty[h].mark
    BY Zenon, <1>1, <1>3, MarksChanged
  <2>3. UNCHANGED <<posted, sending, handler, polled, dropped, handed>> /\ jetty[h].life = "listed"
    BY Zenon, <1>5 DEF deregister_remove
  <2>4. r.life # "closed" /\ jetty[h].life # "closed"
    BY <2>2, <2>3
  <2> HIDE DEF r
  <2> QED
    BY Zenon, <2>1, <2>2, <2>3, <2>4, Relabelled
<1>6. CASE deregister_default(h)
  <2> DEFINE r == [jetty[h] EXCEPT !.life = "cleared"]
  <2>1. jetty' = [jetty EXCEPT ![h] = r] /\ default' \in 0..MaxJettys
    BY Zenon, <1>2, <1>6 DEF deregister_default
  <2>2. /\ r \in JettyState /\ r.jfs = jetty[h].jfs /\ r.jfr = jetty[h].jfr /\ r.jfc = jetty[h].jfc
        /\ r.life = "cleared" /\ r.mark = jetty[h].mark
    BY ZenonT(60), <1>1, <1>3, MarksChanged
  <2>3. UNCHANGED <<posted, sending, handler, polled, dropped, handed>> /\ jetty[h].life = "removed"
    BY Zenon, <1>6 DEF deregister_default
  <2>4. r.life # "closed" /\ jetty[h].life # "closed"
    BY <2>2, <2>3
  <2> HIDE DEF r
  <2> QED
    BY Zenon, <2>1, <2>2, <2>3, <2>4, Relabelled
<1> QED
  BY Zenon, <1>4, <1>5, <1>6

\* A new Jetty is empty.
LEMMA CreateStep ==
    ASSUME IInv, create_insert
    PROVE  IInv' /\ Carries
<1> DEFINE n == Len(jetty) + 1
           r == [jfs |-> <<>>, jfr |-> <<>>, jfc |-> <<>>,
                 created |-> FALSE, life |-> "listed", mark |-> 0]
<1>1. /\ jetty \in Seq(JettyState) /\ Len(jetty) < MaxJettys /\ jetty' = Append(jetty, r)
      /\ UNCHANGED <<default, posted, sending, handler, polled, dropped, handed>>
  BY DEF IInv, Types, create_insert
<1>2. /\ r \in JettyState /\ r.jfs = <<>> /\ r.jfr = <<>> /\ r.jfc = <<>> /\ r.life = "listed" /\ r.mark = 0
  BY JettyAssumption DEF JettyState, Life
<1> HIDE DEF r
<1>3. /\ jetty' \in Seq(JettyState) /\ Len(jetty') = Len(jetty) + 1 /\ Len(jetty) \in Nat
      /\ Handles' = Handles \union {n} /\ n \notin Handles /\ jetty'[n] = r
      /\ \A h \in Handles : jetty'[h] = jetty[h]
  BY <1>1, <1>2 DEF Handles
<1>4. Len(jetty') <= MaxJettys /\ sending' \in [Senders -> 0..Len(jetty')]
  <2>1. 0..Len(jetty) \subseteq 0..Len(jetty') /\ sending \in [Senders -> 0..Len(jetty)]
    BY <1>3 DEF IInv, Types
  <2>2. sending \in [Senders -> 0..Len(jetty')]
    BY <2>1
  <2> QED
    BY <1>1, <1>3, <2>2, JettyAssumption
<1>5. Types'
  BY Zenon, <1>1, <1>3, <1>4 DEF IInv, Types
<1>6. Range(<<>>) = {} /\ WorkOf(<<>>) = {} /\ DOMAIN <<>> = {} /\ Len(<<>>) = 0
  BY DEF Range, WorkOf
<1>7. ASSUME NEW x \in Spots
      PROVE  Content(x)' = Content(x)
  <2>1. x[1] \in {"jfs", "jfr", "jfc", "polled", "handler", "handed", "dropped"}
    BY DEF Spots
  <2>2. CASE x[1] = "jfs"
    BY Zenon, <1>2, <1>3, <1>6, <2>2 DEF Content
  <2>3. CASE x[1] = "jfr"
    BY Zenon, <1>2, <1>3, <1>6, <2>3 DEF Content
  <2>4. CASE x[1] = "jfc"
    BY ZenonT(60), <1>2, <1>3, <1>6, <2>4 DEF Content
  <2>5. CASE x[1] \in {"polled", "handler", "handed", "dropped"}
    BY <1>1, <2>5 DEF Content
  <2> QED
    BY <2>1, <2>2, <2>3, <2>4, <2>5
<1>8. Owned' /\ Carries
  BY Zenon, <1>1, <1>7, NothingMoves DEF IInv
<1>9. Good(n, r, posted)
  <2>1. posted \in Nat /\ "listed" # "closed"
    BY DEF IInv, Types
  <2> QED
    BY <1>2, <1>6, <2>1, JettyAssumption DEF Good, Increasing, NoTwice
<1>10. Sorted(n, r, polled, handler)
  <2>1. \A i \in DOMAIN polled : ~Filled(polled[i], n)
    BY Zenon, <1>3 DEF IInv, Types, Filled
  <2>2. ~(handler.pc = "matched" /\ handler.h = n)
    <3>1. handler.pc = "matched" => handler.pc # "idle"
      OBVIOUS
    <3> QED
      BY Zenon, <1>3, <3>1 DEF IInv, Types
  <2> QED
    BY Zenon, <1>2, <1>6, <2>1, <2>2 DEF Sorted, InOrder
<1>11. ASSUME NEW h \in Handles'
       PROVE  Good(h, jetty'[h], posted') /\ Sorted(h, jetty'[h], polled', handler')
  BY Zenon, <1>1, <1>3, <1>9, <1>10 DEF IInv
<1> QED
  BY Zenon, <1>1, <1>5, <1>8, <1>11 DEF IInv

LEMMA SpotsApart ==
    /\ \A h \in Nat : <<"jfs", h>> \in Spots /\ <<"jfr", h>> \in Spots /\ <<"jfc", h>> \in Spots
    /\ <<"polled", 0>> \in Spots /\ <<"handler", 0>> \in Spots
    /\ <<"handed", 0>> \in Spots /\ <<"dropped", 0>> \in Spots
    /\ \A h, g : /\ <<"jfs", h>> # <<"jfr", g>> /\ <<"jfs", h>> # <<"jfc", g>>
                 /\ <<"jfs", h>> # <<"polled", g>> /\ <<"jfs", h>> # <<"handler", g>>
                 /\ <<"jfs", h>> # <<"handed", g>> /\ <<"jfs", h>> # <<"dropped", g>>
                 /\ <<"jfr", h>> # <<"jfc", g>> /\ <<"jfr", h>> # <<"polled", g>>
                 /\ <<"jfr", h>> # <<"handler", g>> /\ <<"jfr", h>> # <<"handed", g>>
                 /\ <<"jfr", h>> # <<"dropped", g>> /\ <<"jfc", h>> # <<"polled", g>>
                 /\ <<"jfc", h>> # <<"handler", g>> /\ <<"jfc", h>> # <<"handed", g>>
                 /\ <<"jfc", h>> # <<"dropped", g>> /\ <<"polled", h>> # <<"handler", g>>
                 /\ <<"polled", h>> # <<"handed", g>> /\ <<"polled", h>> # <<"dropped", g>>
                 /\ <<"handler", h>> # <<"handed", g>> /\ <<"handler", h>> # <<"dropped", g>>
                 /\ <<"handed", h>> # <<"dropped", g>>
BY DEF Spots

AsClosed(q, m, s) ==
    [q EXCEPT !.life = "closed", !.mark = m, !.jfs = <<>>, !.jfr = <<>>, !.jfc = s]

LEMMA ClosedJetty ==
    ASSUME NEW q \in JettyState, NEW m \in 0..MaxWork, NEW s \in Seq(Cqe)
    PROVE  LET r == AsClosed(q, m, s) IN
             /\ r \in JettyState /\ r.jfs = <<>> /\ r.jfr = <<>> /\ r.jfc = s
             /\ r.life = "closed" /\ r.mark = m
<1>1. "closed" \in Life /\ <<>> \in Seq(Work)
  BY DEF Life
<1> QED
  BY Zenon, <1>1 DEF JettyState, AsClosed

\* close moves both queues into the completion queue.
LEMMA CloseStep ==
    ASSUME IInv, NEW h \in Handles, close(h)
    PROVE  IInv' /\ Carries
<1> DEFINE q == jetty[h]
           d1 == Flushed(h, q.jfs)
           d2 == Flushed(h, q.jfr)
           c1 == q.jfc \o d1
           c == q.jfc \o d1 \o d2
           r == AsClosed(q, posted, c)
           W == Range(q.jfs) \union Range(q.jfr)
           b == <<"jfc", h>>
<1>1. /\ h \in 1..MaxJettys /\ h \in Nat /\ q \in JettyState
      /\ Good(h, q, posted) /\ Sorted(h, q, polled, handler)
      /\ q.jfs \in Seq(Work) /\ q.jfr \in Seq(Work) /\ q.jfc \in Seq(Cqe)
  BY HandleFacts, Fields
<1>2. Types /\ Owned /\ posted \in 0..MaxWork /\ posted \in Nat
  BY DEF IInv, Types
<1>3. /\ jetty' = [jetty EXCEPT ![h] = r] /\ q.life = "cleared"
      /\ UNCHANGED <<default, posted, sending, handler, polled, dropped, handed>>
  BY Zenon DEF close, AsClosed
<1>4. /\ d1 \in Seq(Cqe) /\ Len(d1) = Len(q.jfs) /\ WorkOf(d1) = Range(q.jfs) /\ NoTwice(d1)
      /\ \A i \in DOMAIN d1 : d1[i].jetty_id = h /\ \A g : ~Filled(d1[i], g)
      /\ d2 \in Seq(Cqe) /\ Len(d2) = Len(q.jfr) /\ WorkOf(d2) = Range(q.jfr) /\ NoTwice(d2)
      /\ \A i \in DOMAIN d2 : d2[i].jetty_id = h /\ \A g : ~Filled(d2[i], g)
  BY Zenon, <1>1, FlushedOf DEF Good
<1>5. /\ Content(<<"jfs", h>>) = Range(q.jfs) /\ Content(<<"jfr", h>>) = Range(q.jfr)
      /\ Content(b) = WorkOf(q.jfc) \ {0}
  BY Zenon, ContentIs
<1>6. /\ \A w \in Range(q.jfs) : w \notin WorkOf(q.jfc) \ {0} /\ w \notin Range(q.jfr)
      /\ \A w \in Range(q.jfr) : w \notin WorkOf(q.jfc) \ {0}
      /\ W \subseteq 1..posted
  <2>1. /\ <<"jfs", h>> \in Spots /\ <<"jfr", h>> \in Spots /\ b \in Spots
        /\ <<"jfs", h>> # <<"jfr", h>> /\ <<"jfs", h>> # b /\ <<"jfr", h>> # b
    BY Zenon, <1>1, SpotsApart
  <2> HIDE DEF b, q
  <2>2. /\ \A w \in Content(<<"jfs", h>>) : w \notin Content(<<"jfr", h>>)
        /\ Content(<<"jfs", h>>) \subseteq 1..posted
    BY Zenon, <1>2, <2>1, Apart
  <2>3. (\A w \in Content(<<"jfr", h>>) : w \notin Content(b)) /\ Content(<<"jfr", h>>) \subseteq 1..posted
    BY Zenon, <1>2, <2>1, Apart
  <2>4. \A w \in Content(<<"jfs", h>>) : w \notin Content(b)
    BY Zenon, <1>2, <2>1, Apart
  <2> QED
    BY Zenon, <1>5, <2>2, <2>3, <2>4
<1>7. c1 \in Seq(Cqe) /\ c \in Seq(Cqe) /\ Len(c) = Len(q.jfc) + Len(q.jfs) + Len(q.jfr)
  <2> HIDE DEF d1, d2, q
  <2>1. c1 \in Seq(Cqe) /\ Len(c1) = Len(q.jfc) + Len(d1)
    BY Zenon, <1>1, <1>4, ConcatLen
  <2> HIDE DEF c1
  <2>2. c1 \o d2 \in Seq(Cqe) /\ Len(c1 \o d2) = Len(c1) + Len(d2)
    BY Zenon, <1>4, <2>1, ConcatLen
  <2> QED
    BY Zenon, <1>4, <2>1, <2>2 DEF c1
<1>8. WorkOf(c1) = WorkOf(q.jfc) \union Range(q.jfs) /\ NoTwice(c1)
  <2> HIDE DEF d1, d2
  <2>1. \A w \in WorkOf(q.jfc) \ {0} : w \notin WorkOf(d1)
    BY Zenon, <1>4, <1>6
  <2>2. NoTwice(q.jfc)
    BY Zenon, <1>1 DEF Good
  <2> QED
    BY Zenon, <1>1, <1>4, <2>1, <2>2, ConcatCqes
<1>9. WorkOf(c) = WorkOf(q.jfc) \union W /\ NoTwice(c)
  <2> HIDE DEF d1, d2
  <2>1. \A w \in WorkOf(c1) \ {0} : w \notin WorkOf(d2)
    BY Zenon, <1>4, <1>6, <1>8
  <2>2. WorkOf(c) = WorkOf(c1) \union WorkOf(d2) /\ NoTwice(c)
    BY Zenon, <1>4, <1>7, <1>8, <2>1, ConcatCqes
  <2> QED
    BY Zenon, <1>4, <1>8, <2>2
<1>10. ASSUME NEW g, InOrder(q.jfc, g)
       PROVE  /\ InOrder(c, g)
              /\ \A i \in DOMAIN c : Filled(c[i], g) => i \in DOMAIN q.jfc /\ c[i] = q.jfc[i]
  <2> HIDE DEF d1, d2
  <2>1. /\ InOrder(c1, g)
        /\ \A i \in DOMAIN c1 : Filled(c1[i], g) => i \in DOMAIN q.jfc /\ c1[i] = q.jfc[i]
    BY Zenon, <1>1, <1>4, <1>10, ConcatInOrder
  <2>2. /\ InOrder(c, g)
        /\ \A i \in DOMAIN c : Filled(c[i], g) => i \in DOMAIN c1 /\ c[i] = c1[i]
    BY Zenon, <1>4, <1>7, <2>1, ConcatInOrder
  <2> HIDE DEF c1, c
  <2> QED
    BY Zenon, <2>1, <2>2
<1>11. \A i \in DOMAIN c : c[i].jetty_id = h
  <2> HIDE DEF d1, d2, q
  <2>1. \A i \in DOMAIN c1 : c1[i].jetty_id = h
    BY Zenon, <1>1, <1>4, ConcatIds DEF Good
  <2> QED
    BY Zenon, <1>4, <1>7, <2>1, ConcatIds
<1> HIDE DEF d1, d2, c1, c
<1>12. r \in JettyState /\ r.jfs = <<>> /\ r.jfr = <<>> /\ r.jfc = c /\ r.life = "closed" /\ r.mark = posted
  <2> HIDE DEF q
  <2>1. q \in JettyState /\ posted \in 0..MaxWork /\ c \in Seq(Cqe)
    BY Zenon, <1>1, <1>2, <1>7
  <2> QED
    BY <2>1, ClosedJetty
<1> HIDE DEF r, q
<1>13. /\ Handles' = Handles /\ jetty' \in Seq(JettyState) /\ Len(jetty') = Len(jetty) /\ jetty'[h] = r
  BY Zenon, <1>2, <1>3, <1>12, Rewritten
<1>14. Types'
  BY Zenon, <1>2, <1>3, <1>13 DEF Types
<1>15. Range(<<>>) = {} /\ DOMAIN <<>> = {}
  BY DEF Range
<1>16. Content(b)' = Content(b) \union W
  <2>1. Content(b)' = WorkOf(c) \ {0}
    BY Zenon, <1>12, <1>13, ContentWillBe
  <2>2. 0 \notin W
    BY <1>2, <1>6
  <2> HIDE DEF W, b
  <2> QED
    BY Zenon, <1>5, <1>9, <2>1, <2>2
<1>17. ASSUME NEW x \in Spots, x # b
       PROVE  Content(x)' = Content(x) \ W
  <2>1. CASE x = <<"jfs", h>>
    <3>1. Content(x)' = {}
      BY Zenon, <1>12, <1>13, <1>15, <2>1, ContentWillBe
    <3> QED
      BY Zenon, <1>5, <2>1, <3>1
  <2>2. CASE x = <<"jfr", h>>
    <3>1. Content(x)' = {}
      BY Zenon, <1>12, <1>13, <1>15, <2>2, ContentWillBe
    <3> QED
      BY Zenon, <1>5, <2>2, <3>1
  <2>3. CASE x # <<"jfs", h>> /\ x # <<"jfr", h>>
    <3>1. x = <<"handler", 0>> => Content(x)' = Content(x)
      BY Zenon, <1>3, ContentIs, ContentWillBe
    <3>2. Content(x)' = Content(x)
      BY Zenon, <1>3, <1>17, <2>3, <3>1, SpotKept DEF q
    <3>3. \A w \in Content(x) : w \notin W
      <4>1. <<"jfs", h>> \in Spots /\ <<"jfr", h>> \in Spots
        BY Zenon, <1>1, SpotsApart
      <4>2. \A w \in Content(x) : w \notin Content(<<"jfs", h>>)
        BY Zenon, <1>2, <2>3, <4>1, Apart
      <4>3. \A w \in Content(x) : w \notin Content(<<"jfr", h>>)
        BY Zenon, <1>2, <2>3, <4>1, Apart
      <4> QED
        BY Zenon, <1>5, <4>2, <4>3
    <3> HIDE DEF W
    <3> QED
      BY Zenon, <3>2, <3>3
  <2> QED
    BY Zenon, <2>1, <2>2, <2>3
<1>18. Owned' /\ Carries
  <2>1. 1..posted' = (1..posted) \union W
    BY Zenon, <1>3, <1>6
  <2>2. /\ b \in Spots /\ <<"jfs", h>> \in Spots /\ <<"jfr", h>> \in Spots
        /\ FateAt(b) = "done" /\ FateAt(<<"jfs", h>>) = "posted" /\ FateAt(<<"jfr", h>>) = "posted"
    BY Zenon, <1>1, SpotsApart, FateAtIs
  <2>3. \A w \in W : \E x \in Spots : w \in Content(x) /\ FateAt(x) = "posted"
    BY Zenon, <1>5, <2>2
  <2> HIDE DEF W, b
  <2>4. Owned'
    BY Zenon, <1>2, <1>16, <1>17, <2>1, <2>2, MoveKeeps
  <2>5. \A w \in W : \E x \in Spots : w \in Content(x)' /\ FateAt(x) = "done"
    BY Zenon, <1>16, <2>2
  <2>6. \A x \in Spots : \A v \in Content(x) : v \in W \/ v \in Content(x)'
    BY Zenon, <1>16, <1>17
  <2>7. Carried(W, "posted", "done")
    BY Zenon, <2>3, <2>5, <2>6 DEF Carried
  <2> QED
    BY Zenon, <1>3, <2>4, <2>7 DEF Carries
<1>19. Good(h, r, posted')
  <2>1. Len(r.jfs) <= jfs_depth /\ Len(r.jfr) <= jfr_depth /\ r.mark <= posted'
    BY <1>2, <1>3, <1>12, JettyAssumption
  <2>2. Len(r.jfc) <= jfc_depth + (jfs_depth + jfr_depth)
    <3>1. /\ Len(q.jfs) <= jfs_depth /\ Len(q.jfr) <= jfr_depth
          /\ Len(q.jfc) <= jfc_depth + (IF q.life = "closed" THEN jfs_depth + jfr_depth ELSE 0)
      BY Zenon, <1>1 DEF Good
    <3>2. Len(q.jfs) \in Nat /\ Len(q.jfr) \in Nat /\ Len(q.jfc) \in Nat
      BY <1>1
    <3>3. Len(q.jfc) <= jfc_depth + 0
      BY <1>3, <3>1
    <3>4. Len(r.jfc) = Len(q.jfc) + Len(q.jfs) + Len(q.jfr)
      BY Zenon, <1>7, <1>12
    <3>5. Len(q.jfs) <= jfs_depth /\ Len(q.jfr) <= jfr_depth
      BY Zenon, <3>1
    <3>6. \A i, j, k \in Nat : i <= jfs_depth /\ j <= jfr_depth /\ k <= jfc_depth + 0
                                  => k + i + j <= jfc_depth + (jfs_depth + jfr_depth)
      BY JettyAssumption
    <3> QED
      BY Zenon, <3>2, <3>3, <3>4, <3>5, <3>6
  <2>3. Increasing(r.jfs) /\ Increasing(r.jfr)
    BY Zenon, <1>12, <1>15 DEF Increasing
  <2> QED
    BY ZenonT(60), <1>9, <1>11, <1>12, <1>15, <2>1, <2>2, <2>3 DEF Good
<1>20. Sorted(h, r, polled', handler')
  <2>1. /\ InOrder(polled, h) /\ InOrder(q.jfc, h)
        /\ \A i \in DOMAIN polled, j \in DOMAIN q.jfc :
             Filled(polled[i], h) /\ Filled(q.jfc[j], h) => polled[i].work < q.jfc[j].work
        /\ handler.pc = "matched" /\ handler.h = h =>
             /\ \A i \in DOMAIN polled : Filled(polled[i], h) => polled[i].work < handler.w
             /\ \A i \in DOMAIN q.jfc : Filled(q.jfc[i], h) => q.jfc[i].work < handler.w
    BY Zenon, <1>1 DEF Sorted
  <2>2. /\ InOrder(c, h)
        /\ \A i \in DOMAIN c : Filled(c[i], h) => i \in DOMAIN q.jfc /\ c[i] = q.jfc[i]
    BY Zenon, <1>10, <2>1
  <2>3. \A i \in DOMAIN polled, j \in DOMAIN c :
             Filled(polled[i], h) /\ Filled(c[j], h) => polled[i].work < c[j].work
    BY Zenon, <2>1, <2>2
  <2>4. handler.pc = "matched" /\ handler.h = h =>
             \A i \in DOMAIN c : Filled(c[i], h) => c[i].work < handler.w
    BY Zenon, <2>1, <2>2
  <2>5. \A w : w \notin Range(<<>>)
    BY Zenon, <1>15
  <2> QED
    BY Zenon, <1>3, <1>12, <2>1, <2>2, <2>3, <2>4, <2>5 DEF Sorted
<1>21. NoTwice(polled') /\ \A g \in Handles : g # h => Sorted(g, jetty[g], polled', handler')
  BY Zenon, <1>3 DEF IInv
<1>22. posted <= posted'
  BY <1>2, <1>3
<1> QED
  BY Zenon, <1>3, <1>12, <1>14, <1>18, <1>19, <1>20, <1>21, <1>22, StepOn

-----------------------------------------------------------------------------
(* Posting.                                                                *)

\* Only what was posted is anywhere.
LEMMA WorkKnown ==
    ASSUME IInv, NEW h \in Handles
    PROVE  /\ Range(jetty[h].jfs) \subseteq 1..posted /\ Range(jetty[h].jfr) \subseteq 1..posted
           /\ \A i \in DOMAIN polled : polled[i].work \in 1..posted
           /\ \A i \in DOMAIN jetty[h].jfc : jetty[h].jfc[i].work # 0 => jetty[h].jfc[i].work \in 1..posted
           /\ handler.pc = "matched" => handler.w \in 1..posted
<1>1. h \in Nat
  BY HandleFacts
<1>2. /\ Content(<<"jfs", h>>) \subseteq 1..posted /\ Content(<<"jfr", h>>) \subseteq 1..posted
      /\ Content(<<"jfc", h>>) \subseteq 1..posted /\ Content(<<"polled", 0>>) \subseteq 1..posted
      /\ Content(<<"handler", 0>>) \subseteq 1..posted
  BY Zenon, <1>1, SpotsApart DEF IInv, Owned
<1>3. /\ Range(jetty[h].jfs) \subseteq 1..posted /\ Range(jetty[h].jfr) \subseteq 1..posted
      /\ WorkOf(jetty[h].jfc) \ {0} \subseteq 1..posted /\ WorkOf(polled) \subseteq 1..posted
      /\ handler.pc = "matched" => handler.w \in 1..posted
  BY Zenon, <1>2, ContentIs
<1>4. /\ \A i \in DOMAIN polled : polled[i].work \in WorkOf(polled)
      /\ \A i \in DOMAIN jetty[h].jfc : jetty[h].jfc[i].work \in WorkOf(jetty[h].jfc)
  BY Zenon, InWorkOf
<1> QED
  BY Zenon, <1>3, <1>4

LEMMA PostRecvStep ==
    ASSUME IInv, NEW h \in Handles, post_recv(h)
    PROVE  IInv' /\ Carries
<1> DEFINE q == jetty[h]
           s == Append(q.jfr, posted')
           r == [q EXCEPT !.jfr = s]
<1>1. /\ h \in 1..MaxJettys /\ h \in Nat /\ q \in JettyState
      /\ Good(h, q, posted) /\ Sorted(h, q, polled, handler)
      /\ q.jfs \in Seq(Work) /\ q.jfr \in Seq(Work) /\ q.jfc \in Seq(Cqe)
  BY HandleFacts, Fields
<1>2. Types /\ Owned /\ posted \in 0..MaxWork /\ posted \in Nat
  BY DEF IInv, Types
<1>3. /\ jetty' = [jetty EXCEPT ![h] = r] /\ posted < MaxWork /\ posted' = posted + 1
      /\ Len(q.jfr) < jfr_depth
      /\ UNCHANGED <<default, sending, handler, polled, dropped, handed>>
  BY Zenon DEF post_recv
<1>4. posted' \in Work /\ posted' \in 0..MaxWork /\ posted <= posted' /\ posted' \in Nat
  BY <1>2, <1>3, JettyAssumption DEF Work
<1>5. \A w \in 1..posted : w < posted'
  BY <1>2, <1>3
<1>6. /\ Range(q.jfr) \subseteq 1..posted
      /\ \A i \in DOMAIN polled : polled[i].work < posted'
      /\ \A i \in DOMAIN q.jfc : q.jfc[i].work # 0 => q.jfc[i].work < posted'
      /\ handler.pc = "matched" => handler.w < posted'
  BY Zenon, <1>5, WorkKnown
<1>7. s \in Seq(Work) /\ Len(s) = Len(q.jfr) + 1 /\ Range(s) = Range(q.jfr) \union {posted'} /\ Increasing(s)
  <2>1. s \in Seq(Work) /\ Len(s) = Len(q.jfr) + 1
    <3> HIDE DEF q
    <3> QED
      BY <1>1, <1>4
  <2>2. Increasing(q.jfr) /\ \A w \in Range(q.jfr) : w < posted'
    BY Zenon, <1>1, <1>5, <1>6 DEF Good
  <2> QED
    BY Zenon, <1>1, <1>4, <2>1, <2>2, AppendQueue
<1>8. /\ r \in JettyState /\ r.jfs = q.jfs /\ r.jfr = s /\ r.jfc = q.jfc
      /\ r.life = q.life /\ r.mark = q.mark
  <2> HIDE DEF q, s
  <2> QED
    BY Zenon, <1>1, <1>7, JfrChanged
<1> HIDE DEF r, q, s
<1>9. /\ Handles' = Handles /\ jetty' \in Seq(JettyState) /\ Len(jetty') = Len(jetty) /\ jetty'[h] = r
  BY Zenon, <1>2, <1>3, <1>8, Rewritten
<1>10. Types'
  BY Zenon, <1>2, <1>3, <1>4, <1>9 DEF Types
<1>11. Owned' /\ Carries
  <2>1. Content(<<"jfr", h>>)' = Content(<<"jfr", h>>) \union {posted'}
    BY Zenon, <1>7, <1>8, <1>9, ContentIs, ContentWillBe DEF q
  <2>2. ASSUME NEW x \in Spots, x # <<"jfr", h>>
        PROVE  Content(x)' = Content(x)
    <3>1. x = <<"handler", 0>> => Content(x)' = Content(x)
      BY Zenon, <1>3, ContentIs, ContentWillBe
    <3> QED
      BY ZenonT(60), <1>3, <1>8, <2>2, <3>1, SpotKept DEF q
  <2> QED
    BY ZenonT(60), <1>1, <1>2, <1>3, <2>1, <2>2, SpotsApart, FateAtIs, MovePosted
<1>12. Good(h, r, posted')
  <2>1. Len(s) <= jfr_depth
    <3>1. Len(q.jfr) \in Nat
      BY <1>1
    <3> QED
      BY <1>3, <1>7, <3>1, JettyAssumption
  <2>2. q.mark < posted' /\ q.mark <= posted'
    <3>1. q.mark <= posted /\ q.mark \in Nat
      BY <1>1, Fields, JettyAssumption DEF Good
    <3> QED
      BY SMTT(30), <1>2, <1>3, <3>1
  <2>3. posted' > q.mark
    BY <2>2
  <2> QED
    BY Zenon, <1>1, <1>7, <1>8, <2>1, <2>2, <2>3 DEF Good
<1>13. Sorted(h, r, polled', handler')
  <2>1. \A w \in Range(s) : w \in Range(q.jfr) \/ w = posted'
    BY Zenon, <1>7
  <2>2. /\ \A i \in DOMAIN q.jfc : Filled(q.jfc[i], h) => q.jfc[i].work < posted'
        /\ \A i \in DOMAIN polled : polled[i].work < posted'
        /\ handler.pc = "matched" => handler.w < posted'
    BY Zenon, <1>6 DEF Filled
  <2> QED
    BY ZenonT(60), <1>1, <1>3, <1>8, <2>1, <2>2 DEF Sorted
<1>14. NoTwice(polled') /\ \A g \in Handles : g # h => Sorted(g, jetty[g], polled', handler')
  BY Zenon, <1>3 DEF IInv
<1> QED
  BY Zenon, <1>3, <1>4, <1>8, <1>10, <1>11, <1>12, <1>13, <1>14, StepOn

LEMMA PostSendCheckStep ==
    ASSUME IInv, NEW h \in Handles, NEW s \in Senders, post_send_check(s, h)
    PROVE  IInv' /\ Carries
<1>1. Types /\ h \in 1..Len(jetty) /\ sending \in [Senders -> 0..Len(jetty)]
  BY SMTT(30), HandleFacts DEF IInv, Types
<1>2. sending' = [sending EXCEPT ![s] = h] /\ UNCHANGED <<jetty, default, posted, handler, polled, dropped, handed>>
  BY DEF post_send_check
<1>3. sending' \in [Senders -> 0..Len(jetty)]
  BY <1>1, <1>2
<1>4. Types'
  BY Zenon, <1>1, <1>2, <1>3 DEF Types, Handles
<1>5. Content(<<"handler", 0>>)' = Content(<<"handler", 0>>)
  BY Zenon, <1>2, ContentIs, ContentWillBe
<1> QED
  BY ZenonT(60), <1>2, <1>4, <1>5, StepOff

LEMMA PostSendPushStep ==
    ASSUME IInv, NEW t \in Senders, post_send_push(t)
    PROVE  IInv' /\ Carries
<1>0. PICK h : h = sending[t]
  OBVIOUS
<1> DEFINE q == jetty[h]
           s == Append(q.jfs, posted')
           r == [q EXCEPT !.jfs = s]
<1>1. /\ Types /\ Owned /\ posted \in 0..MaxWork /\ posted \in Nat
      /\ sending \in [Senders -> 0..Len(jetty)] /\ jetty \in Seq(JettyState)
  BY DEF IInv, Types
<1>2. /\ h # 0 /\ sending' = [sending EXCEPT ![t] = 0]
      /\ UNCHANGED <<default, handler, polled, dropped, handed>>
  BY <1>0 DEF post_send_push
<1>3. h \in Handles /\ sending' \in [Senders -> 0..Len(jetty)]
  BY <1>0, <1>1, <1>2 DEF Handles
<1>4. CASE UNCHANGED <<jetty, posted>>
  <2>1. Types'
    BY Zenon, <1>1, <1>2, <1>3, <1>4 DEF Types, Handles
  <2>2. Content(<<"handler", 0>>)' = Content(<<"handler", 0>>)
    BY Zenon, <1>2, ContentIs, ContentWillBe
  <2> QED
    BY Zenon, <1>2, <1>4, <2>1, <2>2, StepOff
<1>5. CASE /\ Len(q.jfs) < jfs_depth /\ posted < MaxWork /\ posted' = posted + 1
           /\ jetty' = [jetty EXCEPT ![h] = r]
  <2>1. /\ h \in 1..MaxJettys /\ h \in Nat /\ q \in JettyState
        /\ Good(h, q, posted) /\ Sorted(h, q, polled, handler)
        /\ q.jfs \in Seq(Work) /\ q.jfr \in Seq(Work) /\ q.jfc \in Seq(Cqe)
    BY <1>3, HandleFacts, Fields
  <2>2. posted' \in Work /\ posted' \in 0..MaxWork /\ posted <= posted' /\ posted' \in Nat
    BY SMTT(30), <1>1, <1>5, JettyAssumption DEF Work
  <2>3. \A w \in 1..posted : w < posted'
    BY <1>1, <1>5
  <2>4. Range(q.jfs) \subseteq 1..posted
    BY Zenon, <1>3, WorkKnown
  <2>5. s \in Seq(Work) /\ Len(s) = Len(q.jfs) + 1 /\ Range(s) = Range(q.jfs) \union {posted'} /\ Increasing(s)
    <3> HIDE DEF q
    <3>1. s \in Seq(Work) /\ Len(s) = Len(q.jfs) + 1
      BY <2>1, <2>2
    <3>2. Increasing(q.jfs) /\ \A w \in Range(q.jfs) : w < posted'
      BY Zenon, <2>1, <2>3, <2>4 DEF Good
    <3>3. q.jfs \in Seq(Work) /\ posted' \in Work
      BY Zenon, <2>1, <2>2
    <3>4. Range(s) = Range(q.jfs) \union {posted'} /\ Increasing(s)
      BY <3>2, <3>3, AppendQueue
    <3> QED
      BY Zenon, <3>1, <3>4
  <2>6. /\ r \in JettyState /\ r.jfs = s /\ r.jfr = q.jfr /\ r.jfc = q.jfc
        /\ r.life = q.life /\ r.mark = q.mark
    <3> HIDE DEF q, s
    <3>1. q \in JettyState /\ s \in Seq(Work)
      BY Zenon, <2>1, <2>5
    <3> QED
      BY <3>1, JfsChanged
  <2> HIDE DEF r, q, s
  <2>7. /\ Handles' = Handles /\ jetty' \in Seq(JettyState) /\ Len(jetty') = Len(jetty) /\ jetty'[h] = r
    BY Zenon, <1>1, <1>3, <1>5, <2>6, Rewritten
  <2>8. Types'
    BY Zenon, <1>1, <1>2, <1>3, <2>2, <2>7 DEF Types
  <2>9. Owned' /\ Carries
    <3>1. Content(<<"jfs", h>>)' = Content(<<"jfs", h>>) \union {posted'}
      BY Zenon, <1>3, <2>5, <2>6, <2>7, ContentIs, ContentWillBe DEF q
    <3>2. ASSUME NEW x \in Spots, x # <<"jfs", h>>
          PROVE  Content(x)' = Content(x)
      <4>1. x = <<"handler", 0>> => Content(x)' = Content(x)
        BY Zenon, <1>2, ContentIs, ContentWillBe
      <4> QED
        BY Zenon, <1>2, <1>3, <1>5, <2>6, <3>2, <4>1, SpotKept DEF q
    <3> QED
      BY Zenon, <1>1, <1>5, <2>1, <3>1, <3>2, SpotsApart, FateAtIs, MovePosted
  <2>10. Good(h, r, posted')
    <3>1. Len(s) <= jfs_depth
      <4>1. Len(q.jfs) \in Nat
        BY <2>1
      <4> QED
        BY <1>5, <2>5, <4>1, JettyAssumption
    <3>2. q.mark <= posted' /\ posted' > q.mark
      <4>1. q.mark <= posted /\ q.mark \in Nat
        BY <2>1, Fields, JettyAssumption DEF Good
      <4> QED
        BY <1>1, <1>5, <4>1
    <3> QED
      BY Zenon, <2>1, <2>5, <2>6, <3>1, <3>2 DEF Good
  <2>11. Sorted(h, r, polled', handler')
    BY Zenon, <1>2, <2>1, <2>6 DEF Sorted
  <2>12. NoTwice(polled') /\ \A g \in Handles : g # h => Sorted(g, jetty[g], polled', handler')
    BY Zenon, <1>2 DEF IInv
  <2> QED
    BY Zenon, <1>3, <1>5, <2>2, <2>6, <2>8, <2>9, <2>10, <2>11, <2>12, StepOn
<1> QED
  BY Zenon, <1>0, <1>4, <1>5 DEF post_send_push

-----------------------------------------------------------------------------
(* Taking: the worker pops a request, the application polls, and the       *)
(* handler pops a buffer.                                                  *)

LEMMA PopSendStep ==
    ASSUME IInv, NEW h \in Handles, pop_send(h)
    PROVE  IInv' /\ Carries
<1> DEFINE q == jetty[h]
           s == Tail(q.jfs)
           w == Head(q.jfs)
           r == [q EXCEPT !.jfs = s]
<1>1. /\ h \in 1..MaxJettys /\ h \in Nat /\ q \in JettyState
      /\ Good(h, q, posted) /\ Sorted(h, q, polled, handler)
      /\ q.jfs \in Seq(Work) /\ q.jfr \in Seq(Work) /\ q.jfc \in Seq(Cqe)
  BY HandleFacts, Fields
<1>2. Types /\ Owned /\ posted \in Nat /\ handed \subseteq Work
  BY DEF IInv, Types
<1>3. /\ jetty' = [jetty EXCEPT ![h] = r] /\ q.jfs # <<>> /\ handed' = handed \union {w}
      /\ UNCHANGED <<default, posted, sending, handler, polled, dropped>>
  BY Zenon DEF pop_send
<1>4. s \in Seq(Work) /\ Len(s) <= Len(q.jfs)
  <2> HIDE DEF q
  <2> QED
    BY <1>1, <1>3
<1>5. Range(s) = Range(q.jfs) \ {w} /\ w \in Range(q.jfs) /\ w \in Work /\ Increasing(s)
  BY Zenon, <1>1, <1>3, TailQueue DEF Good
<1>6. /\ r \in JettyState /\ r.jfs = s /\ r.jfr = q.jfr /\ r.jfc = q.jfc
      /\ r.life = q.life /\ r.mark = q.mark
  <2> HIDE DEF q, s
  <2> QED
    BY Zenon, <1>1, <1>4, JfsChanged
<1> HIDE DEF r, q, s, w
<1>7. /\ Handles' = Handles /\ jetty' \in Seq(JettyState) /\ Len(jetty') = Len(jetty) /\ jetty'[h] = r
  BY Zenon, <1>2, <1>3, <1>6, Rewritten
<1>8. Types'
  BY Zenon, <1>2, <1>3, <1>5, <1>7 DEF Types
<1>9. Owned' /\ Carries
  <2>1. /\ Content(<<"jfs", h>>)' = Content(<<"jfs", h>>) \ {w} /\ w \in Content(<<"jfs", h>>)
        /\ Content(<<"handed", 0>>)' = Content(<<"handed", 0>>) \union {w}
    BY Zenon, <1>3, <1>5, <1>6, <1>7, ContentIs, ContentWillBe DEF q
  <2>2. ASSUME NEW x \in Spots, x # <<"jfs", h>>, x # <<"handed", 0>>
        PROVE  Content(x)' = Content(x)
    <3>1. x = <<"handler", 0>> => Content(x)' = Content(x)
      BY Zenon, <1>3, ContentIs, ContentWillBe
    <3> QED
      BY ZenonT(60), <1>3, <1>6, <2>2, <3>1, SpotKept DEF q
  <2>3. <<"jfs", h>> \in Spots /\ <<"handed", 0>> \in Spots /\ <<"jfs", h>> # <<"handed", 0>>
    BY Zenon, <1>1, SpotsApart
  <2>4. FateAt(<<"jfs", h>>) = "posted" /\ FateAt(<<"handed", 0>>) = "taken"
    BY Zenon, FateAtIs
  <2> QED
    BY Zenon, <1>2, <1>3, <2>1, <2>2, <2>3, <2>4, MoveFrom
<1>10. Good(h, r, posted')
  <2>1. Len(s) <= jfs_depth
    <3>1. Len(q.jfs) \in Nat /\ Len(s) \in Nat /\ Len(q.jfs) <= jfs_depth
      BY <1>1, <1>4 DEF Good
    <3> QED
      BY <1>4, <3>1, JettyAssumption
  <2> QED
    BY Zenon, <1>1, <1>3, <1>5, <1>6, <2>1 DEF Good
<1>11. Sorted(h, r, polled', handler')
  BY Zenon, <1>1, <1>3, <1>6 DEF Sorted
<1>12. NoTwice(polled') /\ \A g \in Handles : g # h => Sorted(g, jetty[g], polled', handler')
  BY Zenon, <1>3 DEF IInv
<1>13. posted <= posted'
  BY <1>2, <1>3
<1> QED
  BY ZenonT(60), <1>3, <1>6, <1>8, <1>9, <1>10, <1>11, <1>12, <1>13, StepOn

\* A completion of another Jetty that is polled changes nothing for g.
LEMMA PolledElsewhere ==
    ASSUME NEW g, NEW r, NEW cqes \in Seq(Cqe), NEW f, NEW x \in Cqe, ~Filled(x, g),
           Sorted(g, r, cqes, f)
    PROVE  Sorted(g, r, Append(cqes, x), f)
<1> DEFINE e == Append(cqes, x)
<1>1. \A i \in DOMAIN e : e[i] = x \/ (i \in DOMAIN cqes /\ e[i] = cqes[i])
  BY AppendElements
<1>2. InOrder(e, g)
  BY Zenon, AppendInOrder DEF Sorted
<1> HIDE DEF e
<1>3. \A i \in DOMAIN e : Filled(e[i], g) => i \in DOMAIN cqes /\ e[i] = cqes[i]
  BY Zenon, <1>1
<1>4. Sorted(g, r, e, f)
  <2>1. \A i \in DOMAIN e, j \in DOMAIN r.jfc :
           Filled(e[i], g) /\ Filled(r.jfc[j], g) => e[i].work < r.jfc[j].work
    BY Zenon, <1>3 DEF Sorted
  <2>2. \A w \in Range(r.jfr) : \A i \in DOMAIN e : Filled(e[i], g) => e[i].work < w
    BY Zenon, <1>3 DEF Sorted
  <2>3. f.pc = "matched" /\ f.h = g => \A i \in DOMAIN e : Filled(e[i], g) => e[i].work < f.w
    BY Zenon, <1>3 DEF Sorted
  <2> QED
    BY Zenon, <1>2, <2>1, <2>2, <2>3 DEF Sorted
<1> QED
  BY <1>4 DEF e

\* Polling the first completion of g keeps the order of g's buffers.
LEMMA PolledHere ==
    ASSUME NEW g, NEW q, NEW r, NEW cqes \in Seq(Cqe), NEW f, q.jfc \in Seq(Cqe), q.jfc # <<>>,
           NoTwice(q.jfc), r.jfc = Tail(q.jfc), r.jfr = q.jfr, Sorted(g, q, cqes, f)
    PROVE  Sorted(g, r, cqes, f) /\ Sorted(g, r, Append(cqes, Head(q.jfc)), f)
<1> DEFINE c == q.jfc
           d == Tail(q.jfc)
           x == Head(q.jfc)
           e == Append(cqes, x)
<1>1. /\ 1 \in DOMAIN c /\ x = c[1] /\ x \in Cqe
      /\ \A j \in DOMAIN d : j + 1 \in DOMAIN c /\ d[j] = c[j + 1]
  BY TailOf
<1>2. /\ InOrder(d, g)
      /\ \A i \in DOMAIN d : Filled(x, g) /\ Filled(d[i], g) => x.work < d[i].work
  BY Zenon, TailCqes DEF Sorted
<1>3. \A i \in DOMAIN e : e[i] = x \/ (i \in DOMAIN cqes /\ e[i] = cqes[i])
  BY <1>1, AppendElements
<1>4. /\ InOrder(cqes, g)
      /\ \A i \in DOMAIN cqes, j \in DOMAIN c :
           Filled(cqes[i], g) /\ Filled(c[j], g) => cqes[i].work < c[j].work
      /\ \A w \in Range(q.jfr) :
           /\ \A i \in DOMAIN cqes : Filled(cqes[i], g) => cqes[i].work < w
           /\ \A i \in DOMAIN c : Filled(c[i], g) => c[i].work < w
      /\ f.pc = "matched" /\ f.h = g =>
           /\ \A i \in DOMAIN cqes : Filled(cqes[i], g) => cqes[i].work < f.w
           /\ \A i \in DOMAIN c : Filled(c[i], g) => c[i].work < f.w
           /\ \A w \in Range(q.jfr) : f.w < w
  BY Zenon DEF Sorted
<1>5. InOrder(e, g)
  <2>1. Filled(x, g) => \A i \in DOMAIN cqes : Filled(cqes[i], g) => cqes[i].work < x.work
    BY Zenon, <1>1, <1>4
  <2> HIDE DEF x
  <2> QED
    BY Zenon, <1>1, <1>4, <2>1, AppendInOrder
<1> HIDE DEF c, d, x, e
<1>6. /\ \A i \in DOMAIN cqes, j \in DOMAIN d :
           Filled(cqes[i], g) /\ Filled(d[j], g) => cqes[i].work < d[j].work
      /\ \A w \in Range(q.jfr) : \A i \in DOMAIN d : Filled(d[i], g) => d[i].work < w
      /\ f.pc = "matched" /\ f.h = g => \A i \in DOMAIN d : Filled(d[i], g) => d[i].work < f.w
  BY Zenon, <1>1, <1>4
<1>7. Sorted(g, r, cqes, f)
  BY Zenon, <1>2, <1>4, <1>6 DEF Sorted, d
<1>8. ASSUME NEW i \in DOMAIN e, Filled(e[i], g)
      PROVE  /\ \A j \in DOMAIN d : Filled(d[j], g) => e[i].work < d[j].work
             /\ \A w \in Range(q.jfr) : e[i].work < w
             /\ f.pc = "matched" /\ f.h = g => e[i].work < f.w
  <2>1. CASE e[i] = x
    BY Zenon, <1>1, <1>2, <1>4, <1>8, <2>1
  <2>2. CASE i \in DOMAIN cqes /\ e[i] = cqes[i]
    BY Zenon, <1>4, <1>6, <1>8, <2>2
  <2> QED
    BY Zenon, <1>3, <2>1, <2>2
<1>9. Sorted(g, r, e, f)
  BY Zenon, <1>2, <1>4, <1>5, <1>6, <1>8 DEF Sorted, d
<1> QED
  BY Zenon, <1>7, <1>9 DEF e, x

LEMMA PollStep ==
    ASSUME IInv, NEW h \in Handles, poll_cqe(h)
    PROVE  IInv' /\ Carries
<1> DEFINE q == jetty[h]
           s == Tail(q.jfc)
           x == Head(q.jfc)
           r == [q EXCEPT !.jfc = s]
<1>1. /\ h \in 1..MaxJettys /\ h \in Nat /\ q \in JettyState
      /\ Good(h, q, posted) /\ Sorted(h, q, polled, handler)
      /\ q.jfs \in Seq(Work) /\ q.jfr \in Seq(Work) /\ q.jfc \in Seq(Cqe)
  BY HandleFacts, Fields
<1>2. Types /\ Owned /\ posted \in Nat /\ polled \in Seq(Cqe) /\ NoTwice(polled)
  BY DEF IInv, Types
<1>3. /\ jetty' = [jetty EXCEPT ![h] = r] /\ q.jfc # <<>>
      /\ polled' = IF x.work = 0 THEN polled ELSE Append(polled, x)
      /\ UNCHANGED <<default, posted, sending, handler, dropped, handed>>
  BY Zenon DEF poll_cqe
<1>4. s \in Seq(Cqe) /\ Len(s) <= Len(q.jfc) /\ 1 \in DOMAIN q.jfc /\ x = q.jfc[1]
      /\ \A j \in DOMAIN s : j + 1 \in DOMAIN q.jfc /\ s[j] = q.jfc[j + 1]
  <2> HIDE DEF q
  <2> QED
    BY <1>1, <1>3, TailOf
<1>5. /\ WorkOf(s) \ {0} = (WorkOf(q.jfc) \ {0}) \ {x.work}
      /\ x.work \in WorkOf(q.jfc) /\ x \in Cqe /\ NoTwice(s)
  BY Zenon, <1>1, <1>3, TailCqes DEF Good
<1>6. /\ r \in JettyState /\ r.jfs = q.jfs /\ r.jfr = q.jfr /\ r.jfc = s
      /\ r.life = q.life /\ r.mark = q.mark
  <2> HIDE DEF q, s
  <2> QED
    BY Zenon, <1>1, <1>4, JfcChanged
<1>7. x.jetty_id = h /\ \A j \in DOMAIN s : s[j].jetty_id = h
  <2> HIDE DEF q, s, x
  <2> QED
    BY Zenon, <1>1, <1>4 DEF Good
<1>8. /\ Sorted(h, r, polled, handler) /\ Sorted(h, r, Append(polled, x), handler)
  <2>1. NoTwice(q.jfc) /\ r.jfc = Tail(q.jfc)
    BY Zenon, <1>1, <1>6 DEF Good
  <2> HIDE DEF q, r
  <2> QED
    BY Zenon, <1>1, <1>2, <1>3, <1>6, <2>1, PolledHere
<1> HIDE DEF r, q, s, x
<1>9. /\ Handles' = Handles /\ jetty' \in Seq(JettyState) /\ Len(jetty') = Len(jetty) /\ jetty'[h] = r
  BY Zenon, <1>2, <1>3, <1>6, Rewritten
<1>10. Good(h, r, posted')
  <2>1. Len(s) <= jfc_depth + (IF q.life = "closed" THEN jfs_depth + jfr_depth ELSE 0)
    <3>1. /\ Len(q.jfc) \in Nat /\ Len(s) \in Nat
          /\ Len(q.jfc) <= jfc_depth + (IF q.life = "closed" THEN jfs_depth + jfr_depth ELSE 0)
      BY <1>1, <1>4 DEF Good
    <3> QED
      BY SMTT(30), <1>4, <3>1, JettyAssumption
  <2> QED
    BY Zenon, <1>1, <1>3, <1>5, <1>6, <1>7, <2>1 DEF Good
<1>11. /\ Content(<<"jfc", h>>) = WorkOf(q.jfc) \ {0}
       /\ Content(<<"jfc", h>>)' = Content(<<"jfc", h>>) \ {x.work}
       /\ Content(<<"polled", 0>>) = WorkOf(polled) /\ Content(<<"polled", 0>>)' = WorkOf(polled')
       /\ Content(<<"handler", 0>>)' = Content(<<"handler", 0>>)
  BY Zenon, <1>3, <1>5, <1>6, <1>9, ContentIs, ContentWillBe DEF q
<1>12. ASSUME NEW y \in Spots, y # <<"jfc", h>>, y # <<"polled", 0>>
       PROVE  Content(y)' = Content(y)
  BY ZenonT(60), <1>3, <1>6, <1>11, <1>12, SpotKept DEF q
<1>13. posted <= posted'
  BY <1>2, <1>3
<1>14. CASE x.work = 0
  <2>1. polled' = polled
    BY Zenon, <1>3, <1>14
  <2>2. Types'
    BY Zenon, <1>2, <1>3, <1>9, <2>1 DEF Types
  <2>3. Content(<<"jfc", h>>)' = Content(<<"jfc", h>>) /\ Content(<<"polled", 0>>)' = Content(<<"polled", 0>>)
    BY Zenon, <1>11, <1>14, <2>1
  <2>4. \A y \in Spots : Content(y)' = Content(y)
    BY Zenon, <1>12, <2>3
  <2>5. Owned' /\ Carries
    BY Zenon, <1>2, <1>3, <2>4, NothingMoves
  <2>6. NoTwice(polled') /\ \A g \in Handles : g # h => Sorted(g, jetty[g], polled', handler')
    BY Zenon, <1>3, <2>1 DEF IInv
  <2> QED
    BY Zenon, <1>3, <1>6, <1>8, <1>10, <1>13, <2>1, <2>2, <2>5, <2>6, StepOn
<1>15. CASE x.work # 0
  <2>1. polled' = Append(polled, x)
    BY Zenon, <1>3, <1>15
  <2>2. /\ <<"jfc", h>> \in Spots /\ <<"polled", 0>> \in Spots /\ <<"jfc", h>> # <<"polled", 0>>
    BY Zenon, <1>1, SpotsApart
  <2>3. x.work \in Content(<<"jfc", h>>)
    BY Zenon, <1>5, <1>11, <1>15
  <2>4. x.work \notin WorkOf(polled)
    BY Zenon, <1>2, <1>11, <2>2, <2>3, Apart
  <2>5. WorkOf(polled') = WorkOf(polled) \union {x.work} /\ NoTwice(polled')
    BY Zenon, <1>2, <1>5, <2>1, <2>4, AppendCqes
  <2>6. Owned' /\ Carries
    <3>1. PICK w : w = x.work
      BY Zenon
    <3>2. /\ w \in Content(<<"jfc", h>>) /\ Owned /\ posted' = posted
          /\ Content(<<"jfc", h>>)' = Content(<<"jfc", h>>) \ {w}
          /\ Content(<<"polled", 0>>)' = Content(<<"polled", 0>>) \union {w}
      BY Zenon, <1>2, <1>3, <1>11, <2>3, <2>5, <3>1
    <3>3. FateAt(<<"jfc", h>>) = "done" /\ FateAt(<<"polled", 0>>) = "reaped"
      BY Zenon, FateAtIs
    <3> QED
      BY Zenon, <1>12, <2>2, <3>2, <3>3, MoveFrom
  <2>7. /\ polled' \in Seq(Cqe)
        /\ \A i \in DOMAIN polled' : polled'[i] = x \/ (i \in DOMAIN polled /\ polled'[i] = polled[i])
    <3>1. polled \in Seq(Cqe) /\ x \in Cqe
      BY Zenon, <1>2, <1>5
    <3> QED
      BY <2>1, <3>1, AppendElements
  <2>8. \A i \in DOMAIN polled' : polled'[i].work # 0 /\ polled'[i].jetty_id \in Handles
    BY Zenon, <1>2, <1>7, <1>15, <2>7 DEF Types
  <2>9. Types'
    BY Zenon, <1>2, <1>3, <1>9, <2>7, <2>8 DEF Types
  <2>10. ASSUME NEW g \in Handles, g # h
         PROVE  Sorted(g, jetty[g], polled', handler')
    <3>1. Sorted(g, jetty[g], polled, handler)
      BY Zenon DEF IInv
    <3>2. ~Filled(x, g)
      BY Zenon, <1>7, <2>10 DEF Filled
    <3>3. polled \in Seq(Cqe) /\ x \in Cqe /\ handler' = handler
      BY Zenon, <1>2, <1>3, <1>5
    <3>4. Sorted(g, jetty[g], Append(polled, x), handler)
      BY <3>1, <3>2, <3>3, PolledElsewhere
    <3> QED
      BY Zenon, <2>1, <3>3, <3>4
  <2> QED
    BY ZenonT(60), <1>3, <1>6, <1>8, <1>10, <1>13, <2>1, <2>5, <2>6, <2>9, <2>10, StepOn
<1> QED
  BY <1>14, <1>15

-----------------------------------------------------------------------------
(* The handler.                                                            *)

LEMMA HandlerTypes ==
    /\ NoFrame \in [pc : {"idle", "found", "matched"}, h : 0..MaxJettys, w : 0..MaxWork]
    /\ NoFrame.pc = "idle" /\ "idle" # "matched" /\ "found" # "matched" /\ "found" # "idle"
    /\ "matched" # "idle"
BY JettyAssumption DEF NoFrame

LEMMA LookupStep ==
    ASSUME IInv, NEW h \in Handles, handler_lookup(h)
    PROVE  IInv' /\ Carries
<1>1. Types /\ h \in 1..MaxJettys /\ handler.pc = "idle"
  BY HandleFacts DEF IInv, handler_lookup
<1>2. /\ handler' = [pc |-> "found", h |-> h, w |-> 0]
      /\ UNCHANGED <<jetty, default, posted, sending, polled, dropped, handed>>
  BY DEF handler_lookup
<1>3. /\ handler' \in [pc : {"idle", "found", "matched"}, h : 0..MaxJettys, w : 0..MaxWork]
      /\ handler'.pc = "found" /\ handler'.h = h
  BY <1>1, <1>2, JettyAssumption
<1>4. Types'
  BY Zenon, <1>1, <1>2, <1>3 DEF Types, Handles
<1>5. Content(<<"handler", 0>>)' = Content(<<"handler", 0>>)
  BY Zenon, <1>1, <1>3, HandlerTypes, ContentIs, ContentWillBe
<1> QED
  BY Zenon, <1>2, <1>3, <1>4, <1>5, HandlerTypes, StepOff

\* The handler pops the oldest buffer.
LEMMA PopRecvStep ==
    ASSUME IInv, pop_recv
    PROVE  IInv' /\ Carries
<1>0. PICK h : h = handler.h
  OBVIOUS
<1> DEFINE q == jetty[h]
           s == Tail(q.jfr)
           w == Head(q.jfr)
           r == [q EXCEPT !.jfr = s]
<1>1. Types /\ Owned /\ posted \in Nat /\ handler.pc = "found"
  BY DEF IInv, Types, pop_recv
<1>2. h \in Handles
  BY Zenon, <1>0, <1>1, HandlerTypes DEF Types
<1>3. UNCHANGED <<default, posted, sending, polled, dropped, handed>>
  BY DEF pop_recv
<1>4. /\ h \in 1..MaxJettys /\ h \in Nat /\ q \in JettyState
      /\ Good(h, q, posted) /\ Sorted(h, q, polled, handler)
      /\ q.jfs \in Seq(Work) /\ q.jfr \in Seq(Work) /\ q.jfc \in Seq(Cqe)
  BY <1>2, HandleFacts, Fields
<1>5. CASE handler' = NoFrame /\ UNCHANGED jetty
  <2>1. Types'
    BY Zenon, <1>1, <1>3, <1>5, HandlerTypes DEF Types, Handles
  <2>2. Content(<<"handler", 0>>)' = Content(<<"handler", 0>>)
    BY Zenon, <1>1, <1>5, HandlerTypes, ContentIs, ContentWillBe
  <2> QED
    BY Zenon, <1>3, <1>5, <2>1, <2>2, HandlerTypes, StepOff
<1>6. CASE /\ q.jfr # <<>> /\ handler' = [handler EXCEPT !.pc = "matched", !.w = w]
           /\ jetty' = [jetty EXCEPT ![h] = r]
  <2>1. s \in Seq(Work) /\ Len(s) <= Len(q.jfr)
    <3> HIDE DEF q
    <3> QED
      BY <1>4, <1>6
  <2>2. /\ Range(s) = Range(q.jfr) \ {w} /\ w \in Range(q.jfr) /\ w \in Work /\ Increasing(s)
        /\ \A v \in Range(s) : w < v
    BY Zenon, <1>4, <1>6, TailQueue DEF Good
  <2>3. /\ r \in JettyState /\ r.jfs = q.jfs /\ r.jfr = s /\ r.jfc = q.jfc
        /\ r.life = q.life /\ r.mark = q.mark
    <3> HIDE DEF q, s
    <3>1. q \in JettyState /\ s \in Seq(Work)
      BY Zenon, <1>4, <2>1
    <3> QED
      BY <3>1, JfrChanged
  <2>4. /\ handler' \in [pc : {"idle", "found", "matched"}, h : 0..MaxJettys, w : 0..MaxWork]
        /\ handler'.pc = "matched" /\ handler'.h = h /\ handler'.w = w
    <3>1. w \in 0..MaxWork
      BY <2>2, JettyAssumption DEF Work
    <3>2. handler \in [pc : {"idle", "found", "matched"}, h : 0..MaxJettys, w : 0..MaxWork]
      BY Zenon, <1>1 DEF Types
    <3> HIDE DEF w, q, r
    <3> QED
      BY Zenon, <1>0, <1>6, <3>1, <3>2
  <2> HIDE DEF r, q, s, w
  <2>5. /\ Handles' = Handles /\ jetty' \in Seq(JettyState) /\ Len(jetty') = Len(jetty) /\ jetty'[h] = r
    BY Zenon, <1>1, <1>2, <1>6, <2>3, Rewritten
  <2>6. Types'
    BY Zenon, <1>1, <1>2, <1>3, <2>4, <2>5 DEF Types
  <2>7. Owned' /\ Carries
    <3>1. PICK v : v = w
      BY Zenon
    <3>2. /\ v \in Content(<<"jfr", h>>)
          /\ Content(<<"jfr", h>>)' = Content(<<"jfr", h>>) \ {v}
      BY Zenon, <1>2, <2>2, <2>3, <2>5, <3>1, ContentIs, ContentWillBe DEF q
    <3>3. Content(<<"handler", 0>>) = {} /\ Content(<<"handler", 0>>)' = {v}
      BY Zenon, <1>1, <2>4, <3>1, HandlerTypes, ContentIs, ContentWillBe
    <3>4. Content(<<"handler", 0>>)' = Content(<<"handler", 0>>) \union {v}
      BY Zenon, <3>3
    <3>5. ASSUME NEW x \in Spots, x # <<"jfr", h>>, x # <<"handler", 0>>
          PROVE  Content(x)' = Content(x)
      BY ZenonT(60), <1>2, <1>3, <1>6, <2>3, <3>5, SpotKept DEF q
    <3>6. <<"jfr", h>> \in Spots /\ <<"handler", 0>> \in Spots /\ <<"jfr", h>> # <<"handler", 0>>
      BY Zenon, <1>4, SpotsApart
    <3>7. FateAt(<<"jfr", h>>) = "posted" /\ FateAt(<<"handler", 0>>) = "taken"
      BY Zenon, FateAtIs
    <3> QED
      BY Zenon, <1>1, <1>3, <3>2, <3>4, <3>5, <3>6, <3>7, MoveFrom
  <2>8. Good(h, r, posted')
    <3>1. Len(s) <= jfr_depth
      <4>1. Len(q.jfr) \in Nat /\ Len(s) \in Nat /\ Len(q.jfr) <= jfr_depth
        BY <1>4, <2>1 DEF Good
      <4> QED
        BY <2>1, <4>1, JettyAssumption
    <3> QED
      BY Zenon, <1>3, <1>4, <2>2, <2>3, <3>1 DEF Good
  <2>9. Sorted(h, r, polled', handler')
    BY Zenon, <1>3, <1>4, <2>2, <2>3, <2>4 DEF Sorted
  <2>10. ASSUME NEW g \in Handles, g # h
         PROVE  Sorted(g, jetty[g], polled', handler')
    <3>1. Sorted(g, jetty[g], polled, handler) /\ handler'.h # g
      BY Zenon, <2>4, <2>10 DEF IInv
    <3> QED
      BY Zenon, <1>3, <3>1, SortedElsewhere
  <2>11. NoTwice(polled')
    BY Zenon, <1>3 DEF IInv
  <2>12. posted <= posted'
    BY <1>1, <1>3
  <2> QED
    BY Zenon, <1>2, <1>6, <2>3, <2>6, <2>7, <2>8, <2>9, <2>10, <2>11, <2>12, StepOn
<1> QED
  BY Zenon, <1>0, <1>5, <1>6 DEF pop_recv

\* A completion that is pushed for the buffer in the handler's hands, or for
\* no buffer, comes after those of the buffers filled before.
LEMMA PushedHere ==
    ASSUME NEW g, NEW q, NEW r, NEW cqes, NEW f, NEW x \in Cqe, q.jfc \in Seq(Cqe),
           r.jfc = Append(q.jfc, x), r.jfr = q.jfr, Sorted(g, q, cqes, f),
           Filled(x, g) => f.pc = "matched" /\ f.h = g /\ x.work = f.w
    PROVE  Sorted(g, r, cqes, NoFrame)
<1> DEFINE c == q.jfc
           e == Append(q.jfc, x)
<1>1. \A i \in DOMAIN e : e[i] = x \/ (i \in DOMAIN c /\ e[i] = c[i])
  BY AppendElements
<1>2. InOrder(e, g)
  <2>1. InOrder(c, g) /\ (Filled(x, g) => \A i \in DOMAIN c : Filled(c[i], g) => c[i].work < x.work)
    BY Zenon DEF Sorted
  <2> HIDE DEF c
  <2>2. c \in Seq(Cqe)
    BY DEF c
  <2>3. InOrder(Append(c, x), g)
    BY Zenon, <2>1, <2>2, AppendInOrder
  <2> QED
    BY <2>3 DEF c
<1> HIDE DEF c, e
<1>3. ASSUME NEW i \in DOMAIN e, Filled(e[i], g)
      PROVE  /\ \A j \in DOMAIN cqes : Filled(cqes[j], g) => cqes[j].work < e[i].work
             /\ \A w \in Range(q.jfr) : e[i].work < w
  <2>1. CASE e[i] = x
    BY Zenon, <1>3, <2>1 DEF Sorted
  <2>2. CASE i \in DOMAIN c /\ e[i] = c[i]
    BY Zenon, <1>3, <2>2 DEF Sorted, c
  <2> QED
    BY Zenon, <1>1, <2>1, <2>2
<1>4. r.jfc = e
  BY DEF e
<1>5. NoFrame.pc # "matched"
  BY Zenon, HandlerTypes
<1>6. InOrder(cqes, g) /\ \A w \in Range(q.jfr) : \A i \in DOMAIN cqes : Filled(cqes[i], g) => cqes[i].work < w
  BY Zenon DEF Sorted
<1> QED
  BY Zenon, <1>2, <1>3, <1>4, <1>5, <1>6 DEF Sorted

\* push_cqe appends one completion, unless the queue is full.
LEMMA Pushed ==
    ASSUME IInv, NEW h \in Handles, NEW w \in 0..MaxWork, push_cqe(h, w)
    PROVE  \E r \in JettyState, x \in Cqe :
             /\ jetty' = [jetty EXCEPT ![h] = r]
             /\ r.jfs = jetty[h].jfs /\ r.jfr = jetty[h].jfr
             /\ r.life = jetty[h].life /\ r.mark = jetty[h].mark
             /\ x.work = w /\ x.jetty_id = h
             /\ r.jfc = IF Full(h) THEN jetty[h].jfc ELSE Append(jetty[h].jfc, x)
<1> DEFINE q == jetty[h]
           x == [work |-> w, status |-> "OK", jetty_id |-> h]
           s == IF Full(h) THEN q.jfc ELSE Append(q.jfc, x)
           r == [q EXCEPT !.jfc = s]
<1>1. h \in 1..MaxJettys /\ q \in JettyState /\ q.jfc \in Seq(Cqe)
  BY HandleFacts, Fields
<1>2. x \in Cqe /\ x.work = w /\ x.jetty_id = h
  BY <1>1 DEF Cqe
<1>3. jetty' = [jetty EXCEPT ![h] = r]
  BY Zenon DEF push_cqe
<1> HIDE DEF q, x
<1>4. Append(q.jfc, x) \in Seq(Cqe)
  BY <1>1, <1>2
<1>5. s \in Seq(Cqe)
  BY Zenon, <1>1, <1>4
<1> HIDE DEF s
<1>6. /\ r \in JettyState /\ r.jfs = q.jfs /\ r.jfr = q.jfr /\ r.jfc = s
      /\ r.life = q.life /\ r.mark = q.mark
  BY <1>1, <1>5, JfcChanged
<1> HIDE DEF r
<1> QED
  BY Zenon, <1>2, <1>3, <1>6 DEF s, q

\* What is common to the two handlers: the Jetty after the push.
LEMMA PushedGood ==
    ASSUME IInv, NEW h \in Handles, NEW r \in JettyState, NEW x \in Cqe,
           r.jfs = jetty[h].jfs, r.jfr = jetty[h].jfr, r.life = jetty[h].life, r.mark = jetty[h].mark,
           x.jetty_id = h, ~Full(h), r.jfc = Append(jetty[h].jfc, x),
           x.work = 0 \/ x.work \notin WorkOf(jetty[h].jfc)
    PROVE  /\ Good(h, r, posted) /\ WorkOf(r.jfc) = WorkOf(jetty[h].jfc) \union {x.work}
<1> DEFINE q == jetty[h]
           e == Append(q.jfc, x)
<1>1. Good(h, q, posted) /\ q \in JettyState /\ q.jfc \in Seq(Cqe) /\ Len(q.jfc) \in Nat /\ Len(q.jfc) < jfc_depth
  <2>1. q \in JettyState /\ Good(h, q, posted)
    BY HandleFacts
  <2>2. q.jfc \in Seq(Cqe)
    BY Zenon, <2>1, Fields
  <2>3. Len(q.jfc) \in Nat /\ ~(Len(q.jfc) >= jfc_depth)
    BY SMTT(30), <2>2 DEF Full
  <2> QED
    BY <2>1, <2>2, <2>3, JettyAssumption
<1> HIDE DEF q
<1>2. WorkOf(e) = WorkOf(q.jfc) \union {x.work} /\ NoTwice(e)
  <2>1. NoTwice(q.jfc) /\ q.jfc \in Seq(Cqe)
    BY Zenon, <1>1 DEF Good
  <2>2. x.work = 0 \/ x.work \notin WorkOf(q.jfc)
    BY DEF q
  <2> QED
    BY <2>1, <2>2, AppendCqes
<1>3. Len(e) <= jfc_depth + (IF q.life = "closed" THEN jfs_depth + jfr_depth ELSE 0)
  <2>1. Len(e) = Len(q.jfc) + 1
    BY <1>1
  <2> HIDE DEF e
  <2> QED
    BY <1>1, <2>1, JettyAssumption
<1>4. \A i \in DOMAIN e : e[i].jetty_id = h
  <2>1. \A i \in DOMAIN e : e[i] = x \/ (i \in DOMAIN q.jfc /\ e[i] = q.jfc[i])
    BY <1>1, AppendElements
  <2> HIDE DEF e
  <2> QED
    BY ZenonT(60), <1>1, <2>1 DEF Good
<1>5. r.jfc = e /\ r.jfs = q.jfs /\ r.jfr = q.jfr /\ r.life = q.life /\ r.mark = q.mark
  BY Zenon DEF q
<1> HIDE DEF e
<1>6. Good(h, r, posted)
  BY Zenon, <1>1, <1>2, <1>3, <1>4, <1>5 DEF Good
<1> QED
  BY Zenon, <1>2, <1>5, <1>6 DEF q

LEMMA WriteImmStep ==
    ASSUME IInv, handle_write_imm
    PROVE  IInv' /\ Carries
<1>0. PICK h : h = handler.h
  OBVIOUS
<1>1. Types /\ Owned /\ posted \in Nat /\ handler.pc = "found" /\ 0 \in 0..MaxWork
  BY JettyAssumption DEF IInv, Types, handle_write_imm
<1>2. h \in Handles /\ h \in Nat
  <2>1. h \in Handles
    BY Zenon, <1>0, <1>1, HandlerTypes DEF Types
  <2> QED
    BY <2>1, HandleFacts
<1>3. push_cqe(h, 0) /\ handler' = NoFrame /\ UNCHANGED <<default, posted, sending, polled, dropped, handed>>
  BY Zenon, <1>0 DEF handle_write_imm
<1>4. PICK r \in JettyState, x \in Cqe :
        /\ jetty' = [jetty EXCEPT ![h] = r]
        /\ r.jfs = jetty[h].jfs /\ r.jfr = jetty[h].jfr
        /\ r.life = jetty[h].life /\ r.mark = jetty[h].mark
        /\ x.work = 0 /\ x.jetty_id = h
        /\ r.jfc = IF Full(h) THEN jetty[h].jfc ELSE Append(jetty[h].jfc, x)
  BY Zenon, <1>1, <1>2, <1>3, Pushed
<1>5. /\ Handles' = Handles /\ jetty' \in Seq(JettyState) /\ Len(jetty') = Len(jetty) /\ jetty'[h] = r
  BY Zenon, <1>1, <1>2, <1>4, Rewritten
<1>6. Types'
  BY Zenon, <1>1, <1>3, <1>5, HandlerTypes DEF Types
<1>7. /\ jetty[h] \in JettyState /\ jetty[h].jfc \in Seq(Cqe)
      /\ Good(h, jetty[h], posted) /\ Sorted(h, jetty[h], polled, handler)
  BY <1>2, HandleFacts, Fields
<1>8. Good(h, r, posted) /\ WorkOf(r.jfc) \ {0} = WorkOf(jetty[h].jfc) \ {0}
  <2>1. CASE Full(h)
    BY Zenon, <1>4, <1>7, <2>1 DEF Good
  <2>2. CASE ~Full(h)
    <3>1. Good(h, r, posted) /\ WorkOf(r.jfc) = WorkOf(jetty[h].jfc) \union {0}
      BY Zenon, <1>2, <1>4, <2>2, PushedGood
    <3> QED
      BY Zenon, <3>1
  <2> QED
    BY <2>1, <2>2
<1>9. Sorted(h, r, polled, NoFrame)
  <2>1. CASE Full(h)
    <3>1. NoFrame.pc # "matched"
      BY Zenon, HandlerTypes
    <3> QED
      BY Zenon, <1>4, <1>7, <2>1, <3>1 DEF Sorted
  <2>2. CASE ~Full(h)
    <3>1. ~Filled(x, h) /\ r.jfc = Append(jetty[h].jfc, x)
      BY Zenon, <1>4, <2>2 DEF Filled
    <3> QED
      BY <1>4, <1>7, <3>1, PushedHere
  <2> QED
    BY <2>1, <2>2
<1>10. Owned' /\ Carries
  <2>1. Content(<<"jfc", h>>)' = Content(<<"jfc", h>>)
    BY Zenon, <1>2, <1>5, <1>8, ContentIs, ContentWillBe
  <2>2. Content(<<"handler", 0>>)' = Content(<<"handler", 0>>)
    BY Zenon, <1>1, <1>3, HandlerTypes, ContentIs, ContentWillBe
  <2>3. ASSUME NEW y \in Spots
        PROVE  Content(y)' = Content(y)
    <3>1. CASE y = <<"jfc", h>>
      BY Zenon, <2>1, <3>1
    <3>2. CASE y # <<"jfc", h>>
      <4>1. /\ jetty' = [jetty EXCEPT ![h] = r] /\ r.jfs = jetty[h].jfs /\ r.jfr = jetty[h].jfr
            /\ polled' = polled /\ handed' = handed /\ dropped' = dropped
        BY Zenon, <1>3, <1>4
      <4> QED
        BY Zenon, <1>2, <2>2, <3>2, <4>1, SpotKept
    <3> QED
      BY <3>1, <3>2
  <2> QED
    BY Zenon, <1>1, <1>3, <2>3, NothingMoves
<1>11. ASSUME NEW g \in Handles
       PROVE  Sorted(g, jetty[g], polled', handler')
  <2>1. Sorted(g, jetty[g], polled, handler) /\ handler'.pc # "matched"
    BY Zenon, <1>3, HandlerTypes DEF IInv
  <2> QED
    BY Zenon, <1>3, <2>1, SortedElsewhere
<1>12. NoTwice(polled')
  BY Zenon, <1>3 DEF IInv
<1>13. posted <= posted'
  BY <1>1, <1>3
<1>14. Good(h, r, posted') /\ Sorted(h, r, polled', handler')
  BY Zenon, <1>3, <1>8, <1>9
<1> QED
  BY Zenon, <1>2, <1>4, <1>6, <1>10, <1>11, <1>12, <1>13, <1>14, StepOn

\* The handler completes the buffer it popped, or the completion is dropped.
LEMMA SendCompleteStep ==
    ASSUME IInv, handle_send_complete
    PROVE  IInv' /\ Carries
<1>0. PICK h, w : h = handler.h /\ w = handler.w
  BY Zenon
<1>1. Types /\ Owned /\ posted \in 0..MaxWork /\ posted \in Nat /\ handler.pc = "matched" /\ dropped \subseteq Work
  BY DEF IInv, Types, handle_send_complete
<1>2. h \in Handles /\ h \in Nat
  <2>1. h \in Handles
    BY Zenon, <1>0, <1>1, HandlerTypes DEF Types
  <2> QED
    BY <2>1, HandleFacts
<1>3. w \in 1..posted /\ w \in 0..MaxWork /\ w \in Work /\ w # 0
  <2>1. w \in 1..posted
    BY Zenon, <1>0, <1>1, <1>2, WorkKnown
  <2> QED
    BY <1>1, <2>1, JettyAssumption DEF Work
<1>4. /\ push_cqe(h, w) /\ handler' = NoFrame /\ UNCHANGED <<default, posted, sending, polled, handed>>
      /\ dropped' = IF Full(h) THEN dropped \union {w} ELSE dropped
  BY Zenon, <1>0 DEF handle_send_complete
<1>5. PICK r \in JettyState, x \in Cqe :
        /\ jetty' = [jetty EXCEPT ![h] = r]
        /\ r.jfs = jetty[h].jfs /\ r.jfr = jetty[h].jfr
        /\ r.life = jetty[h].life /\ r.mark = jetty[h].mark
        /\ x.work = w /\ x.jetty_id = h
        /\ r.jfc = IF Full(h) THEN jetty[h].jfc ELSE Append(jetty[h].jfc, x)
  BY Zenon, <1>2, <1>3, <1>4, Pushed
<1>6. /\ Handles' = Handles /\ jetty' \in Seq(JettyState) /\ Len(jetty') = Len(jetty) /\ jetty'[h] = r
  BY Zenon, <1>1, <1>2, <1>5, Rewritten
<1>7. dropped' \subseteq Work
  BY Zenon, <1>1, <1>3, <1>4
<1>8. Types'
  BY Zenon, <1>1, <1>4, <1>6, <1>7, HandlerTypes DEF Types
<1>9. /\ jetty[h] \in JettyState /\ jetty[h].jfc \in Seq(Cqe)
      /\ Good(h, jetty[h], posted) /\ Sorted(h, jetty[h], polled, handler)
  BY <1>2, HandleFacts, Fields
<1>10. /\ Content(<<"handler", 0>>) = {w} /\ Content(<<"handler", 0>>)' = {}
       /\ Content(<<"jfc", h>>) = WorkOf(jetty[h].jfc) \ {0} /\ Content(<<"jfc", h>>)' = WorkOf(r.jfc) \ {0}
       /\ Content(<<"dropped", 0>>) = dropped /\ Content(<<"dropped", 0>>)' = dropped'
  BY Zenon, <1>0, <1>1, <1>2, <1>4, <1>6, HandlerTypes, ContentIs, ContentWillBe
<1>11. /\ <<"jfc", h>> \in Spots /\ <<"handler", 0>> \in Spots /\ <<"dropped", 0>> \in Spots
       /\ <<"jfc", h>> # <<"handler", 0>> /\ <<"handler", 0>> # <<"dropped", 0>> /\ <<"jfc", h>> # <<"dropped", 0>>
  BY Zenon, <1>2, SpotsApart
<1>12. w \notin WorkOf(jetty[h].jfc)
  <2>1. \A v \in Content(<<"handler", 0>>) : v \notin Content(<<"jfc", h>>)
    BY Zenon, <1>1, <1>11, Apart
  <2> QED
    BY Zenon, <1>3, <1>10, <2>1
<1>13. ASSUME NEW y \in Spots, y # <<"jfc", h>>, y # <<"handler", 0>>, y # <<"dropped", 0>>
       PROVE  Content(y)' = Content(y)
  <2>1. /\ jetty' = [jetty EXCEPT ![h] = r] /\ r.jfs = jetty[h].jfs /\ r.jfr = jetty[h].jfr
        /\ polled' = polled /\ handed' = handed
    BY Zenon, <1>4, <1>5
  <2> QED
    BY Zenon, <1>2, <1>13, <2>1, SpotKept
<1>14. w \in Content(<<"handler", 0>>) /\ Content(<<"handler", 0>>)' = Content(<<"handler", 0>>) \ {w}
  BY Zenon, <1>10
<1>15. ASSUME NEW g \in Handles
       PROVE  Sorted(g, jetty[g], polled', handler')
  <2>1. Sorted(g, jetty[g], polled, handler) /\ handler'.pc # "matched"
    BY Zenon, <1>4, HandlerTypes DEF IInv
  <2> QED
    BY Zenon, <1>4, <2>1, SortedElsewhere
<1>16. NoTwice(polled')
  BY Zenon, <1>4 DEF IInv
<1>17. posted <= posted'
  BY <1>1, <1>4
<1>20. /\ FateAt(<<"handler", 0>>) = "taken" /\ FateAt(<<"dropped", 0>>) = "dropped"
       /\ FateAt(<<"jfc", h>>) = "done"
  BY Zenon, FateAtIs
<1>18. CASE Full(h)
  <2>1. Good(h, r, posted')
    BY Zenon, <1>4, <1>5, <1>9, <1>18 DEF Good
  <2>2. Sorted(h, r, polled', handler')
    <3>1. handler'.pc # "matched"
      BY Zenon, <1>4, HandlerTypes
    <3> QED
      BY Zenon, <1>4, <1>5, <1>9, <1>18, <3>1 DEF Sorted
  <2>3. /\ Content(<<"dropped", 0>>)' = Content(<<"dropped", 0>>) \union {w}
        /\ Content(<<"jfc", h>>)' = Content(<<"jfc", h>>)
    BY Zenon, <1>4, <1>5, <1>10, <1>18
  <2>4. \A y \in Spots : y # <<"handler", 0>> /\ y # <<"dropped", 0>> => Content(y)' = Content(y)
    BY Zenon, <1>13, <2>3
  <2>5. Owned' /\ Carries
    BY Zenon, <1>1, <1>4, <1>11, <1>14, <1>20, <2>3, <2>4, MoveFrom
  <2> QED
    BY Zenon, <1>2, <1>5, <1>8, <1>15, <1>16, <1>17, <2>1, <2>2, <2>5, StepOn
<1>19. CASE ~Full(h)
  <2>1. Good(h, r, posted) /\ WorkOf(r.jfc) = WorkOf(jetty[h].jfc) \union {w}
    BY Zenon, <1>2, <1>5, <1>12, <1>19, PushedGood
  <2>2. Sorted(h, r, polled, NoFrame)
    <3>1. r.jfc = Append(jetty[h].jfc, x) /\ r.jfr = jetty[h].jfr
      BY Zenon, <1>5, <1>19
    <3>2. Filled(x, h) => handler.pc = "matched" /\ handler.h = h /\ x.work = handler.w
      BY Zenon, <1>0, <1>1, <1>5
    <3> QED
      BY <1>9, <3>1, <3>2, PushedHere
  <2>3. Good(h, r, posted') /\ Sorted(h, r, polled', handler')
    BY Zenon, <1>4, <2>1, <2>2
  <2>4. /\ Content(<<"jfc", h>>)' = Content(<<"jfc", h>>) \union {w}
        /\ Content(<<"dropped", 0>>)' = Content(<<"dropped", 0>>)
    BY Zenon, <1>3, <1>4, <1>10, <1>19, <2>1
  <2>5. \A y \in Spots : y # <<"handler", 0>> /\ y # <<"jfc", h>> => Content(y)' = Content(y)
    BY Zenon, <1>13, <2>4
  <2>6. Owned' /\ Carries
    BY Zenon, <1>1, <1>4, <1>11, <1>14, <1>20, <2>4, <2>5, MoveFrom
  <2> QED
    BY Zenon, <1>2, <1>5, <1>8, <1>15, <1>16, <1>17, <2>3, <2>6, StepOn
<1> QED
  BY <1>18, <1>19

-----------------------------------------------------------------------------
(* The invariant.                                                          *)

LEMMA Initially == Init => IInv
<1> SUFFICES ASSUME Init
             PROVE  IInv
  OBVIOUS
<1>1. /\ jetty = <<>> /\ default = 0 /\ posted = 0 /\ handler = NoFrame
      /\ sending = [s \in Senders |-> 0] /\ polled = <<>> /\ dropped = {} /\ handed = {}
  BY DEF Init
<1>2. /\ Handles = {} /\ Len(jetty) = 0 /\ jetty \in Seq(JettyState) /\ polled \in Seq(Cqe)
      /\ DOMAIN polled = {} /\ 1..posted = {}
  BY <1>1 DEF Handles
<1>3. Types
  <2>1. 0 <= MaxJettys /\ 0 \in 0..MaxJettys /\ 0 \in 0..MaxWork
    BY JettyAssumption
  <2>2. sending \in [Senders -> 0..Len(jetty)]
    BY <1>1, <1>2
  <2> QED
    BY Zenon, <1>1, <1>2, <2>1, <2>2, HandlerTypes DEF Types
<1>4. NoTwice(polled) /\ WorkOf(polled) = {}
  BY <1>2 DEF NoTwice, WorkOf
<1>5. ASSUME NEW x \in Spots
      PROVE  Content(x) = {}
  <2>1. x[1] \in {"jfs", "jfr", "jfc", "polled", "handler", "handed", "dropped"}
    BY DEF Spots
  <2>2. handler.pc # "matched"
    BY Zenon, <1>1, HandlerTypes
  <2> QED
    BY <1>1, <1>2, <1>4, <2>1, <2>2 DEF Content
<1>6. Owned
  BY Zenon, <1>2, <1>5 DEF Owned
<1> QED
  BY Zenon, <1>2, <1>3, <1>4, <1>6 DEF IInv

LEMMA Stuttering ==
    ASSUME IInv, UNCHANGED vars
    PROVE  IInv' /\ Carries
<1>1. Types'
  BY Zenon DEF IInv, Types, vars, Handles
<1>2. Content(<<"handler", 0>>)' = Content(<<"handler", 0>>)
  BY Zenon, ContentIs, ContentWillBe DEF vars
<1> QED
  BY Zenon, <1>1, <1>2, StepOff DEF vars

LEMMA Stepwise ==
    ASSUME IInv, [Next]_vars
    PROVE  IInv' /\ Carries
<1>1. CASE create_insert
  BY Zenon, <1>1, CreateStep
<1>2. ASSUME NEW h \in Handles,
             create_default(h) \/ deregister_remove(h) \/ deregister_default(h) \/ close(h)
      PROVE  IInv' /\ Carries
  BY Zenon, <1>2, TableStep, CloseStep
<1>3. ASSUME NEW h \in Handles,
             \/ post_recv(h) \/ pop_send(h) \/ poll_cqe(h) \/ handler_lookup(h)
             \/ \E s \in Senders : post_send_check(s, h)
      PROVE  IInv' /\ Carries
  BY Zenon, <1>3, PostRecvStep, PopSendStep, PollStep, LookupStep, PostSendCheckStep
<1>4. ASSUME NEW s \in Senders, post_send_push(s)
      PROVE  IInv' /\ Carries
  BY Zenon, <1>4, PostSendPushStep
<1>5. CASE pop_recv
  BY Zenon, <1>5, PopRecvStep
<1>6. CASE handle_send_complete
  BY Zenon, <1>6, SendCompleteStep
<1>7. CASE handle_write_imm
  BY Zenon, <1>7, WriteImmStep
<1>8. CASE UNCHANGED vars
  BY Zenon, <1>8, Stuttering
<1> QED
  BY Zenon, <1>1, <1>2, <1>3, <1>4, <1>5, <1>6, <1>7, <1>8 DEF Next

\* The queues keep to their depths and in order, and every buffer and request
\* is at one spot, whatever tasks post, poll, serve frames and deregister.
THEOREM QueueInvariant == Spec => []IInv
<1>1. IInv /\ [Next]_vars => IInv'
  BY Zenon, Stepwise
<1> QED
  BY <1>1, Initially, PTL DEF Spec

\* Every variable has its shape, and no post overfills a JFS or a JFR.
THEOREM TypeCorrectness == Spec => []TypeOK
<1>1. ASSUME IInv
      PROVE  TypeOK
  <2>1. \A h \in Handles : Len(jetty[h].jfs) <= jfs_depth /\ Len(jetty[h].jfr) <= jfr_depth
    BY Zenon, <1>1 DEF IInv, Good
  <2>2. sending \in [Senders -> 0..MaxJettys]
    <3>1. sending \in [Senders -> 0..Len(jetty)] /\ Len(jetty) \in Nat /\ Len(jetty) <= MaxJettys
      BY <1>1 DEF IInv, Types
    <3>2. 0..Len(jetty) \subseteq 0..MaxJettys
      BY <3>1, JettyAssumption
    <3> QED
      BY <3>1, <3>2
  <2> QED
    BY Zenon, <1>1, <2>1, <2>2 DEF IInv, Types, TypeOK, JettyState
<1> QED
  BY <1>1, QueueInvariant, PTL

\* A JFC holds more than its depth only after close flushed into it.
THEOREM CompletionsBounded == Spec => []JfcBounded
<1>1. IInv => JfcBounded
  BY Zenon DEF IInv, Good, JfcBounded
<1> QED
  BY <1>1, QueueInvariant, PTL

\* What a closed Jetty still holds was posted after close emptied its queues.
THEOREM CloseFlushesAll == Spec => []FlushIsComplete
<1>1. ASSUME IInv, NEW h \in Handles, jetty[h].life = "closed", NEW w \in Range(jetty[h].jfs \o jetty[h].jfr)
      PROVE  w > jetty[h].mark
  <2> DEFINE c == jetty[h].jfs
             d == jetty[h].jfr
             e == c \o d
  <2>1. c \in Seq(Work) /\ d \in Seq(Work) /\ Good(h, jetty[h], posted)
    BY <1>1, HandleFacts, Fields
  <2>2. \A i \in DOMAIN e :
           \/ i \in DOMAIN c /\ e[i] = c[i]
           \/ i \notin DOMAIN c /\ i - Len(c) \in DOMAIN d /\ e[i] = d[i - Len(c)]
    <3> HIDE DEF c, d
    <3> QED
      BY <2>1, ConcatOf
  <2>3. PICK i \in DOMAIN e : w = e[i]
    <3>1. w \in Range(e)
      BY <1>1
    <3> HIDE DEF e
    <3> QED
      BY Zenon, <3>1, InRange
  <2>4. (\A k \in DOMAIN c : c[k] \in Range(c)) /\ \A k \in DOMAIN d : d[k] \in Range(d)
    BY Zenon, InRange
  <2>5. w \in Range(c) \/ w \in Range(d)
    <3> HIDE DEF c, d, e
    <3> QED
      BY Zenon, <2>2, <2>3, <2>4
  <2> QED
    BY Zenon, <1>1, <2>1, <2>5 DEF Good
<1>2. IInv => FlushIsComplete
  BY Zenon, <1>1 DEF FlushIsComplete
<1> QED
  BY <1>2, QueueInvariant, PTL

\* The default Jetty stays the default while it is in the table.
THEOREM DefaultStays == Spec => DefaultKept
<1>1. [Next]_vars => [default # 0 /\ jetty[default].life = "listed" => default' = default]_vars
  <2> SUFFICES ASSUME Next, default # 0, jetty[default].life = "listed"
               PROVE  default' = default
    BY Zenon
  <2>1. "removed" # "listed"
    OBVIOUS
  <2>2. \A h \in Handles : deregister_default(h) => default' = default
    BY Zenon, <2>1 DEF deregister_default
  <2>3. \A h \in Handles : create_default(h) => default' = default
    BY Zenon DEF create_default
  <2>4. \A h \in Handles :
          \/ deregister_remove(h) \/ close(h) \/ post_recv(h) \/ pop_send(h) \/ poll_cqe(h)
          \/ handler_lookup(h) \/ \E s \in Senders : post_send_check(s, h)
          => default' = default
    BY Zenon DEF deregister_remove, close, post_recv, pop_send, poll_cqe, handler_lookup, post_send_check
  <2>5. \/ create_insert \/ pop_recv \/ handle_send_complete \/ handle_write_imm
        \/ \E s \in Senders : post_send_push(s)
        => default' = default
    BY Zenon DEF create_insert, pop_recv, handle_send_complete, handle_write_imm, post_send_push
  <2> QED
    BY Zenon, <2>2, <2>3, <2>4, <2>5 DEF Next
<1> QED
  BY <1>1, PTL DEF Spec, DefaultKept

\* Of a Jetty's buffers the one posted first is filled first.
THEOREM BuffersFillInOrder == Spec => []ReceivesInOrder
<1>1. ASSUME IInv, NEW h \in Handles
      PROVE  LET e == polled \o jetty[h].jfc IN
               \A i, j \in DOMAIN e :
                 i < j /\ Filled(e[i], h) /\ Filled(e[j], h) => e[i].work < e[j].work
  <2> DEFINE c == polled
             d == jetty[h].jfc
             e == c \o d
             n == Len(c)
  <2>1. c \in Seq(Cqe) /\ d \in Seq(Cqe) /\ Sorted(h, jetty[h], c, handler)
    <3>1. jetty[h] \in JettyState /\ Sorted(h, jetty[h], polled, handler)
      BY <1>1, HandleFacts
    <3> QED
      BY Zenon, <1>1, <3>1, Fields DEF IInv, Types
  <2>2. /\ \A i \in DOMAIN e :
             \/ i \in DOMAIN c /\ e[i] = c[i]
             \/ /\ i \notin DOMAIN c /\ i - n \in DOMAIN d /\ e[i] = d[i - n]
                /\ \A j \in DOMAIN c : ~(i < j)
        /\ \A i, j \in DOMAIN e : i < j => i - n < j - n
    <3> HIDE DEF c, d
    <3> QED
      BY <2>1, ConcatOf
  <2>3. /\ InOrder(c, h) /\ InOrder(d, h)
        /\ \A i \in DOMAIN c, j \in DOMAIN d : Filled(c[i], h) /\ Filled(d[j], h) => c[i].work < d[j].work
    BY Zenon, <2>1 DEF Sorted
  <2> HIDE DEF c, d, e, n
  <2>4. ASSUME NEW i \in DOMAIN e, NEW j \in DOMAIN e, i < j, Filled(e[i], h), Filled(e[j], h)
        PROVE  e[i].work < e[j].work
    <3>1. CASE i \in DOMAIN c /\ e[i] = c[i] /\ j \in DOMAIN c /\ e[j] = c[j]
      BY Zenon, <2>3, <2>4, <3>1 DEF InOrder
    <3>2. CASE i \in DOMAIN c /\ e[i] = c[i] /\ j - n \in DOMAIN d /\ e[j] = d[j - n]
      BY Zenon, <2>3, <2>4, <3>2
    <3>3. CASE i - n \in DOMAIN d /\ e[i] = d[i - n] /\ j - n \in DOMAIN d /\ e[j] = d[j - n]
      <4>1. i - n < j - n
        BY Zenon, <2>2, <2>4
      <4> QED
        BY Zenon, <2>3, <2>4, <3>3, <4>1 DEF InOrder
    <3> QED
      BY Zenon, <2>2, <2>4, <3>1, <3>2, <3>3
  <2> QED
    BY Zenon, <2>4 DEF e, c, d
<1>2. IInv => ReceivesInOrder
  BY Zenon, <1>1 DEF ReceivesInOrder, Filled
<1> QED
  BY <1>2, QueueInvariant, PTL

-----------------------------------------------------------------------------
(* Every buffer and request is in exactly one place.                       *)

JfsPlaces(w) == UNION {{<<"jfs", h, i>> : i \in Held(jetty[h].jfs, w)} : h \in Handles}
JfrPlaces(w) == UNION {{<<"jfr", h, i>> : i \in Held(jetty[h].jfr, w)} : h \in Handles}
JfcPlaces(w) == UNION {{<<"jfc", h, i>> : i \in Completions(jetty[h].jfc, w)} : h \in Handles}
PolledPlaces(w) == {<<"polled", 0, i>> : i \in Completions(polled, w)}
HandlerPlaces(w) == IF handler.pc = "matched" /\ handler.w = w THEN {<<"handler", 0, 0>>} ELSE {}
HandedPlaces(w) == IF w \in handed THEN {<<"handed", 0, 0>>} ELSE {}
DroppedPlaces(w) == IF w \in dropped THEN {<<"dropped", 0, 0>>} ELSE {}

LEMMA PlacesAre ==
    ASSUME NEW w, NEW p
    PROVE  p \in Places(w) <=> \/ p \in JfsPlaces(w) \/ p \in JfrPlaces(w) \/ p \in JfcPlaces(w)
                               \/ p \in PolledPlaces(w) \/ p \in HandlerPlaces(w)
                               \/ p \in HandedPlaces(w) \/ p \in DroppedPlaces(w)
<1>1. Places(w) = JfsPlaces(w) \union JfrPlaces(w) \union JfcPlaces(w) \union PolledPlaces(w)
                  \union HandlerPlaces(w) \union HandedPlaces(w) \union DroppedPlaces(w)
  BY DEF Places, JfsPlaces, JfrPlaces, JfcPlaces, PolledPlaces, HandlerPlaces, HandedPlaces, DroppedPlaces
<1> QED
  BY Zenon, <1>1

\* A place is a spot and a position there.
LEMMA PlaceIs ==
    ASSUME NEW w, w # 0, NEW p \in Places(w)
    PROVE  \/ \E h \in Handles : \E i \in DOMAIN jetty[h].jfs : p = <<"jfs", h, i>> /\ jetty[h].jfs[i] = w
           \/ \E h \in Handles : \E i \in DOMAIN jetty[h].jfr : p = <<"jfr", h, i>> /\ jetty[h].jfr[i] = w
           \/ \E h \in Handles : \E i \in DOMAIN jetty[h].jfc : p = <<"jfc", h, i>> /\ jetty[h].jfc[i].work = w
           \/ \E i \in DOMAIN polled : p = <<"polled", 0, i>> /\ polled[i].work = w
           \/ p = <<"handler", 0, 0>> /\ handler.pc = "matched" /\ handler.w = w
           \/ p = <<"handed", 0, 0>> /\ w \in handed
           \/ p = <<"dropped", 0, 0>> /\ w \in dropped
<1>1. CASE p \in JfsPlaces(w)
  BY Zenon, <1>1 DEF Held, JfsPlaces
<1>2. CASE p \in JfrPlaces(w)
  BY Zenon, <1>2 DEF Held, JfrPlaces
<1>3. CASE p \in JfcPlaces(w)
  BY Zenon, <1>3 DEF Completions, JfcPlaces
<1>4. CASE p \in PolledPlaces(w)
  BY Zenon, <1>4 DEF Completions, PolledPlaces
<1>5. CASE p \in HandlerPlaces(w)
  BY Zenon, <1>5 DEF HandlerPlaces
<1>6. CASE p \in HandedPlaces(w)
  BY Zenon, <1>6 DEF HandedPlaces
<1>7. CASE p \in DroppedPlaces(w)
  BY Zenon, <1>7 DEF DroppedPlaces
<1> QED
  BY Zenon, <1>1, <1>2, <1>3, <1>4, <1>5, <1>6, <1>7, PlacesAre

\* Work at a spot has a place there.
LEMMA SpotHasPlace ==
    ASSUME NEW w, NEW x \in Spots, w \in Content(x)
    PROVE  Places(w) # {}
<1>1. x = <<x[1], x[2]>> /\ x[1] \in {"jfs", "jfr", "jfc", "polled", "handler", "handed", "dropped"}
  BY DEF Spots
<1>2. CASE x[1] = "jfs"
  <2>1. x[2] \in Handles /\ w \in Range(jetty[x[2]].jfs)
    BY <1>2 DEF Content
  <2>2. PICK i \in DOMAIN jetty[x[2]].jfs : w = jetty[x[2]].jfs[i]
    BY Zenon, <2>1, InRange
  <2>4. <<"jfs", x[2], i>> \in {<<"jfs", x[2], j>> : j \in Held(jetty[x[2]].jfs, w)}
    BY Zenon, <2>2 DEF Held
  <2>3. <<"jfs", x[2], i>> \in JfsPlaces(w)
    BY <2>1, <2>4 DEF JfsPlaces
  <2> QED
    BY Zenon, <2>3, PlacesAre
<1>3. CASE x[1] = "jfr"
  <2>1. x[2] \in Handles /\ w \in Range(jetty[x[2]].jfr)
    BY <1>3 DEF Content
  <2>2. PICK i \in DOMAIN jetty[x[2]].jfr : w = jetty[x[2]].jfr[i]
    BY Zenon, <2>1, InRange
  <2>4. <<"jfr", x[2], i>> \in {<<"jfr", x[2], j>> : j \in Held(jetty[x[2]].jfr, w)}
    BY Zenon, <2>2 DEF Held
  <2>3. <<"jfr", x[2], i>> \in JfrPlaces(w)
    BY <2>1, <2>4 DEF JfrPlaces
  <2> QED
    BY Zenon, <2>3, PlacesAre
<1>4. CASE x[1] = "jfc"
  <2>1. x[2] \in Handles /\ w \in WorkOf(jetty[x[2]].jfc)
    BY <1>4 DEF Content
  <2>2. PICK i \in DOMAIN jetty[x[2]].jfc : w = jetty[x[2]].jfc[i].work
    BY Zenon, <2>1, InWorkOf
  <2>4. <<"jfc", x[2], i>> \in {<<"jfc", x[2], j>> : j \in Completions(jetty[x[2]].jfc, w)}
    BY Zenon, <2>2 DEF Completions
  <2>3. <<"jfc", x[2], i>> \in JfcPlaces(w)
    BY <2>1, <2>4 DEF JfcPlaces
  <2> QED
    BY Zenon, <2>3, PlacesAre
<1>5. CASE x[1] = "polled"
  <2>1. w \in WorkOf(polled)
    BY <1>5 DEF Content
  <2>2. PICK i \in DOMAIN polled : w = polled[i].work
    BY Zenon, <2>1, InWorkOf
  <2>3. <<"polled", 0, i>> \in PolledPlaces(w)
    BY Zenon, <2>1, <2>2 DEF PolledPlaces, Completions
  <2> QED
    BY Zenon, <2>3, PlacesAre
<1>6. CASE x[1] = "handler"
  <2>1. handler.pc = "matched" /\ handler.w = w
    BY <1>6 DEF Content
  <2>2. <<"handler", 0, 0>> \in HandlerPlaces(w)
    BY Zenon, <2>1 DEF HandlerPlaces
  <2> QED
    BY Zenon, <2>2, PlacesAre
<1>7. CASE x[1] = "handed"
  <2>1. w \in handed
    BY <1>7 DEF Content
  <2>2. <<"handed", 0, 0>> \in HandedPlaces(w)
    BY Zenon, <2>1 DEF HandedPlaces
  <2> QED
    BY Zenon, <2>2, PlacesAre
<1>8. CASE x[1] = "dropped"
  <2>1. w \in dropped
    BY <1>8 DEF Content
  <2>2. <<"dropped", 0, 0>> \in DroppedPlaces(w)
    BY Zenon, <2>1 DEF DroppedPlaces
  <2> QED
    BY Zenon, <2>2, PlacesAre
<1> QED
  BY Zenon, <1>1, <1>2, <1>3, <1>4, <1>5, <1>6, <1>7, <1>8

\* The place p is at the spot x.
At(p, x, w) ==
    \/ /\ x[1] = "jfs" /\ x[2] \in Handles
       /\ \E i \in DOMAIN jetty[x[2]].jfs : p = <<"jfs", x[2], i>> /\ jetty[x[2]].jfs[i] = w
    \/ /\ x[1] = "jfr" /\ x[2] \in Handles
       /\ \E i \in DOMAIN jetty[x[2]].jfr : p = <<"jfr", x[2], i>> /\ jetty[x[2]].jfr[i] = w
    \/ /\ x[1] = "jfc" /\ x[2] \in Handles
       /\ \E i \in DOMAIN jetty[x[2]].jfc : p = <<"jfc", x[2], i>> /\ jetty[x[2]].jfc[i].work = w
    \/ x[1] = "polled" /\ \E i \in DOMAIN polled : p = <<"polled", 0, i>> /\ polled[i].work = w
    \/ x[1] = "handler" /\ p = <<"handler", 0, 0>>
    \/ x[1] = "handed" /\ p = <<"handed", 0, 0>>
    \/ x[1] = "dropped" /\ p = <<"dropped", 0, 0>>

\* What At says of each kind of spot.
LEMMA AtQueue ==
    ASSUME NEW p, NEW x, NEW w, At(p, x, w)
    PROVE  /\ x[1] = "jfs" => x[2] \in Handles /\ \E i \in DOMAIN jetty[x[2]].jfs :
                                p = <<"jfs", x[2], i>> /\ jetty[x[2]].jfs[i] = w
           /\ x[1] = "jfr" => x[2] \in Handles /\ \E i \in DOMAIN jetty[x[2]].jfr :
                                p = <<"jfr", x[2], i>> /\ jetty[x[2]].jfr[i] = w
           /\ x[1] = "jfc" => x[2] \in Handles /\ \E i \in DOMAIN jetty[x[2]].jfc :
                                p = <<"jfc", x[2], i>> /\ jetty[x[2]].jfc[i].work = w
BY Zenon DEF At

LEMMA AtOther ==
    ASSUME NEW p, NEW x, NEW w, At(p, x, w)
    PROVE  /\ x[1] = "polled" => \E i \in DOMAIN polled :
                                   p = <<"polled", 0, i>> /\ polled[i].work = w
           /\ x[1] = "handler" => p = <<"handler", 0, 0>>
           /\ x[1] = "handed" => p = <<"handed", 0, 0>>
           /\ x[1] = "dropped" => p = <<"dropped", 0, 0>>
BY Zenon DEF At

LEMMA PlaceAtSpot ==
    ASSUME IInv, NEW w, w # 0, NEW p \in Places(w)
    PROVE  \E x \in Spots : w \in Content(x) /\ At(p, x, w)
<1>1. ASSUME NEW h \in Handles, NEW i \in DOMAIN jetty[h].jfs, p = <<"jfs", h, i>>, jetty[h].jfs[i] = w
      PROVE  \E x \in Spots : w \in Content(x) /\ At(p, x, w)
  <2>1. <<"jfs", h>> \in Spots /\ <<"jfs", h>>[1] = "jfs" /\ <<"jfs", h>>[2] = h
    BY Zenon, HandleFacts, SpotsApart
  <2>2. w \in Content(<<"jfs", h>>)
    <3>1. w \in Range(jetty[h].jfs)
      BY Zenon, <1>1, InRange
    <3> QED
      BY Zenon, <3>1, ContentIs
  <2>3. At(p, <<"jfs", h>>, w)
    BY <1>1, <2>1 DEF At
  <2> QED
    BY Zenon, <2>1, <2>2, <2>3
<1>2. ASSUME NEW h \in Handles, NEW i \in DOMAIN jetty[h].jfr, p = <<"jfr", h, i>>, jetty[h].jfr[i] = w
      PROVE  \E x \in Spots : w \in Content(x) /\ At(p, x, w)
  <2>1. <<"jfr", h>> \in Spots /\ <<"jfr", h>>[1] = "jfr" /\ <<"jfr", h>>[2] = h
    BY Zenon, HandleFacts, SpotsApart
  <2>2. w \in Content(<<"jfr", h>>)
    <3>1. w \in Range(jetty[h].jfr)
      BY Zenon, <1>2, InRange
    <3> QED
      BY Zenon, <3>1, ContentIs
  <2>3. At(p, <<"jfr", h>>, w)
    BY <1>2, <2>1 DEF At
  <2> QED
    BY Zenon, <2>1, <2>2, <2>3
<1>3. ASSUME NEW h \in Handles, NEW i \in DOMAIN jetty[h].jfc, p = <<"jfc", h, i>>, jetty[h].jfc[i].work = w
      PROVE  \E x \in Spots : w \in Content(x) /\ At(p, x, w)
  <2>1. <<"jfc", h>> \in Spots /\ <<"jfc", h>>[1] = "jfc" /\ <<"jfc", h>>[2] = h
    BY Zenon, HandleFacts, SpotsApart
  <2>2. w \in Content(<<"jfc", h>>)
    BY Zenon, <1>3, InWorkOf, ContentIs
  <2>3. At(p, <<"jfc", h>>, w)
    BY <1>3, <2>1 DEF At
  <2> QED
    BY Zenon, <2>1, <2>2, <2>3
<1>4. ASSUME NEW i \in DOMAIN polled, p = <<"polled", 0, i>>, polled[i].work = w
      PROVE  \E x \in Spots : w \in Content(x) /\ At(p, x, w)
  <2>1. <<"polled", 0>> \in Spots /\ <<"polled", 0>>[1] = "polled"
    BY SpotsApart
  <2>2. w \in Content(<<"polled", 0>>)
    <3>1. w \in WorkOf(polled)
      BY Zenon, <1>4, InWorkOf
    <3> QED
      BY Zenon, <3>1, ContentIs
  <2>3. At(p, <<"polled", 0>>, w)
    BY <1>4, <2>1 DEF At
  <2> QED
    BY Zenon, <2>1, <2>2, <2>3
<1>5. CASE p = <<"handler", 0, 0>> /\ handler.pc = "matched" /\ handler.w = w
  <2>1. <<"handler", 0>> \in Spots /\ <<"handler", 0>>[1] = "handler"
    BY SpotsApart
  <2>2. w \in Content(<<"handler", 0>>)
    BY Zenon, <1>5, ContentIs
  <2>3. At(p, <<"handler", 0>>, w)
    BY <1>5, <2>1 DEF At
  <2> QED
    BY Zenon, <2>1, <2>2, <2>3
<1>6. CASE p = <<"handed", 0, 0>> /\ w \in handed
  <2>1. <<"handed", 0>> \in Spots /\ <<"handed", 0>>[1] = "handed"
    BY SpotsApart
  <2>2. w \in Content(<<"handed", 0>>)
    BY Zenon, <1>6, ContentIs
  <2>3. At(p, <<"handed", 0>>, w)
    BY <1>6, <2>1 DEF At
  <2> QED
    BY Zenon, <2>1, <2>2, <2>3
<1>7. CASE p = <<"dropped", 0, 0>> /\ w \in dropped
  <2>1. <<"dropped", 0>> \in Spots /\ <<"dropped", 0>>[1] = "dropped"
    BY SpotsApart
  <2>2. w \in Content(<<"dropped", 0>>)
    BY Zenon, <1>7, ContentIs
  <2>3. At(p, <<"dropped", 0>>, w)
    BY SMTT(30), <1>7, <2>1 DEF At
  <2> QED
    BY Zenon, <2>1, <2>2, <2>3
<1> DEFINE Goal == \E x \in Spots : w \in Content(x) /\ At(p, x, w)
<1>8. /\ \A h \in Handles : \A i \in DOMAIN jetty[h].jfs : p = <<"jfs", h, i>> /\ jetty[h].jfs[i] = w => Goal
      /\ \A h \in Handles : \A i \in DOMAIN jetty[h].jfr : p = <<"jfr", h, i>> /\ jetty[h].jfr[i] = w => Goal
      /\ \A h \in Handles : \A i \in DOMAIN jetty[h].jfc : p = <<"jfc", h, i>> /\ jetty[h].jfc[i].work = w => Goal
      /\ \A i \in DOMAIN polled : p = <<"polled", 0, i>> /\ polled[i].work = w => Goal
      /\ p = <<"handler", 0, 0>> /\ handler.pc = "matched" /\ handler.w = w => Goal
      /\ p = <<"handed", 0, 0>> /\ w \in handed => Goal
      /\ p = <<"dropped", 0, 0>> /\ w \in dropped => Goal
  BY SMTT(30), <1>1, <1>2, <1>3, <1>4, <1>5, <1>6, <1>7
<1> HIDE DEF Goal
<1>9. Goal
  BY <1>8, PlaceIs
<1> QED
  BY <1>9 DEF Goal

\* A queue holds nothing twice.
LEMMA OnePlaceAtSpot ==
    ASSUME IInv, NEW w, w # 0, NEW x \in Spots, NEW p, NEW o, At(p, x, w), At(o, x, w)
    PROVE  p = o
<1>1. ASSUME NEW s \in Seq(Work), Increasing(s), NEW i \in DOMAIN s, NEW j \in DOMAIN s, s[i] = s[j]
      PROVE  i = j
  <2>1. i \in Nat /\ j \in Nat /\ s[i] \in Nat
    BY <1>1, JettyAssumption DEF Work
  <2>2. ~(i < j) /\ ~(j < i)
    BY <1>1, <2>1 DEF Increasing
  <2> QED
    BY <2>1, <2>2
<1>2. CASE x[1] = "jfs"
  <2>1. /\ x[2] \in Handles
        /\ \E i \in DOMAIN jetty[x[2]].jfs : p = <<"jfs", x[2], i>> /\ jetty[x[2]].jfs[i] = w
        /\ \E i \in DOMAIN jetty[x[2]].jfs : o = <<"jfs", x[2], i>> /\ jetty[x[2]].jfs[i] = w
    BY SMTT(30), <1>2, AtQueue
  <2>2. jetty[x[2]].jfs \in Seq(Work) /\ Increasing(jetty[x[2]].jfs)
    BY <2>1, HandleFacts, Fields DEF Good
  <2> QED
    BY ZenonT(60), <1>1, <2>1, <2>2
<1>3. CASE x[1] = "jfr"
  <2>1. /\ x[2] \in Handles
        /\ \E i \in DOMAIN jetty[x[2]].jfr : p = <<"jfr", x[2], i>> /\ jetty[x[2]].jfr[i] = w
        /\ \E i \in DOMAIN jetty[x[2]].jfr : o = <<"jfr", x[2], i>> /\ jetty[x[2]].jfr[i] = w
    BY SMTT(30), <1>3, AtQueue
  <2>2. jetty[x[2]].jfr \in Seq(Work) /\ Increasing(jetty[x[2]].jfr)
    BY <2>1, HandleFacts, Fields DEF Good
  <2> QED
    BY Zenon, <1>1, <2>1, <2>2
<1>4. CASE x[1] = "jfc"
  <2>1. /\ x[2] \in Handles
        /\ \E i \in DOMAIN jetty[x[2]].jfc : p = <<"jfc", x[2], i>> /\ jetty[x[2]].jfc[i].work = w
        /\ \E i \in DOMAIN jetty[x[2]].jfc : o = <<"jfc", x[2], i>> /\ jetty[x[2]].jfc[i].work = w
    BY SMTT(30), <1>4, AtQueue
  <2>2. NoTwice(jetty[x[2]].jfc)
    BY <2>1, HandleFacts DEF Good
  <2> QED
    BY ZenonT(60), <2>1, <2>2 DEF NoTwice
<1>5. CASE x[1] = "polled"
  <2>1. /\ \E i \in DOMAIN polled : p = <<"polled", 0, i>> /\ polled[i].work = w
        /\ \E i \in DOMAIN polled : o = <<"polled", 0, i>> /\ polled[i].work = w
    BY <1>5, AtOther
  <2>2. NoTwice(polled)
    BY ZenonT(60) DEF IInv
  <2> QED
    BY Zenon, <2>1, <2>2 DEF NoTwice
<1>6. CASE x[1] \in {"handler", "handed", "dropped"}
  BY <1>6, AtOther
<1>7. x[1] \in {"jfs", "jfr", "jfc", "polled", "handler", "handed", "dropped"}
  BY DEF Spots
<1> QED
  BY Zenon, <1>2, <1>3, <1>4, <1>5, <1>6, <1>7

\* No interleaving of posts, pops, polls and deregistrations loses a buffer
\* or a request, or gives it to two.
THEOREM NothingLostNorDoubled == Spec => []AccountedOnce
<1>1. ASSUME IInv, NEW w \in 1..posted
      PROVE  \E p \in Places(w) : Places(w) = {p}
  <2>1. w # 0
    BY <1>1 DEF IInv, Types
  <2>2. PICK y \in Spots : w \in Content(y)
    BY Zenon, <1>1 DEF IInv, Owned
  <2>3. PICK p : p \in Places(w)
    BY Zenon, <2>2, SpotHasPlace
  <2>4. PICK x \in Spots : w \in Content(x) /\ At(p, x, w)
    BY Zenon, <1>1, <2>1, <2>3, PlaceAtSpot
  <2>5. ASSUME NEW o \in Places(w)
        PROVE  o = p
    <3>1. PICK z \in Spots : w \in Content(z) /\ At(o, z, w)
      BY Zenon, <1>1, <2>1, <2>5, PlaceAtSpot
    <3>2. z = x
      BY Zenon, <1>1, <2>4, <3>1 DEF IInv, Owned
    <3> QED
      BY Zenon, <1>1, <2>1, <2>4, <3>1, <3>2, OnePlaceAtSpot
  <2> QED
    BY Zenon, <2>3, <2>5
<1>2. IInv => AccountedOnce
  BY Zenon, <1>1 DEF AccountedOnce
<1> QED
  BY <1>2, QueueInvariant, PTL

-----------------------------------------------------------------------------
(* The refinement of WorkPromise: the fate of a work follows from the spot *)
(* where it is, and a step carries it as WorkPromise allows.               *)

Fated ==
    \A w \in Work :
        /\ w > posted => Fate(w) = "new"
        /\ \A x \in Spots : w \in Content(x) => Fate(w) = FateAt(x)

LEMMA FateOf == IInv => Fated
<1> SUFFICES ASSUME IInv, NEW w \in Work
             PROVE  /\ w > posted => Fate(w) = "new"
                    /\ \A x \in Spots : w \in Content(x) => Fate(w) = FateAt(x)
  BY Zenon DEF Fated
<1>1. ASSUME w > posted
      PROVE  Fate(w) = "new"
  <2>1. w \notin 1..posted /\ w # 0
    BY <1>1, JettyAssumption DEF Work, IInv, Types
  <2>2. \A y \in Spots : w \notin Content(y)
    BY Zenon, <2>1 DEF IInv, Owned
  <2>3. /\ w \notin dropped /\ w \notin WorkOf(polled)
        /\ ~(\E h \in Handles : w \in WorkOf(jetty[h].jfc))
        /\ ~(w \in handed \/ (handler.pc = "matched" /\ handler.w = w))
    <3>1. \A h \in Handles : h \in Nat
      BY Zenon, HandleFacts
    <3>2. /\ w \notin Content(<<"dropped", 0>>) /\ w \notin Content(<<"polled", 0>>)
          /\ \A h \in Handles : w \notin Content(<<"jfc", h>>)
          /\ w \notin Content(<<"handed", 0>>) /\ w \notin Content(<<"handler", 0>>)
      BY Zenon, <2>2, <3>1, SpotsApart
    <3> QED
      BY Zenon, <2>1, <3>2, ContentIs
  <2> QED
    BY <1>1, <2>3 DEF Fate
<1>2. ASSUME NEW x \in Spots, w \in Content(x)
      PROVE  Fate(w) = FateAt(x)
  <2>1. ~(w > posted) /\ w # 0
    <3>1. w \in 1..posted /\ posted \in Nat
      BY <1>2 DEF IInv, Types, Owned
    <3> QED
      BY <3>1
  <2>2. \A y \in Spots : y # x => w \notin Content(y)
    BY Zenon, <1>2 DEF IInv, Owned
  <2>3. /\ <<"dropped", 0>> # x => w \notin dropped
        /\ <<"polled", 0>> # x => w \notin WorkOf(polled)
        /\ \A h \in Handles : <<"jfc", h>> # x => w \notin WorkOf(jetty[h].jfc)
        /\ <<"handed", 0>> # x => w \notin handed
        /\ <<"handler", 0>> # x => ~(handler.pc = "matched" /\ handler.w = w)
    <3>1. \A h \in Handles : h \in Nat
      BY Zenon, HandleFacts
    <3>2. /\ <<"dropped", 0>> # x => w \notin Content(<<"dropped", 0>>)
          /\ <<"polled", 0>> # x => w \notin Content(<<"polled", 0>>)
          /\ \A h \in Handles : <<"jfc", h>> # x => w \notin Content(<<"jfc", h>>)
          /\ <<"handed", 0>> # x => w \notin Content(<<"handed", 0>>)
          /\ <<"handler", 0>> # x => w \notin Content(<<"handler", 0>>)
      BY Zenon, <2>2, <3>1, SpotsApart
    <3> QED
      BY Zenon, <2>1, <3>2, ContentIs
  <2>4. x = <<x[1], x[2]>> /\ x[1] \in {"jfs", "jfr", "jfc", "polled", "handler", "handed", "dropped"}
    BY DEF Spots
  <2>5. x[1] \in {"polled", "handler", "handed", "dropped"} => x[2] = 0
    BY DEF Spots
  <2>6. CASE x[1] = "dropped"
    <3>1. w \in dropped
      BY <1>2, <2>6 DEF Content
    <3>2. /\ w \notin WorkOf(polled) /\ ~(\E h \in Handles : w \in WorkOf(jetty[h].jfc))
          /\ ~(w \in handed \/ (handler.pc = "matched" /\ handler.w = w))
      BY <2>3, <2>4, <2>6
    <3> QED
      BY <2>1, <2>6, <3>1, <3>2 DEF Fate, FateAt
  <2>7. CASE x[1] = "polled"
    <3>1. w \in WorkOf(polled)
      BY <1>2, <2>7 DEF Content
    <3>2. /\ w \notin dropped /\ ~(\E h \in Handles : w \in WorkOf(jetty[h].jfc))
          /\ ~(w \in handed \/ (handler.pc = "matched" /\ handler.w = w))
      BY <2>3, <2>4, <2>7
    <3> QED
      BY <2>1, <2>7, <3>1, <3>2 DEF Fate, FateAt
  <2>8. CASE x[1] = "jfc"
    <3>1. \E h \in Handles : w \in WorkOf(jetty[h].jfc)
      BY <1>2, <2>8 DEF Content
    <3>2. /\ w \notin dropped /\ w \notin WorkOf(polled)
          /\ ~(w \in handed \/ (handler.pc = "matched" /\ handler.w = w))
      BY <2>3, <2>4, <2>8
    <3> QED
      BY <2>1, <2>8, <3>1, <3>2 DEF Fate, FateAt
  <2>9. CASE x[1] \in {"handler", "handed"}
    <3>1. w \in handed \/ (handler.pc = "matched" /\ handler.w = w)
      BY <1>2, <2>9 DEF Content
    <3>2. w \notin dropped /\ w \notin WorkOf(polled) /\ \A h \in Handles : w \notin WorkOf(jetty[h].jfc)
      BY <2>3, <2>4, <2>9
    <3> QED
      BY <2>1, <2>9, <3>1, <3>2 DEF Fate, FateAt
  <2>10. CASE x[1] \in {"jfs", "jfr"}
    <3>1. ~(w \in handed \/ (handler.pc = "matched" /\ handler.w = w))
      BY <2>3, <2>4, <2>10
    <3>2. w \notin dropped /\ w \notin WorkOf(polled) /\ \A h \in Handles : w \notin WorkOf(jetty[h].jfc)
      BY <2>3, <2>4, <2>10
    <3> QED
      BY <2>1, <2>10, <3>1, <3>2 DEF Fate, FateAt
  <2> QED
    BY <2>4, <2>6, <2>7, <2>8, <2>9, <2>10
<1> QED
  BY Zenon, <1>1, <1>2

LEMMA FateNext == IInv' => Fated'
BY FateOf, PTL

\* The fates after a step that carries W and posts nothing.
LEMMA FatesCarried ==
    ASSUME IInv, IInv', posted' = posted, NEW W, NEW f, NEW g, Carried(W, f, g), NEW v \in Work
    PROVE  /\ v \in W => Fate(v) = f /\ Fate(v)' = g
           /\ v \notin W => Fate(v)' = Fate(v)
<1>1. v \in W => Fate(v) = f /\ Fate(v)' = g
  BY Zenon, FateOf, FateNext DEF Carried, Fated
<1>2. ASSUME v \notin W
      PROVE  Fate(v)' = Fate(v)
  <2>1. CASE v > posted
    BY Zenon, <2>1, FateOf, FateNext DEF Fated
  <2>2. CASE ~(v > posted)
    <3>1. v \in 1..posted
      BY <2>2, JettyAssumption DEF Work, IInv, Types
    <3>2. PICK x \in Spots : v \in Content(x)
      BY Zenon, <3>1 DEF IInv, Owned
    <3>3. v \in Content(x)'
      BY Zenon, <1>2, <3>2 DEF Carried
    <3> QED
      BY ZenonT(60), <3>2, <3>3, FateOf, FateNext DEF Fated
  <2> QED
    BY <2>1, <2>2
<1> QED
  BY Zenon, <1>1, <1>2

LEMMA CarriedIsWork ==
    ASSUME IInv, NEW w, NEW f, NEW g, Carried({w}, f, g)
    PROVE  w \in Work
<1>1. PICK x \in Spots : w \in Content(x)
  BY Zenon DEF Carried
<1>2. w \in 1..posted /\ posted \in 0..MaxWork
  BY <1>1 DEF IInv, Owned, Types
<1> QED
  BY <1>2, JettyAssumption DEF Work

LEMMA FateIsFate ==
    ASSUME NEW w
    PROVE  Fate(w) \in Promise!Fates /\ Fate(w)' \in Promise!Fates
BY DEF Fate, Promise!Fates

\* One work goes from one fate to the next.
LEMMA OneCarried ==
    ASSUME IInv, IInv', posted' = posted, NEW w, NEW f, NEW g, Carried({w}, f, g)
    PROVE  w \in Work /\ Promise!Step(w, {f}, g)
<1>1. w \in Work
  BY Zenon, CarriedIsWork
<1>2. \A v \in Work : Fate(v)' = IF v = w THEN g ELSE Fate(v)
  BY Zenon, FatesCarried
<1>3. Fate(w) = f
  BY Zenon, <1>1, FatesCarried
<1>4. [v \in Work |-> Fate(v)]' = [[v \in Work |-> Fate(v)] EXCEPT ![w] = g]
  BY Zenon, <1>1, <1>2
<1> QED
  BY <1>1, <1>3, <1>4 DEF Promise!Step

LEMMA CarriesPromised ==
    ASSUME IInv, IInv', Carries
    PROVE  Promise!Next
<1>1. ASSUME posted' = posted, NEW W, Carried(W, "posted", "done")
      PROVE  Promise!Next
  <2>1. \A v \in Work : Fate(v)' # Fate(v) => Fate(v) = "posted" /\ Fate(v)' = "done"
    BY Zenon, <1>1, FatesCarried
  <2>2. [v \in Work |-> Fate(v)]' \in [Work -> Promise!Fates]
    BY FateIsFate
  <2>3. Promise!Flush
    BY <2>1, <2>2 DEF Promise!Flush
  <2> QED
    BY <2>3 DEF Promise!Next
<1>2. ASSUME posted' = posted, NEW w, Carried({w}, "posted", "taken")
      PROVE  Promise!Next
  BY Zenon, <1>2, OneCarried DEF Promise!Next, Promise!Take
<1>3. ASSUME posted' = posted, NEW w, Carried({w}, "taken", "done")
      PROVE  Promise!Next
  BY Zenon, <1>3, OneCarried DEF Promise!Next, Promise!Complete
<1>4. ASSUME posted' = posted, NEW w, Carried({w}, "taken", "dropped")
      PROVE  Promise!Next
  BY Zenon, <1>4, OneCarried DEF Promise!Next, Promise!Drop
<1>5. ASSUME posted' = posted, NEW w, Carried({w}, "done", "reaped")
      PROVE  Promise!Next
  BY Zenon, <1>5, OneCarried DEF Promise!Next, Promise!Reap
<1>6. ASSUME posted' = posted + 1, \A x \in Spots : Content(x) \subseteq Content(x)',
             NEW y \in Spots, posted' \in Content(y)', FateAt(y) = "posted"
      PROVE  Promise!Next
  <2>1. PICK w : w = posted'
    BY Zenon
  <2>2. posted \in Nat /\ w \in Work /\ w > posted
    BY <1>6, <2>1, JettyAssumption DEF IInv, Types, Work
  <2>3. Fate(w) = "new" /\ Fate(w)' = "posted"
    BY Zenon, <1>6, <2>1, <2>2, FateOf, FateNext DEF Fated
  <2>4. ASSUME NEW v \in Work, v # w
        PROVE  Fate(v)' = Fate(v)
    <3>1. v \in 1..posted \/ (v > posted /\ v > posted')
      BY <1>6, <2>1, <2>2, <2>4, JettyAssumption DEF Work
    <3>2. CASE v \in 1..posted
      <4>1. PICK x \in Spots : v \in Content(x)
        BY Zenon, <3>2 DEF IInv, Owned
      <4>2. v \in Content(x)'
        BY Zenon, <1>6, <4>1
      <4> QED
        BY Zenon, <4>1, <4>2, FateOf, FateNext DEF Fated
    <3>3. CASE v > posted /\ v > posted'
      BY Zenon, <3>3, FateOf, FateNext DEF Fated
    <3> QED
      BY <3>1, <3>2, <3>3
  <2>5. [v \in Work |-> Fate(v)]' = [[v \in Work |-> Fate(v)] EXCEPT ![w] = "posted"]
    BY Zenon, <2>2, <2>3, <2>4
  <2>6. Promise!Post(w)
    BY <2>2, <2>3, <2>5 DEF Promise!Post, Promise!Step
  <2> QED
    BY Zenon, <2>2, <2>6 DEF Promise!Next
<1> QED
  BY Zenon, <1>1, <1>2, <1>3, <1>4, <1>5, <1>6 DEF Carries

\* For each buffer and request the Jettys keep WorkPromise: one consumer, one
\* completion, one poll.
THEOREM WorkIsPromised == Spec => WorkRefinement
<1>1. Init => Promise!Init
  <2> SUFFICES ASSUME Init
               PROVE  Promise!Init
    OBVIOUS
  <2>1. IInv /\ posted = 0
    BY Initially DEF Init
  <2>2. \A w \in Work : w > posted
    BY <2>1, JettyAssumption DEF Work
  <2>3. \A w \in Work : Fate(w) = "new"
    BY Zenon, <2>1, <2>2, FateOf DEF Fated
  <2> QED
    BY <2>3 DEF Promise!Init
<1>2. IInv /\ IInv' /\ [Next]_vars => Promise!Next
  BY Zenon, Stepwise, CarriesPromised
<1> QED
  BY <1>1, <1>2, QueueInvariant, PTL DEF Spec, WorkRefinement, Promise!Spec
=============================================================================
