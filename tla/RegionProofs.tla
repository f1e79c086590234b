---------------------------- MODULE RegionProofs ----------------------------
(***************************************************************************)
(* Theorems about managed regions: the writer's lock of one region, for    *)
(* any set of guards on any nodes and any bounds, and the placement of     *)
(* regions, for any number of requests, any sizes and any pool.            *)
(*                                                                         *)
(* For the lock, the epoch counts the ends of terms; that it stays within  *)
(* the number of grants needs that a term ends at most once, so that the   *)
(* ends, and the term that runs, are never more than the grants.  What a   *)
(* caller saw when it looked at the lock stays true while no other grant   *)
(* is made.                                                                *)
(*                                                                         *)
(* The invariant of the placement relates what requests in the             *)
(* compare-and-swap loop hold to the allocator and to what is placed, and  *)
(* follows a freed id through the three tables.                            *)
(***************************************************************************)
EXTENDS Placement, Coherence, TLAPS

-----------------------------------------------------------------------------
(* The placement of regions *)

\* Requests that have bytes of the pool but no placement yet, those that have
\* an id besides, and those that are entering a placement in the tables.
Claimed(a) == alloc[a].pc \in {"id", "record"}
Named(a) == alloc[a].pc = "record"
Entering(a) == alloc[a].pc \in {"handle", "register"}

ClaimOf(a) == [id |-> alloc[a].id, offset |-> alloc[a].offset, len |-> alloc[a].size]

\* Bytes: what is claimed or placed lies below the allocator's mark, apart
\* from everything else; a request about to swap has checked its size; the
\* registry never counts more than the allocator.
SpaceInv ==
    /\ used_bytes <= allocated
    /\ \A a \in Allocs : alloc[a].pc # "idle" => alloc[a].size \in Sizes
    /\ \A a \in Allocs : alloc[a].pc = "cas" => alloc[a].current + alloc[a].size <= pool_usable
    /\ \A a \in Allocs : Claimed(a) => alloc[a].offset + alloc[a].size <= allocated
    /\ \A p \in spans : p.offset + p.len <= allocated
    /\ \A a, b \in Allocs : a # b /\ Claimed(a) /\ Claimed(b) => Apart(ClaimOf(a), ClaimOf(b))
    /\ \A a \in Allocs, p \in spans : Claimed(a) => Apart(ClaimOf(a), p)
    /\ \A p, q \in spans : p # q => Apart(p, q)

\* Ids: given once, below the counter, and to one placement each.
IdInv ==
    /\ \A a \in Allocs : Named(a) => alloc[a].id < next_region_id
    /\ \A p \in spans : p.id < next_region_id
    /\ \A a, b \in Allocs : a # b /\ Named(a) /\ Named(b) => alloc[a].id # alloc[b].id
    /\ \A a \in Allocs, p \in spans : Named(a) => alloc[a].id # p.id
    /\ \A p, q \in spans : p # q => p.id # q.id

\* Freed ids: they were placed, are out of the placer, and, unless freed
\* early, nobody enters them in the tables any more.
Freeing(f) == free[f].pc \in {"table", "unregister"}

Away(id) ==
    /\ \E p \in spans : p.id = id
    /\ \A p \in regions : p.id # id
    /\ id \notin early => \A a \in Allocs : Entering(a) => alloc[a].id # id

FreeInv ==
    /\ \A f \in Frees : Freeing(f) => Away(free[f].id)
    /\ \A f \in Frees : free[f].pc = "unregister" /\ free[f].id \notin early
                          => free[f].id \notin region_table
    /\ \A id \in freed : Away(id)
    /\ \A id \in freed \ early : id \notin region_table /\ id \notin home_states

PoolInv == PoolTypeOK /\ SpaceInv /\ IdInv /\ FreeInv /\ ~refused

USE DEF IdleAlloc, IdleFree

-----------------------------------------------------------------------------
\* The numbers in play are natural numbers.
LEMMA Numbers ==
    ASSUME PoolTypeOK
    PROVE  /\ pool_usable \in Nat /\ allocated \in Nat /\ allocated <= pool_usable
           /\ used_bytes \in Nat /\ next_region_id \in Nat /\ Sizes \subseteq Nat
           /\ \A a \in Allocs : /\ alloc[a] \in AllocState /\ alloc[a].size \in Nat
                                /\ alloc[a].current \in Nat /\ alloc[a].offset \in Nat
                                /\ alloc[a].id \in Nat
           /\ \A f \in Frees : free[f] \in FreeState /\ free[f].id \in Nat
           /\ \A p \in spans : p.id \in Nat /\ p.offset \in Nat /\ p.len \in Nat /\ p.len \in Sizes
<1>1. /\ pool_usable \in Nat /\ allocated \in Nat /\ allocated <= pool_usable
      /\ used_bytes \in Nat /\ next_region_id \in Nat /\ Sizes \subseteq Nat
  BY PlacementAssumption DEF PoolTypeOK
<1>2. \A a \in Allocs : /\ alloc[a] \in AllocState /\ alloc[a].size \in Nat
                        /\ alloc[a].current \in Nat /\ alloc[a].offset \in Nat
                        /\ alloc[a].id \in Nat
  <2>1. \A a \in Allocs : alloc[a] \in AllocState
    BY DEF PoolTypeOK
  <2>2. \A s \in AllocState : /\ s.size \in Sizes \union {0} /\ s.current \in Nat
                              /\ s.offset \in Nat /\ s.id \in Nat
    BY DEF AllocState
  <2>3. \A n \in Sizes \union {0} : n \in Nat
    BY <1>1
  <2> QED
    BY <2>1, <2>2, <2>3
<1>3. \A f \in Frees : free[f] \in FreeState /\ free[f].id \in Nat
  BY DEF PoolTypeOK, FreeState
<1>4. \A p \in spans : p.id \in Nat /\ p.offset \in Nat /\ p.len \in Nat /\ p.len \in Sizes
  <2>1. \A p \in spans : p \in [id : Nat, offset : Nat, len : Sizes]
    BY DEF PoolTypeOK
  <2> QED
    BY Zenon, <1>1, <2>1
<1> QED
  BY <1>1, <1>2, <1>3, <1>4

\* The types after a step that replaces one request's record.
LEMMA AllocTyped ==
    ASSUME PoolTypeOK, NEW a \in Allocs, NEW r \in AllocState,
           alloc' = [alloc EXCEPT ![a] = r]
    PROVE  /\ alloc' \in [Allocs -> AllocState] /\ alloc'[a] = r
           /\ \A b \in Allocs : b # a => alloc'[b] = alloc[b]
BY DEF PoolTypeOK

LEMMA FreeTyped ==
    ASSUME PoolTypeOK, NEW f \in Frees, NEW r \in FreeState, free' = [free EXCEPT ![f] = r]
    PROVE  /\ free' \in [Frees -> FreeState] /\ free'[f] = r
           /\ \A g \in Frees : g # f => free'[g] = free[g]
BY DEF PoolTypeOK

\* The start: nothing is claimed, placed or freed.
LEMMA InitPool == ASSUME PoolInit PROVE PoolInv
<1>1. PoolTypeOK
  <2>1. IdleAlloc \in AllocState /\ IdleFree \in FreeState
    BY DEF AllocState, FreeState
  <2>2. 0 \in 0..pool_usable
    BY PlacementAssumption
  <2> HIDE DEF IdleAlloc, IdleFree
  <2> QED
    BY Zenon, <2>1, <2>2 DEF PoolInit, PoolTypeOK
<1>2. SpaceInv /\ IdInv
  BY DEF PoolInit, SpaceInv, IdInv, Claimed, Named
<1>3. FreeInv
  BY DEF PoolInit, FreeInv, Freeing
<1> QED
  BY <1>1, <1>2, <1>3 DEF PoolInit, PoolInv

\* best_device: the registry counts no more than the allocator, so what it
\* refuses the allocator would refuse too.
LEMMA BestDevice ==
    ASSUME PoolInv, NEW a \in Allocs, NEW size \in Sizes, NEW pin \in Pins,
           best_device(a, size, pin)
    PROVE  PoolInv'
<1> DEFINE r == IF pool_usable - used_bytes < size \/ ~Suits(pin)
                  THEN IdleAlloc ELSE [IdleAlloc EXCEPT !.pc = "load", !.size = size]
<1>1. r \in AllocState /\ r.pc \in {"idle", "load"} /\ (r.pc = "load" => r.size = size)
  BY Zenon DEF AllocState
<1>8. alloc' = [alloc EXCEPT ![a] = r]
  BY DEF best_device, Refuse
<1> HIDE DEF r
<1>2. /\ alloc[a].pc = "idle" /\ alloc' \in [Allocs -> AllocState] /\ alloc'[a] = r
      /\ \A b \in Allocs : b # a => alloc'[b] = alloc[b]
      /\ UNCHANGED <<poolVars, tableVars, free, spans, freed, early>>
  BY Zenon, <1>1, <1>8, AllocTyped DEF best_device, PoolInv
<1>3. ~refused'
  <2>1. pool_usable - used_bytes < size => ~(allocated + size <= pool_usable)
    BY Numbers DEF PoolInv, SpaceInv
  <2> QED
    BY Zenon, <2>1 DEF best_device, Refuse, PoolInv
<1>7. PoolTypeOK'
  <2>1. refused' \in BOOLEAN
    BY Zenon DEF best_device, Refuse, PoolInv, PoolTypeOK
  <2> QED
    BY <1>2, <2>1 DEF PoolInv, PoolTypeOK, poolVars, tableVars
<1>4. SpaceInv'
  BY <1>1, <1>2 DEF PoolInv, SpaceInv, Claimed, ClaimOf, Apart, poolVars,
     tableVars
<1>5. IdInv'
  BY <1>1, <1>2 DEF PoolInv, IdInv, Named, poolVars, tableVars
<1>6. FreeInv'
  BY <1>1, <1>2 DEF PoolInv, FreeInv, Away, Entering, Freeing, poolVars, tableVars
<1> QED
  BY <1>3, <1>4, <1>5, <1>6, <1>7 DEF PoolInv

\* SubAllocator.alloc, the load: a request that goes on has room for its size.
LEMMA AllocLoad ==
    ASSUME PoolInv, NEW a \in Allocs, alloc_load(a)
    PROVE  PoolInv'
<1> DEFINE r == IF allocated + alloc[a].size > pool_usable
                  THEN IdleAlloc ELSE [alloc[a] EXCEPT !.pc = "cas", !.current = allocated]
<1>1. /\ r \in AllocState /\ r.pc \in {"idle", "cas"}
      /\ r.pc = "cas" => /\ r.size = alloc[a].size /\ r.current = allocated
                         /\ allocated + alloc[a].size <= pool_usable
  <2>1. /\ alloc[a] \in AllocState /\ allocated \in Nat
        /\ alloc[a].size \in Nat /\ pool_usable \in Nat
    BY Numbers DEF PoolInv
  <2>2. [alloc[a] EXCEPT !.pc = "cas", !.current = allocated] \in AllocState
    BY Zenon, <2>1 DEF AllocState
  <2>3. IdleAlloc \in AllocState
    BY DEF AllocState
  <2>4. CASE allocated + alloc[a].size > pool_usable
    BY <2>3, <2>4
  <2>5. CASE ~(allocated + alloc[a].size > pool_usable)
    <3>1. r = [alloc[a] EXCEPT !.pc = "cas", !.current = allocated]
      BY <2>5
    <3>2. allocated + alloc[a].size <= pool_usable
      BY <2>1, <2>5
    <3>3. r.pc = "cas" /\ r.size = alloc[a].size /\ r.current = allocated
      BY Zenon, <2>1, <3>1 DEF AllocState
    <3> QED
      BY <2>2, <3>1, <3>2, <3>3
  <2> QED
    BY <2>4, <2>5
<1>8. alloc' = [alloc EXCEPT ![a] = r]
  BY DEF alloc_load, Refuse
<1> HIDE DEF r
<1>2. /\ alloc[a].pc = "load" /\ alloc' \in [Allocs -> AllocState] /\ alloc'[a] = r
      /\ \A b \in Allocs : b # a => alloc'[b] = alloc[b]
      /\ UNCHANGED <<poolVars, tableVars, free, spans, freed, early>>
  BY Zenon, <1>1, <1>8, AllocTyped DEF alloc_load, PoolInv
<1>3. ~refused'
  <2>1. allocated + alloc[a].size > pool_usable => ~(allocated + alloc[a].size <= pool_usable)
    BY Numbers DEF PoolInv
  <2> QED
    BY Zenon, <2>1 DEF alloc_load, Refuse, PoolInv
<1>7. PoolTypeOK'
  <2>1. refused' \in BOOLEAN
    BY Zenon DEF alloc_load, Refuse, PoolInv, PoolTypeOK
  <2> QED
    BY <1>2, <2>1 DEF PoolInv, PoolTypeOK, poolVars, tableVars
<1>4. SpaceInv'
  BY ZenonT(60), <1>1, <1>2 DEF PoolInv, SpaceInv, Claimed, ClaimOf, Apart, poolVars,
     tableVars
<1>5. IdInv'
  BY <1>1, <1>2 DEF PoolInv, IdInv, Named, poolVars, tableVars
<1>6. FreeInv'
  BY <1>1, <1>2 DEF PoolInv, FreeInv, Away, Entering, Freeing, poolVars, tableVars
<1> QED
  BY <1>3, <1>4, <1>5, <1>6, <1>7 DEF PoolInv

\* SubAllocator.alloc, the swap: a request that succeeds claims the bytes
\* above the mark, and everything claimed or placed before lies below it.
LEMMA AllocCas ==
    ASSUME PoolInv, NEW a \in Allocs, alloc_cas(a)
    PROVE  PoolInv'
<1>0. alloc[a] \in AllocState /\ alloc[a].pc = "cas" /\ alloc[a].size \in Sizes
  BY Numbers DEF PoolInv, SpaceInv, alloc_cas
<1>1. CASE allocated # alloc[a].current
  <2> DEFINE r == [alloc[a] EXCEPT !.pc = "load", !.current = 0]
  <2>1. r \in AllocState /\ r.pc = "load" /\ r.size = alloc[a].size
    BY Zenon, <1>0 DEF AllocState
  <2>7. alloc' = [alloc EXCEPT ![a] = r]
    BY <1>1 DEF alloc_cas
  <2> HIDE DEF r
  <2>2. /\ alloc' \in [Allocs -> AllocState] /\ alloc'[a] = r
        /\ \A b \in Allocs : b # a => alloc'[b] = alloc[b]
        /\ UNCHANGED <<poolVars, tableVars, free, ghostVars>>
    BY Zenon, <1>1, <2>1, <2>7, AllocTyped DEF alloc_cas, PoolInv, poolVars
  <2>3. PoolTypeOK' /\ ~refused'
    BY ZenonT(60), <2>2 DEF PoolInv, PoolTypeOK, poolVars, tableVars, ghostVars
  <2>4. SpaceInv'
    BY <1>0, <2>1, <2>2 DEF PoolInv, SpaceInv, Claimed, ClaimOf, Apart, poolVars,
       tableVars, ghostVars
  <2>5. IdInv'
    BY <1>0, <2>1, <2>2 DEF PoolInv, IdInv, Named, poolVars, tableVars, ghostVars
  <2>6. FreeInv'
    BY <1>0, <2>1, <2>2
       DEF PoolInv, FreeInv, Away, Entering, Freeing, poolVars, tableVars, ghostVars
  <2> QED
    BY <2>3, <2>4, <2>5, <2>6 DEF PoolInv
<1>2. CASE allocated = alloc[a].current
  <2>0. /\ allocated \in Nat /\ used_bytes \in Nat /\ alloc[a].size \in Nat /\ pool_usable \in Nat
        /\ \A b \in Allocs : alloc[b].offset \in Nat /\ alloc[b].size \in Nat
        /\ \A p \in spans : p.offset \in Nat /\ p.len \in Nat
    BY Numbers DEF PoolInv
  <2> DEFINE r == [alloc[a] EXCEPT !.pc = "id", !.offset = allocated, !.current = 0]
  <2>1. r \in AllocState /\ r.pc = "id" /\ r.size = alloc[a].size /\ r.offset = allocated
    BY Zenon, <1>0, <2>0 DEF AllocState
  <2>9. alloc' = [alloc EXCEPT ![a] = r]
    BY <1>2 DEF alloc_cas
  <2> HIDE DEF r
  <2>2. /\ alloc' \in [Allocs -> AllocState] /\ alloc'[a] = r
        /\ \A b \in Allocs : b # a => alloc'[b] = alloc[b]
        /\ allocated' = allocated + alloc[a].size
        /\ UNCHANGED <<used_bytes, next_region_id, tableVars, free, ghostVars>>
    BY Zenon, <1>2, <2>1, <2>9, AllocTyped DEF alloc_cas, PoolInv
  <2>7. allocated' \in 0..pool_usable
    BY <1>0, <1>2, <2>0, <2>2 DEF PoolInv, SpaceInv
  <2>8. PoolTypeOK' /\ ~refused'
    BY ZenonT(60), <2>2, <2>7 DEF PoolInv, PoolTypeOK, tableVars, ghostVars
  <2>3. SpaceInv'
    <3>1. allocated' \in Nat /\ allocated <= allocated'
      BY <2>0, <2>2
    <3>4. /\ used_bytes' <= allocated'
          /\ \A b \in Allocs : alloc'[b].pc # "idle" => alloc'[b].size \in Sizes
          /\ \A b \in Allocs : alloc'[b].pc = "cas"
                => alloc'[b].current + alloc'[b].size <= pool_usable
      BY <1>0, <2>0, <2>1, <2>2, <3>1 DEF PoolInv, SpaceInv
    <3>5. \A b \in Allocs : Claimed(b)' => alloc'[b].offset + alloc'[b].size <= allocated'
      BY <2>0, <2>1, <2>2, <3>1 DEF PoolInv, SpaceInv, Claimed
    <3>6. \A p \in spans : p.offset + p.len <= allocated'
      BY <2>0, <3>1 DEF PoolInv, SpaceInv
    <3>7. \A b, c \in Allocs : b # c /\ Claimed(b)' /\ Claimed(c)'
             => Apart(ClaimOf(b)', ClaimOf(c)')
      BY <2>0, <2>1, <2>2 DEF PoolInv, SpaceInv, Claimed, ClaimOf, Apart
    <3>8. \A b \in Allocs, p \in spans : Claimed(b)' => Apart(ClaimOf(b)', p)
      BY ZenonT(60), <2>0, <2>1, <2>2 DEF PoolInv, SpaceInv, Claimed, ClaimOf, Apart
    <3> QED
      BY ZenonT(60), <2>2, <3>4, <3>5, <3>6, <3>7, <3>8
         DEF PoolInv, SpaceInv, Apart, ghostVars
  <2>4. IdInv'
    BY <1>0, <2>1, <2>2 DEF PoolInv, IdInv, Named, tableVars, ghostVars
  <2>5. FreeInv'
    BY <1>0, <2>1, <2>2 DEF PoolInv, FreeInv, Away, Entering, Freeing, tableVars,
       ghostVars
  <2> QED
    BY <2>3, <2>4, <2>5, <2>8 DEF PoolInv
<1> QED
  BY <1>1, <1>2

\* Placer.place, the id: it is above every id given before.
LEMMA NextId ==
    ASSUME PoolInv, NEW a \in Allocs, next_id(a)
    PROVE  PoolInv'
<1>0. /\ alloc[a] \in AllocState /\ alloc[a].pc = "id" /\ next_region_id \in Nat
      /\ \A b \in Allocs : alloc[b].id \in Nat
      /\ \A p \in spans : p.id \in Nat
  BY Numbers DEF PoolInv, next_id
<1> DEFINE r == [alloc[a] EXCEPT !.pc = "record", !.id = next_region_id]
<1>1. /\ r \in AllocState /\ r.pc = "record" /\ r.id = next_region_id
      /\ r.size = alloc[a].size /\ r.offset = alloc[a].offset
  BY Zenon, <1>0 DEF AllocState
<1>7. alloc' = [alloc EXCEPT ![a] = r]
  BY DEF next_id
<1> HIDE DEF r
<1>2. /\ alloc' \in [Allocs -> AllocState] /\ alloc'[a] = r
      /\ \A b \in Allocs : b # a => alloc'[b] = alloc[b]
      /\ next_region_id' = next_region_id + 1
      /\ UNCHANGED <<allocated, used_bytes, tableVars, free, ghostVars>>
  BY Zenon, <1>1, <1>7, AllocTyped DEF next_id, PoolInv
<1>3. PoolTypeOK' /\ ~refused'
  BY <1>0, <1>2 DEF PoolInv, PoolTypeOK, tableVars, ghostVars
<1>4. SpaceInv'
  BY <1>0, <1>1, <1>2 DEF PoolInv, SpaceInv, Claimed, ClaimOf, Apart, tableVars,
     ghostVars
<1>5. IdInv'
  BY <1>0, <1>1, <1>2 DEF PoolInv, IdInv, Named, tableVars, ghostVars
<1>6. FreeInv'
  BY <1>0, <1>1, <1>2 DEF PoolInv, FreeInv, Away, Entering, Freeing, tableVars,
     ghostVars
<1> QED
  BY <1>3, <1>4, <1>5, <1>6 DEF PoolInv

\* Placer.place, the record: a claim becomes a placement; its id was never
\* that of a placement, so no freed id comes back.
LEMMA PlaceRecord ==
    ASSUME PoolInv, NEW a \in Allocs, place_record(a)
    PROVE  PoolInv'
<1> DEFINE placement == ClaimOf(a)
<1>0. alloc[a] \in AllocState /\ alloc[a].pc = "record" /\ alloc[a].size \in Sizes
  BY Numbers DEF PoolInv, SpaceInv, place_record
<1> DEFINE r == [alloc[a] EXCEPT !.pc = "handle"]
<1>r. /\ r \in AllocState /\ r.pc = "handle" /\ r.id = alloc[a].id /\ r.size = alloc[a].size
  BY <1>0 DEF AllocState
<1>s. alloc' = [alloc EXCEPT ![a] = r]
  BY DEF place_record, MoveTo
<1> HIDE DEF r
<1>t. alloc' \in [Allocs -> AllocState] /\ alloc'[a] = r
      /\ \A b \in Allocs : b # a => alloc'[b] = alloc[b]
  BY Zenon, <1>r, <1>s, AllocTyped DEF PoolInv
<1>1. /\ alloc[a].pc = "record" /\ alloc'[a].pc = "handle"
      /\ alloc'[a].id = alloc[a].id /\ alloc'[a].size = alloc[a].size
      /\ \A b \in Allocs : b # a => alloc'[b] = alloc[b]
      /\ regions' = regions \union {placement} /\ spans' = spans \union {placement}
      /\ used_bytes' = alloc[a].size
      /\ UNCHANGED <<allocated, next_region_id, region_table, home_states, free, freed, early,
                     refused>>
  BY ZenonT(60), <1>0, <1>r, <1>t DEF place_record, ClaimOf
<1>2. /\ placement \in [id : Nat, offset : Nat, len : Sizes]
      /\ placement.id = alloc[a].id /\ placement.offset = alloc[a].offset
      /\ placement.len = alloc[a].size /\ alloc[a].size \in Nat
  BY <1>0, Numbers DEF PoolInv, ClaimOf
<1> HIDE DEF placement
<1>3. PoolTypeOK' /\ ~refused'
  BY ZenonT(60), <1>0, <1>1, <1>2, <1>t DEF PoolInv, PoolTypeOK
<1>4. SpaceInv'
  <2>1. used_bytes' <= allocated
    <3>1. allocated \in Nat /\ alloc[a].offset \in Nat
          /\ alloc[a].offset + alloc[a].size <= allocated
      BY ZenonT(60), <1>0, Numbers DEF PoolInv, SpaceInv, Claimed
    <3> QED
      BY <1>1, <1>2, <3>1
  <2>2. \A b \in Allocs : Claimed(b)' => b # a /\ Claimed(b) /\ ClaimOf(b)' = ClaimOf(b)
    BY ZenonT(60), <1>1 DEF Claimed, ClaimOf
  <2>3. \A b \in Allocs : Claimed(b)' => Apart(ClaimOf(b), placement)
    BY ZenonT(60), <1>1, <2>2 DEF PoolInv, SpaceInv, Claimed, placement
  <2>4. \A p \in spans : Apart(placement, p) /\ Apart(p, placement)
    BY ZenonT(60), <1>1 DEF PoolInv, SpaceInv, Claimed, placement, Apart
  <2>5. \A p, q \in spans' : p # q => Apart(p, q)
    BY ZenonT(60), <1>1, <2>4 DEF PoolInv, SpaceInv
  <2>6. \A b \in Allocs, p \in spans' : Claimed(b)' => Apart(ClaimOf(b)', p)
    BY <1>1, <2>2, <2>3 DEF PoolInv, SpaceInv
  <2>7. \A b, c \in Allocs : b # c /\ Claimed(b)' /\ Claimed(c)'
           => Apart(ClaimOf(b)', ClaimOf(c)')
    BY ZenonT(60), <2>2 DEF PoolInv, SpaceInv
  <2>8. /\ \A b \in Allocs : alloc'[b].pc # "idle" => alloc'[b].size \in Sizes
        /\ \A b \in Allocs : alloc'[b].pc = "cas"
              => alloc'[b].current + alloc'[b].size <= pool_usable
        /\ \A b \in Allocs : Claimed(b)' => alloc'[b].offset + alloc'[b].size <= allocated
        /\ \A p \in spans' : p.offset + p.len <= allocated
    BY ZenonT(60), <1>1, <1>2 DEF PoolInv, SpaceInv, Claimed
  <2> QED
    BY ZenonT(60), <1>1, <2>1, <2>5, <2>6, <2>7, <2>8 DEF SpaceInv, Apart
<1>5. IdInv'
  BY <1>1, <1>2 DEF PoolInv, IdInv, Named
<1>6. FreeInv'
  <2>1. \A id : (\E p \in spans : p.id = id) => id # alloc[a].id
    BY <1>1 DEF PoolInv, IdInv, Named
  <2>2. \A id : Away(id) => Away(id)'
    BY <1>1, <1>2, <2>1 DEF Away, Entering
  <2> QED
    BY ZenonT(60), <1>1, <2>2 DEF PoolInv, FreeInv, Freeing
<1> QED
  BY <1>3, <1>4, <1>5, <1>6 DEF PoolInv

\* RegionTable.insert and register_region: a region that is being entered was
\* not freed, or was freed early.
LEMMA Enter ==
    ASSUME PoolInv, NEW a \in Allocs,
           table_insert(a) \/ register_region(a)
    PROVE  PoolInv'
<1>0. alloc[a] \in AllocState /\ alloc[a].id \in Nat
  BY Numbers DEF PoolInv
<1> DEFINE r == IF table_insert(a) THEN [alloc[a] EXCEPT !.pc = "register"] ELSE IdleAlloc
<1>6. /\ r \in AllocState /\ r.pc \in {"idle", "register"}
      /\ r.pc = "register" => r.id = alloc[a].id /\ r.size = alloc[a].size
  BY <1>0 DEF AllocState
<1>7. alloc' = [alloc EXCEPT ![a] = r]
  BY DEF table_insert, register_region, MoveTo
<1> HIDE DEF r
<1>8. /\ alloc' \in [Allocs -> AllocState] /\ alloc'[a] = r
      /\ \A b \in Allocs : b # a => alloc'[b] = alloc[b]
  BY Zenon, <1>6, <1>7, AllocTyped DEF PoolInv
<1>1. /\ Entering(a) /\ alloc'[a].pc \in {"idle", "register"}
      /\ alloc'[a].pc = "register" => alloc'[a].id = alloc[a].id /\ alloc'[a].size = alloc[a].size
      /\ \A b \in Allocs : b # a => alloc'[b] = alloc[b]
      /\ region_table' \subseteq region_table \union {alloc[a].id}
      /\ home_states' \subseteq home_states \union {alloc[a].id}
      /\ UNCHANGED <<poolVars, regions, free, ghostVars>>
  BY <1>6, <1>8 DEF table_insert, register_region, Entering
<1>2. PoolTypeOK' /\ ~refused'
  BY ZenonT(60), <1>0, <1>1, <1>8 DEF PoolInv, PoolTypeOK, poolVars, ghostVars
<1>3. SpaceInv'
  <2>1. \A b \in Allocs : Claimed(b)' => /\ Claimed(b) /\ ClaimOf(b)' = ClaimOf(b)
                                         /\ alloc'[b] = alloc[b]
    BY ZenonT(60), <1>1 DEF Claimed, ClaimOf
  <2>2. UNCHANGED <<allocated, used_bytes, spans>>
    BY ZenonT(60), <1>1 DEF poolVars, ghostVars
  <2>3. /\ \A b \in Allocs : alloc'[b].pc # "idle" => alloc'[b].size \in Sizes
        /\ \A b \in Allocs : alloc'[b].pc = "cas"
              => alloc'[b].current + alloc'[b].size <= pool_usable
    BY ZenonT(60), <1>1 DEF PoolInv, SpaceInv, Entering
  <2>4. /\ \A b, c \in Allocs : b # c /\ Claimed(b)' /\ Claimed(c)'
              => Apart(ClaimOf(b)', ClaimOf(c)')
        /\ \A b \in Allocs, p \in spans : Claimed(b)' => Apart(ClaimOf(b)', p)
        /\ \A b \in Allocs : Claimed(b)' => alloc'[b].offset + alloc'[b].size <= allocated
    BY ZenonT(60), <2>1 DEF PoolInv, SpaceInv
  <2> QED
    BY ZenonT(60), <2>2, <2>3, <2>4 DEF PoolInv, SpaceInv, Apart
<1>4. IdInv'
  BY ZenonT(90), <1>1 DEF PoolInv, IdInv, Named, Entering, poolVars, ghostVars
<1>5. FreeInv'
  <2>1. \A id : Away(id) => Away(id)' /\ (id \notin early => id # alloc[a].id)
    BY <1>1 DEF Away, Entering, ghostVars
  <2> QED
    BY <1>1, <2>1 DEF PoolInv, FreeInv, Freeing, ghostVars
<1> QED
  BY <1>2, <1>3, <1>4, <1>5 DEF PoolInv

\* Placer.free: ids are unique, so the id is out of the placer; whoever still
\* enters it makes it early.
LEMMA PlacerFree ==
    ASSUME PoolInv, NEW f \in Frees, NEW p \in regions, placer_free(f, p)
    PROVE  PoolInv'
<1> DEFINE r == [pc |-> "table", id |-> p.id]
<1>0. p \in spans /\ p.id \in Nat /\ r \in FreeState
  <2>1. p \in spans /\ p.id \in Nat
    BY Numbers DEF PoolInv, PoolTypeOK
  <2> QED
    BY <2>1 DEF FreeState
<1>6. free' \in [Frees -> FreeState]
  BY Zenon, <1>0, FreeTyped DEF PoolInv, placer_free
<1>1. /\ free'[f] = [pc |-> "table", id |-> p.id]
      /\ \A g \in Frees : g # f => free'[g] = free[g]
      /\ regions' = regions \ {p} /\ used_bytes' = 0 /\ early \subseteq early'
      /\ p.id \notin early' => \A a \in Allocs : Entering(a) => alloc[a].id # p.id
      /\ p \in spans /\ p.id \in Nat
      /\ UNCHANGED <<allocated, next_region_id, region_table, home_states, alloc, spans, freed,
                     refused>>
  BY Zenon, <1>0, FreeTyped DEF placer_free, Entering, PoolInv
<1>2. PoolTypeOK' /\ ~refused'
  <2>1. early' \subseteq Nat
    BY Zenon, <1>0 DEF placer_free, PoolInv, PoolTypeOK
  <2> QED
    BY <1>1, <1>6, <2>1 DEF PoolInv, PoolTypeOK
<1>3. SpaceInv'
  <2>1. allocated \in Nat
    BY Numbers DEF PoolInv
  <2>2. used_bytes' <= allocated
    BY <1>1, <2>1
  <2>3. SpaceInv /\ UNCHANGED <<allocated, alloc, spans>>
    BY Zenon, <1>1 DEF PoolInv
  <2> QED
    BY Zenon, <2>2, <2>3 DEF SpaceInv, Claimed, ClaimOf, Apart
<1>4. IdInv'
  BY ZenonT(60), <1>1 DEF PoolInv, IdInv, Named
<1>5. FreeInv'
  <2>1. \A id : Away(id) => Away(id)'
    BY ZenonT(60), <1>1 DEF Away, Entering
  <2>2. Away(p.id)'
    BY <1>1 DEF Away, Entering, PoolInv, IdInv, PoolTypeOK
  <2>3. FreeInv
    BY Zenon DEF PoolInv
  <2> QED
    BY SMTT(30), <1>1, <2>1, <2>2, <2>3 DEF FreeInv, Freeing
<1> QED
  BY <1>2, <1>3, <1>4, <1>5 DEF PoolInv

\* region_free, the tables: after the removal nobody enters the id again.
LEMMA FreeTables ==
    ASSUME PoolInv, NEW f \in Frees,
           table_remove(f) \/ unregister_region(f)
    PROVE  PoolInv'
<1>0. free[f] \in FreeState /\ free[f].id \in Nat
  BY Numbers DEF PoolInv
<1> DEFINE r == IF table_remove(f) THEN [free[f] EXCEPT !.pc = "unregister"] ELSE IdleFree
<1>6. /\ r \in FreeState
      /\ r = IF table_remove(f) THEN [pc |-> "unregister", id |-> free[f].id]
                                ELSE [pc |-> "idle", id |-> 0]
  BY <1>0 DEF FreeState
<1>7. free' = [free EXCEPT ![f] = r]
  BY DEF table_remove, unregister_region
<1> HIDE DEF r
<1>8. /\ free' \in [Frees -> FreeState] /\ free'[f] = r
      /\ \A g \in Frees : g # f => free'[g] = free[g]
  BY ZenonT(60), <1>6, <1>7, FreeTyped DEF PoolInv
<1>1. /\ Freeing(f) /\ free'[f].pc \in {"idle", "unregister"}
      /\ \A g \in Frees : g # f => free'[g] = free[g]
      /\ free'[f].pc = "unregister" => /\ free'[f].id = free[f].id /\ freed' = freed
                                       /\ free[f].id \notin region_table'
      /\ free'[f].pc = "idle" => /\ free[f].pc = "unregister" /\ freed' = freed \union {free[f].id}
                                 /\ free[f].id \notin home_states'
      /\ region_table' \subseteq region_table /\ home_states' \subseteq home_states
      /\ UNCHANGED <<poolVars, regions, alloc, spans, early, refused>>
  BY <1>6, <1>8 DEF table_remove, unregister_region, Freeing, ghostVars
<1>2. PoolTypeOK' /\ ~refused'
  <2>1. freed' \subseteq freed \union {free[f].id}
    BY ZenonT(60), <1>1
  <2> QED
    BY <1>0, <1>1, <1>8, <2>1 DEF PoolInv, PoolTypeOK, poolVars
<1>3. SpaceInv'
  BY <1>1 DEF PoolInv, SpaceInv, Claimed, ClaimOf, Apart, poolVars
<1>4. IdInv'
  BY Zenon, <1>1 DEF PoolInv, IdInv, Named, poolVars
<1>5. FreeInv'
  <2>1. \A id : Away(id) => Away(id)'
    BY <1>1 DEF Away, Entering
  <2> QED
    BY ZenonT(60), <1>1, <2>1 DEF PoolInv, FreeInv, Freeing
<1> QED
  BY <1>2, <1>3, <1>4, <1>5 DEF PoolInv

\* A step that changes nothing.
LEMMA PoolStutter ==
    ASSUME PoolInv, UNCHANGED placementVars
    PROVE  PoolInv'
<1>1. UNCHANGED <<allocated, used_bytes, next_region_id, regions, region_table, home_states, alloc,
                  free, spans, freed, early, refused>>
  BY DEF placementVars, poolVars, tableVars, ghostVars
<1>2. PoolTypeOK' /\ ~refused'
  BY ZenonT(60), <1>1 DEF PoolInv, PoolTypeOK
<1>3. SpaceInv'
  BY <1>1 DEF PoolInv, SpaceInv, Claimed, ClaimOf, Apart
<1>4. IdInv'
  BY ZenonT(60), <1>1 DEF PoolInv, IdInv, Named
<1>5. FreeInv'
  BY <1>1 DEF PoolInv, FreeInv, Away, Freeing, Entering
<1> QED
  BY <1>2, <1>3, <1>4, <1>5 DEF PoolInv

-----------------------------------------------------------------------------
\* The invariant holds of every behaviour of the placer and its requests.
THEOREM PlacementInvariant == PoolSpec => []PoolInv
<1>1. PoolInv /\ [PoolNext]_placementVars => PoolInv'
  BY BestDevice, AllocLoad, AllocCas, NextId, PlaceRecord, Enter, PlacerFree, FreeTables,
     PoolStutter
     DEF PoolNext
<1>2. PoolInit => PoolInv
  BY InitPool
<1> QED
  BY <1>1, <1>2, PTL DEF PoolSpec

\* However many requests race in SubAllocator.alloc and Placer.place, no two
\* regions ever placed share an id or a byte, and all lie in the pool.
THEOREM PlacedApart == PoolSpec => []RegionsDisjoint
<1>1. PoolInv => RegionsDisjoint
  <2> SUFFICES ASSUME PoolInv PROVE RegionsDisjoint
    OBVIOUS
  <2>1. \A p \in spans : p.offset \in Nat /\ p.len \in Nat
    BY Zenon, PlacementAssumption DEF PoolInv, PoolTypeOK
  <2> QED
    BY <2>1, PlacementAssumption DEF PoolInv, PoolTypeOK, SpaceInv, IdInv, RegionsDisjoint, Apart
<1>2. PoolSpec => []PoolInv
  BY PlacementInvariant
<1> QED
  BY <1>1, <1>2, PTL

\* best_device and SubAllocator.alloc refuse a region that the kind of the
\* pool suits only when the pool has no room for it.
THEOREM NeverRefusedEarly == PoolSpec => []RefusedOnlyWhenFull
<1>1. PoolInv => RefusedOnlyWhenFull
  BY DEF PoolInv, RefusedOnlyWhenFull
<1>2. PoolSpec => []PoolInv
  BY PlacementInvariant
<1> QED
  BY <1>1, <1>2, PTL

\* A region that region_free has freed is in none of the three tables, unless
\* it was freed while region_alloc was still entering it.
THEOREM FreedStaysGone == PoolSpec => []FreedIsGone
<1>1. PoolInv => FreedIsGone
  BY DEF PoolInv, FreeInv, Away, FreedIsGone
<1>2. PoolSpec => []PoolInv
  BY PlacementInvariant
<1> QED
  BY <1>1, <1>2, PTL

\* Every variable of the placer, of its tables and of the requests keeps its
\* type: in particular the bump allocator never passes the end of the pool.
THEOREM PoolTypeCorrectness == PoolSpec => []PoolTypeOK
<1>1. PoolInv => PoolTypeOK
  BY DEF PoolInv
<1>2. PoolSpec => []PoolInv
  BY PlacementInvariant
<1> QED
  BY <1>1, <1>2, PTL

-----------------------------------------------------------------------------
(* The writer's lock *)

Pcs == {"idle", "checked", "held", "released", "bump_released", "bump_idle"}

Bumping == {g \in Guards : guard[g].pc \in {"bump_released", "bump_idle"}}

\* The shapes, without the bounds that follow from counting.
Shapes ==
    /\ writer \in [node : Nodes \union {NoNode}, live : BOOLEAN]
    /\ writer.node = NoNode => ~writer.live
    /\ epoch \in Nat /\ terms \in 0..MaxTerms /\ ended \in Nat
    /\ readers \subseteq Nodes /\ queue \in Seq(Nodes) /\ Len(queue) <= MaxQueue
    /\ guard \in [Guards -> [pc : Pcs, at : 0..MaxTerms]]
    /\ timer \in {"idle", "bump"}

\* A caller between the look and the grant found the lock free, expired or
\* its own, unless there was a grant since.
LookHolds ==
    \A g \in Guards :
      /\ guard[g].at <= terms
      /\ guard[g].pc = "checked" /\ guard[g].at = terms
           => ~writer.live \/ writer.node = NodeOf[g]

\* What is used of the cardinalities of sets of guards.
GuardSets ==
    /\ Cardinality({}) = 0
    /\ \A S \in SUBSET Guards :
         /\ Cardinality(S) \in Nat
         /\ \A g \in Guards \ S : Cardinality(S \union {g}) = Cardinality(S) + 1
         /\ \A g \in S : Cardinality(S \ {g}) = Cardinality(S) - 1

IInv == Shapes /\ EpochCountsEnds /\ EndsWithinTerms /\ LookHolds

-----------------------------------------------------------------------------
\* The callers about to bump the epoch can be counted.
LEMMA BumpingCount ==
    ASSUME GuardSets
    PROVE  Bumping \in SUBSET Guards /\ Cardinality(Bumping) \in Nat
<1>1. Bumping \in SUBSET Guards
  BY DEF Bumping
<1> QED
  BY <1>1 DEF GuardSets

\* The invariant bounds the three counters by the grants.
LEMMA InvTypes == ASSUME GuardSets, IInv PROVE TypeOK
<1>1. epoch <= ended /\ ended <= terms
  <2>1. EpochCountsEnds /\ epoch \in Nat /\ ended \in Nat /\ EndsWithinTerms /\ terms \in Nat
    BY CoherenceAssumption DEF IInv, Shapes
  <2>2. epoch + (IF timer = "bump" THEN 1 ELSE 0) + Cardinality(Bumping) = ended
    BY <2>1 DEF EpochCountsEnds, Bumping
  <2> QED
    BY <2>1, <2>2, BumpingCount DEF EndsWithinTerms
<1>2. Shapes
  BY DEF IInv
<1>3. epoch \in 0..MaxTerms /\ ended \in 0..MaxTerms
  BY <1>1, <1>2, CoherenceAssumption DEF Shapes
<1> QED
  BY <1>2, <1>3 DEF Shapes, TypeOK, Pcs

LEMMA InitInv == ASSUME GuardSets, Init PROVE IInv
<1>1. Shapes
  BY CoherenceAssumption DEF Init, NoWriter, Shapes, Pcs
<1>2. EpochCountsEnds
  <2>1. {g \in Guards : guard[g].pc \in {"bump_released", "bump_idle"}} = {}
    BY DEF Init
  <2> QED
    BY <2>1 DEF GuardSets, Init, EpochCountsEnds
<1>3. EndsWithinTerms /\ LookHolds
  BY DEF Init, NoWriter, EndsWithinTerms, LookHolds
<1> QED
  BY ZenonT(60), <1>1, <1>2, <1>3 DEF IInv

-----------------------------------------------------------------------------
\* A step of one guard, seen from the set of those about to bump.
LEMMA OneGuard ==
    ASSUME Shapes, NEW g \in Guards, NEW r \in [pc : Pcs, at : 0..MaxTerms],
           guard' = [guard EXCEPT ![g] = r]
    PROVE  /\ guard' \in [Guards -> [pc : Pcs, at : 0..MaxTerms]]
           /\ guard'[g] = r /\ \A f \in Guards : f # g => guard'[f] = guard[f]
           /\ r.pc \in {"bump_released", "bump_idle"} => Bumping' = Bumping \union {g}
           /\ r.pc \notin {"bump_released", "bump_idle"} => Bumping' = Bumping \ {g}
<1>1. /\ guard' \in [Guards -> [pc : Pcs, at : 0..MaxTerms]]
      /\ guard'[g] = r /\ \A f \in Guards : f # g => guard'[f] = guard[f]
  BY DEF Shapes
<1> QED
  BY <1>1 DEF Bumping

\* A step in which nobody begins or ends a bump of the epoch.
LEMMA CountsKept ==
    ASSUME IInv, Bumping' = Bumping, UNCHANGED <<epoch, timer, ended>>
    PROVE  EpochCountsEnds'
BY Zenon DEF IInv, EpochCountsEnds, Bumping

\* acquire_writer's look.
LEMMA CheckKeeps == ASSUME IInv, NEW g \in Guards, acquire_check(g) PROVE IInv'
<1>1. CASE writer.live /\ writer.node # NodeOf[g]
  <2>1. /\ queue' = Append(queue, NodeOf[g]) /\ Len(queue) < MaxQueue
        /\ UNCHANGED <<writer, epoch, readers, guard, timer, terms, ended>>
    BY ZenonT(60), <1>1 DEF acquire_check
  <2>2. queue' \in Seq(Nodes) /\ Len(queue') <= MaxQueue
    BY <2>1, CoherenceAssumption DEF IInv, Shapes, Nodes
  <2> QED
    BY ZenonT(60), <2>1, <2>2 DEF IInv, Shapes, EpochCountsEnds, EndsWithinTerms, LookHolds
<1>2. CASE ~(writer.live /\ writer.node # NodeOf[g])
  <2> DEFINE r == [pc |-> "checked", at |-> terms]
  <2>1. r \in [pc : Pcs, at : 0..MaxTerms] /\ r.pc = "checked" /\ r.at = terms
    BY ZenonT(60) DEF IInv, Shapes, Pcs
  <2>2. /\ guard' = [guard EXCEPT ![g] = r] /\ guard[g].pc = "idle"
        /\ UNCHANGED <<writer, epoch, readers, queue, timer, terms, ended>>
    BY ZenonT(60), <1>2 DEF acquire_check
  <2> HIDE DEF r
  <2>3. /\ guard' \in [Guards -> [pc : Pcs, at : 0..MaxTerms]]
        /\ guard'[g] = r /\ \A f \in Guards : f # g => guard'[f] = guard[f]
        /\ Bumping' = Bumping
    BY Zenon, <2>1, <2>2, OneGuard DEF IInv, Bumping
  <2>4. EpochCountsEnds'
    BY ZenonT(60), <2>2, <2>3, CountsKept
  <2>5. LookHolds'
    BY <1>2, <2>1, <2>2, <2>3 DEF IInv, Shapes, LookHolds
  <2> QED
    BY <2>2, <2>3, <2>4, <2>5 DEF IInv, Shapes, EndsWithinTerms
<1> QED
  BY ZenonT(60), <1>1, <1>2

\* acquire_writer's grant: what every other caller saw is now old.
LEMMA GrantKeeps == ASSUME IInv, NEW g \in Guards, acquire_grant(g) PROVE IInv'
<1> DEFINE r == [pc |-> "held", at |-> 0]
<1>1. r \in [pc : Pcs, at : 0..MaxTerms] /\ r.pc = "held" /\ r.at = 0
  BY CoherenceAssumption DEF Pcs
<1>2. /\ guard' = [guard EXCEPT ![g] = r] /\ guard[g].pc = "checked"
      /\ terms < MaxTerms /\ terms' = terms + 1
      /\ writer' = [node |-> NodeOf[g], live |-> TRUE]
      /\ UNCHANGED <<epoch, readers, queue, timer, ended>>
  BY DEF acquire_grant
<1> HIDE DEF r
<1>3. /\ guard' \in [Guards -> [pc : Pcs, at : 0..MaxTerms]]
      /\ guard'[g] = r /\ \A f \in Guards : f # g => guard'[f] = guard[f]
      /\ Bumping' = Bumping
  BY Zenon, <1>1, <1>2, OneGuard DEF IInv, Bumping
<1>4. terms \in Nat /\ terms' \in 0..MaxTerms /\ ended \in Nat
  BY <1>2, CoherenceAssumption DEF IInv, Shapes
<1>5. Shapes'
  <2>1. writer' \in [node : Nodes \union {NoNode}, live : BOOLEAN] /\ writer'.node # NoNode
    BY <1>2, CoherenceAssumption DEF Nodes
  <2> QED
    BY ZenonT(60), <1>2, <1>3, <1>4, <2>1 DEF IInv, Shapes
<1>6. EpochCountsEnds'
  BY ZenonT(60), <1>2, <1>3, CountsKept
<1>7. EndsWithinTerms'
  BY <1>2, <1>4 DEF IInv, EndsWithinTerms
<1>8. LookHolds'
  <2>1. \A f \in Guards : guard[f].at \in Nat /\ guard[f].at <= terms
    BY CoherenceAssumption DEF IInv, Shapes, LookHolds
  <2>2. \A f \in Guards : guard'[f].at < terms'
    BY <1>1, <1>2, <1>3, <1>4, <2>1
  <2>3. \A f \in Guards : guard'[f].at \in Nat
    BY <1>1, <1>3, <2>1
  <2> QED
    BY <1>2, <1>4, <2>2, <2>3 DEF LookHolds
<1> QED
  BY ZenonT(60), <1>5, <1>6, <1>7, <1>8 DEF IInv

\* A guard's pc moves, and it is neither a look nor a bump.
LEMMA MoveKeeps ==
    ASSUME IInv, NEW g \in Guards, NEW pc \in {"idle", "released"}, Goto(g, pc),
           guard[g].pc \in {"idle", "held", "released"},
           UNCHANGED <<writer, epoch, readers, queue, timer, terms, ended>>
    PROVE  IInv'
<1> DEFINE r == [guard[g] EXCEPT !.pc = pc]
<1>1. r \in [pc : Pcs, at : 0..MaxTerms] /\ r.pc = pc /\ r.at = guard[g].at
  BY Zenon DEF IInv, Shapes, Pcs
<1>2. guard' = [guard EXCEPT ![g] = r]
  BY DEF Goto
<1> HIDE DEF r
<1>3. /\ guard' \in [Guards -> [pc : Pcs, at : 0..MaxTerms]]
      /\ guard'[g] = r /\ \A f \in Guards : f # g => guard'[f] = guard[f]
      /\ Bumping' = Bumping
  BY ZenonT(60), <1>1, <1>2, OneGuard DEF IInv, Bumping
<1>4. EpochCountsEnds'
  BY <1>3, CountsKept
<1>5. LookHolds'
  BY ZenonT(60), <1>1, <1>3 DEF IInv, LookHolds
<1> QED
  BY <1>3, <1>4, <1>5 DEF IInv, Shapes, EndsWithinTerms

\* A release that clears the writer: one more end, and one more bump to come.
LEMMA ClearKeeps ==
    ASSUME GuardSets, IInv, NEW g \in Guards,
           NEW pc \in {"bump_released", "bump_idle"}, Goto(g, pc),
           guard[g].pc \in {"idle", "held", "released"}, writer.node = NodeOf[g],
           writer' = NoWriter, ended' = ended + 1, UNCHANGED <<epoch, readers, queue, timer, terms>>
    PROVE  IInv'
<1> DEFINE r == [guard[g] EXCEPT !.pc = pc]
<1>1. r \in [pc : Pcs, at : 0..MaxTerms] /\ r.pc = pc /\ r.at = guard[g].at
  BY DEF IInv, Shapes, Pcs
<1>2. guard' = [guard EXCEPT ![g] = r]
  BY DEF Goto
<1> HIDE DEF r
<1>3. /\ guard' \in [Guards -> [pc : Pcs, at : 0..MaxTerms]]
      /\ guard'[g] = r /\ \A f \in Guards : f # g => guard'[f] = guard[f]
      /\ Bumping' = Bumping \union {g} /\ g \notin Bumping
  BY Zenon, <1>1, <1>2, OneGuard DEF IInv, Bumping
<1>4. Cardinality(Bumping') = Cardinality(Bumping) + 1
  BY ZenonT(60), <1>3, BumpingCount DEF GuardSets
<1>5. NodeOf[g] # NoNode /\ writer'.node = NoNode /\ ~writer'.live
  BY ZenonT(60), CoherenceAssumption DEF NoWriter
<1>6. ended \in Nat /\ epoch \in Nat /\ terms \in Nat
  BY CoherenceAssumption DEF IInv, Shapes
<1>7. EpochCountsEnds'
  <2>1. epoch + (IF timer = "bump" THEN 1 ELSE 0) + Cardinality(Bumping) = ended
    BY DEF IInv, EpochCountsEnds, Bumping
  <2>2. epoch + (IF timer = "bump" THEN 1 ELSE 0) + Cardinality(Bumping') = ended + 1
    <3>1. Cardinality(Bumping) \in Nat
      BY Zenon, BumpingCount
    <3> QED
      BY <1>4, <1>6, <2>1, <3>1
  <2> QED
    BY ZenonT(60), <2>2 DEF EpochCountsEnds, Bumping
<1>8. EndsWithinTerms'
  BY <1>5, <1>6 DEF IInv, EndsWithinTerms
<1>9. LookHolds'
  BY ZenonT(60), <1>1, <1>3, <1>5 DEF IInv, LookHolds
<1>10. Shapes'
  <2>1. writer' \in [node : Nodes \union {NoNode}, live : BOOLEAN]
    BY Zenon DEF NoWriter
  <2>2. ended' \in Nat
    BY <1>6
  <2> QED
    BY Zenon, <1>3, <1>5, <2>1, <2>2 DEF IInv, Shapes
<1> QED
  BY <1>7, <1>8, <1>9, <1>10 DEF IInv

\* WriterGuard.release, its drop, and a release request without a grant.
LEMMA ReleaseKeeps ==
    ASSUME GuardSets, IInv, NEW g \in Guards,
           guard_release(g) \/ guard_drop(g) \/ stray_release(g)
    PROVE  IInv'
<1>1. /\ guard[g].pc \in {"idle", "held", "released"}
      /\ UNCHANGED <<epoch, readers, queue, timer, terms>>
  BY DEF guard_release, guard_drop, stray_release
<1>2. ASSUME NEW bump \in {"bump_released", "bump_idle"}, NEW then \in {"idle", "released"},
             release_writer(g, bump, then)
      PROVE  IInv'
  <2>1. CASE writer.node = NodeOf[g]
    BY ZenonT(60), <1>1, <1>2, <2>1, ClearKeeps DEF release_writer
  <2>2. CASE writer.node # NodeOf[g]
    BY ZenonT(60), <1>1, <1>2, <2>2, MoveKeeps DEF release_writer
  <2> QED
    BY ZenonT(60), <2>1, <2>2
<1>3. ASSUME Goto(g, "idle"), UNCHANGED <<writer, ended>> PROVE IInv'
  BY ZenonT(60), <1>1, <1>3, MoveKeeps
<1> QED
  BY ZenonT(60), <1>2, <1>3 DEF guard_release, guard_drop, stray_release

\* bump_epoch at the end of release_writer.
LEMMA BumpKeeps == ASSUME GuardSets, IInv, NEW g \in Guards, release_bump(g) PROVE IInv'
<1>0. PICK pc \in {"released", "idle"} : Goto(g, pc)
  BY DEF release_bump
<1> DEFINE r == [guard[g] EXCEPT !.pc = pc]
<1>1. r \in [pc : Pcs, at : 0..MaxTerms] /\ r.pc = pc /\ r.at = guard[g].at
  BY ZenonT(60) DEF IInv, Shapes, Pcs
<1>2. /\ guard' = [guard EXCEPT ![g] = r] /\ g \in Bumping /\ epoch' = epoch + 1
      /\ UNCHANGED <<writer, readers, queue, timer, terms, ended>>
  BY Zenon, <1>0 DEF release_bump, Goto, Bumping
<1> HIDE DEF r
<1>3. /\ guard' \in [Guards -> [pc : Pcs, at : 0..MaxTerms]]
      /\ guard'[g] = r /\ \A f \in Guards : f # g => guard'[f] = guard[f]
      /\ Bumping' = Bumping \ {g}
  BY Zenon, <1>1, <1>2, OneGuard DEF IInv
<1>4. Cardinality(Bumping') = Cardinality(Bumping) - 1
  BY ZenonT(60), <1>2, <1>3, BumpingCount DEF GuardSets
<1>5. ended \in Nat /\ epoch \in Nat /\ terms \in Nat
  BY CoherenceAssumption DEF IInv, Shapes
<1>6. EpochCountsEnds'
  <2>1. epoch + (IF timer = "bump" THEN 1 ELSE 0) + Cardinality(Bumping) = ended
    BY DEF IInv, EpochCountsEnds, Bumping
  <2>2. (epoch + 1) + (IF timer = "bump" THEN 1 ELSE 0) + Cardinality(Bumping') = ended
    <3>1. Cardinality(Bumping) \in Nat
      BY Zenon, BumpingCount
    <3> QED
      BY <1>4, <1>5, <2>1, <3>1
  <2> QED
    BY <1>2, <2>2 DEF EpochCountsEnds, Bumping
<1>7. LookHolds'
  BY <1>1, <1>2, <1>3 DEF IInv, LookHolds
<1> QED
  BY <1>2, <1>3, <1>5, <1>6, <1>7 DEF IInv, Shapes, EndsWithinTerms

\* Time, and the daemon's timer.
LEMMA TimerKeeps ==
    ASSUME GuardSets, IInv, lease_runs_out \/ check_lease_expiry \/ expiry_bump
    PROVE  IInv'
<1>1. ended \in Nat /\ epoch \in Nat /\ terms \in Nat /\ Cardinality(Bumping) \in Nat
  BY BumpingCount, CoherenceAssumption DEF IInv, Shapes
<1>2. guard' = guard /\ Bumping' = Bumping
  BY DEF lease_runs_out, check_lease_expiry, expiry_bump, Bumping
<1>3. epoch + (IF timer = "bump" THEN 1 ELSE 0) + Cardinality(Bumping) = ended
  BY ZenonT(60) DEF IInv, EpochCountsEnds, Bumping
<1>4. CASE lease_runs_out
  <2>1. /\ writer'.node = writer.node /\ ~writer'.live
        /\ writer' \in [node : Nodes \union {NoNode}, live : BOOLEAN]
        /\ UNCHANGED <<epoch, readers, queue, guard, timer, terms, ended>>
    BY Zenon, <1>4 DEF lease_runs_out, IInv, Shapes
  <2> QED
    BY <1>2, <2>1, CountsKept DEF IInv, Shapes, EndsWithinTerms, LookHolds
<1>5. CASE check_lease_expiry
  <2>1. /\ writer' = NoWriter /\ writer.node # NoNode /\ timer = "idle" /\ timer' = "bump"
        /\ ended' = ended + 1 /\ UNCHANGED <<epoch, readers, queue, guard, terms>>
    BY <1>5 DEF check_lease_expiry
  <2>2. /\ writer'.node = NoNode /\ ~writer'.live
        /\ writer' \in [node : Nodes \union {NoNode}, live : BOOLEAN]
    BY ZenonT(60), <2>1 DEF NoWriter
  <2>3. EpochCountsEnds'
    <3>1. epoch + 1 + Cardinality(Bumping) = ended + 1
      BY <1>1, <1>3, <2>1
    <3> QED
      BY <1>2, <2>1, <3>1 DEF EpochCountsEnds, Bumping
  <2>4. EndsWithinTerms'
    BY <1>1, <2>1, <2>2 DEF IInv, EndsWithinTerms
  <2> QED
    BY <1>1, <2>1, <2>2, <2>3, <2>4 DEF IInv, Shapes, LookHolds
<1>6. CASE expiry_bump
  <2>1. /\ timer = "bump" /\ timer' = "idle" /\ epoch' = epoch + 1
        /\ UNCHANGED <<writer, readers, queue, guard, terms, ended>>
    BY ZenonT(60), <1>6 DEF expiry_bump
  <2>2. EpochCountsEnds'
    <3>1. (epoch + 1) + 0 + Cardinality(Bumping) = ended
      BY <1>1, <1>3, <2>1
    <3> QED
      BY <1>2, <2>1, <3>1 DEF EpochCountsEnds, Bumping
  <2> QED
    BY <1>1, <2>1, <2>2 DEF IInv, Shapes, EndsWithinTerms, LookHolds
<1> QED
  BY ZenonT(60), <1>4, <1>5, <1>6

\* The readers, and a step that does nothing.
LEMMA ReadersKeep ==
    ASSUME IInv, UNCHANGED <<writer, epoch, queue, guard, timer, terms, ended>>,
           readers' \subseteq Nodes
    PROVE  IInv'
BY DEF IInv, Shapes, EpochCountsEnds, EndsWithinTerms, LookHolds

\* A step of the guards, the clock, the timer or the readers.
LEMMA LockKeeps ==
    ASSUME GuardSets, IInv, [Next]_vars
    PROVE  IInv'
<1>1. CASE \E g \in Guards : \/ acquire_check(g) \/ acquire_grant(g) \/ guard_release(g)
                             \/ guard_drop(g) \/ stray_release(g) \/ release_bump(g)
  BY <1>1, CheckKeeps, GrantKeeps, ReleaseKeeps, BumpKeeps
<1>2. CASE lease_runs_out \/ check_lease_expiry \/ expiry_bump
  BY <1>2, TimerKeeps
<1>3. CASE \E n \in Nodes : add_reader(n) \/ remove_reader(n)
  <2>1. readers' \subseteq Nodes
    BY ZenonT(60), <1>3 DEF add_reader, remove_reader, IInv, Shapes
  <2> QED
    BY <1>3, <2>1, ReadersKeep DEF add_reader, remove_reader
<1>4. CASE UNCHANGED vars
  BY ZenonT(60), <1>4, ReadersKeep DEF vars, IInv, Shapes
<1> QED
  BY <1>1, <1>2, <1>3, <1>4 DEF Next

\* A lease is displaced by a caller whose look is older than the grant.
LEMMA GrantToAnother ==
    ASSUME IInv, Next, writer.live, writer'.node \notin {writer.node, NoNode}
    PROVE  \E g \in Guards : /\ NodeOf[g] = writer'.node
                             /\ guard[g].pc = "checked" /\ guard[g].at < terms
<1>1. ASSUME NEW g \in Guards, release_writer(g, "bump_released", "released")
                                 \/ release_writer(g, "bump_idle", "idle")
      PROVE  FALSE
  <2>1. writer' \in {NoWriter, writer}
    BY Zenon, <1>1 DEF release_writer
  <2> QED
    BY <2>1 DEF NoWriter
<1>2. \A g \in Guards : ~(acquire_check(g) \/ guard_release(g) \/ guard_drop(g)
                            \/ stray_release(g) \/ release_bump(g))
  BY ZenonT(60), <1>1 DEF acquire_check, guard_release, guard_drop, stray_release, release_bump
<1>3. ~(lease_runs_out \/ check_lease_expiry \/ expiry_bump)
  BY DEF lease_runs_out, check_lease_expiry, expiry_bump, NoWriter, IInv, Shapes
<1>4. ~\E n \in Nodes : add_reader(n) \/ remove_reader(n)
  BY DEF add_reader, remove_reader
<1>5. PICK g \in Guards : acquire_grant(g)
  BY ZenonT(60), <1>2, <1>3, <1>4 DEF Next
<1>6. guard[g].pc = "checked" /\ NodeOf[g] = writer'.node
  BY ZenonT(60), <1>5 DEF acquire_grant
<1>7. guard[g].at <= terms /\ guard[g].at # terms /\ guard[g].at \in Nat /\ terms \in Nat
  BY <1>6, CoherenceAssumption DEF IInv, Shapes, LookHolds
<1> QED
  BY <1>6, <1>7

\* A running lease is cleared by a guard of its node.
LEMMA EndOfLease ==
    ASSUME IInv, Next, writer.live, writer' = NoWriter
    PROVE  \E g \in Guards : /\ NodeOf[g] = writer.node
                             /\ guard[g].pc \in {"idle", "held"} /\ guard'[g] # guard[g]
<1>1. writer.node # NoNode /\ writer'.node = NoNode /\ writer' # writer
  BY DEF IInv, Shapes, NoWriter
<1>2. ~(lease_runs_out \/ check_lease_expiry \/ expiry_bump)
  BY <1>1 DEF lease_runs_out, check_lease_expiry, expiry_bump, IInv, Shapes
<1>3. ~\E n \in Nodes : add_reader(n) \/ remove_reader(n)
  BY ZenonT(60), <1>1 DEF add_reader, remove_reader
<1>4. \A g \in Guards : ~(acquire_check(g) \/ acquire_grant(g) \/ release_bump(g))
  BY <1>1, CoherenceAssumption DEF acquire_check, acquire_grant, release_bump
<1>5. PICK g \in Guards : guard_release(g) \/ guard_drop(g) \/ stray_release(g)
  BY ZenonT(60), <1>2, <1>3, <1>4 DEF Next
<1>6. /\ guard[g].pc \in {"idle", "held"} /\ writer.node = NodeOf[g]
      /\ Goto(g, "bump_released") \/ Goto(g, "bump_idle")
  BY <1>1, <1>5 DEF guard_release, guard_drop, stray_release, release_writer
<1>7. guard'[g].pc \in {"bump_released", "bump_idle"}
  BY <1>6 DEF Goto, IInv, Shapes
<1> QED
  BY ZenonT(60), <1>6, <1>7

-----------------------------------------------------------------------------
INSTANCE FiniteSetTheorems

\* The guards are finitely many, so the sets of them can be counted.
LEMMA GuardsCounted == GuardSets
<1>1. ASSUME NEW S \in SUBSET Guards PROVE IsFiniteSet(S) /\ Cardinality(S) \in Nat
  BY FS_Subset, FS_CardinalityType, CoherenceAssumption
<1>2. ASSUME NEW S \in SUBSET Guards, NEW g \in Guards \ S
      PROVE  Cardinality(S \union {g}) = Cardinality(S) + 1
  BY Zenon, <1>1, FS_AddElement
<1>3. ASSUME NEW S \in SUBSET Guards, NEW g \in S
      PROVE  Cardinality(S \ {g}) = Cardinality(S) - 1
  BY Zenon, <1>1, FS_RemoveElement
<1>4. Cardinality({}) = 0
  BY Zenon, FS_EmptySet
<1> QED
  BY Zenon, <1>1, <1>2, <1>3, <1>4 DEF GuardSets

\* The invariant holds of every behaviour of the guards, the clock, the timer
\* and the readers.
THEOREM LockInvariant == Spec => []IInv
<1>1. IInv /\ [Next]_vars => IInv'
  BY GuardsCounted, LockKeeps
<1>2. Spec => Init /\ [][Next]_vars
  BY PTL DEF Spec
<1>3. Init => IInv
  BY GuardsCounted, InitInv
<1> QED
  BY <1>1, <1>2, <1>3, PTL

\* The counters and everything else keep their types and bounds: in
\* particular the epoch never passes the number of grants.
THEOREM LockTypeCorrectness == Spec => []TypeOK
<1>1. IInv => TypeOK
  BY ZenonT(60), GuardsCounted, InvTypes
<1> QED
  BY <1>1, LockInvariant, PTL

\* Every term that release_writer or check_lease_expiry ends raises the epoch
\* by one, once the calls that ended it are done.
THEOREM EpochExact == Spec => []EpochCountsEnds
<1>1. IInv => EpochCountsEnds
  BY DEF IInv
<1> QED
  BY <1>1, LockInvariant, PTL

\* No term of a writer is ended by two of release_writer, a dropped guard and
\* check_lease_expiry.
THEOREM TermsEndOnce == Spec => []EndsWithinTerms
<1>1. IInv => EndsWithinTerms
  BY DEF IInv
<1> QED
  BY <1>1, LockInvariant, PTL

\* A running lease is lost to another node only to a caller of acquire_writer
\* that looked before that lease was granted.
THEOREM TwoWritersOnlyByRace == Spec => DisplacedOnlyByRace
<1>1. IInv /\ [Next]_vars
        => [writer.live /\ writer'.node \notin {writer.node, NoNode}
              => \E g \in Guards : /\ NodeOf[g] = writer'.node
                                   /\ guard[g].pc = "checked" /\ guard[g].at < terms]_vars
  BY GrantToAnother
<1>2. Spec => [][Next]_vars
  BY PTL DEF Spec
<1> QED
  BY <1>1, <1>2, LockInvariant, PTL DEF DisplacedOnlyByRace

\* A running lease ends early only by a release of its own node: never by the
\* timer, a guard of another node, or a guard dropped after its release.
THEOREM EndedEarlyByOwner == Spec => EndedByOwner
<1>1. IInv /\ [Next]_vars
        => [writer.live /\ writer' = NoWriter
              => \E g \in Guards : /\ NodeOf[g] = writer.node
                                   /\ guard[g].pc \in {"idle", "held"} /\ guard'[g] # guard[g]]_vars
  BY EndOfLease
<1>2. Spec => [][Next]_vars
  BY PTL DEF Spec
<1> QED
  BY <1>1, <1>2, LockInvariant, PTL DEF EndedByOwner
=============================================================================
