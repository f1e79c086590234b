----------------------------- MODULE Placement -----------------------------
(***************************************************************************)
(* Allocation of managed regions on their home node: the placer, its       *)
(* device registry and bump allocator (ub-managed/src/placer.rs,           *)
(* registry.rs, sub_alloc.rs), and the handlers region_alloc and           *)
(* region_free (unibusd/src/main.rs), which also enter a region in the     *)
(* region table and in the coherence manager and take it out again.        *)
(*                                                                         *)
(* The daemon registers one placeable device, its memory pool, so          *)
(* best_device comes down to its filters on free bytes and on the kind a   *)
(* request is pinned to.  Requests run concurrently; a step is what        *)
(* happens under one lock or one atomic.                                   *)
(***************************************************************************)
EXTENDS Naturals, FiniteSets

CONSTANTS
    Allocs,     \* concurrent region_alloc requests
    Frees,      \* concurrent region_free requests
    Sizes,      \* sizes asked for
    pool_usable,\* SubAllocator.total_len and the profile's capacity_bytes
    MaxRegions  \* bound on the regions ever placed

ASSUME PlacementAssumption == pool_usable \in Nat /\ MaxRegions \in Nat /\ Sizes \subseteq Nat

VARIABLES
    allocated,      \* SubAllocator.allocated
    used_bytes,     \* DeviceProfile.used_bytes of the pool device
    next_region_id, \* Placer.next_region_id
    regions,        \* Placer.regions: placements [id, offset, len]
    region_table,   \* ids in the RegionTable, as Home
    home_states,    \* ids in the CoherenceManager
    alloc,          \* request -> [pc, size, current, offset, id]
    free,           \* request -> [pc, id]
    spans,          \* every placement ever made, freed ones included
    freed,          \* ids whose region_free answered ok
    early,          \* ids freed while their region_alloc was still running
    refused         \* a placement the pool suits was refused although it had room

poolVars == <<allocated, used_bytes, next_region_id>>
tableVars == <<regions, region_table, home_states>>
ghostVars == <<spans, freed, early, refused>>
placementVars == <<poolVars, tableVars, alloc, free, ghostVars>>

IdleAlloc == [pc |-> "idle", size |-> 0, current |-> 0, offset |-> 0, id |-> 0]
IdleFree == [pc |-> "idle", id |-> 0]

PoolInit ==
    /\ allocated = 0 /\ used_bytes = 0 /\ next_region_id = 1
    /\ regions = {} /\ region_table = {} /\ home_states = {}
    /\ alloc = [a \in Allocs |-> IdleAlloc]
    /\ free = [f \in Frees |-> IdleFree]
    /\ spans = {} /\ freed = {} /\ early = {} /\ refused = FALSE

-----------------------------------------------------------------------------
(* region_alloc.                                                           *)

MoveTo(a, pc) == alloc' = [alloc EXCEPT ![a] = [@ EXCEPT !.pc = pc]]

\* AllocHints.pin, and whether the pool, a device of kind Memory, suits it.
Pins == {"none", "memory", "npu"}
Suits(pin) == pin \in {"none", "memory"}

\* A refusal ends the request; the ghost notes one that the pool suits and had
\* room for.
Refuse(a, size, pin) ==
    /\ alloc' = [alloc EXCEPT ![a] = IdleAlloc]
    /\ refused' = (refused \/ (Suits(pin) /\ allocated + size <= pool_usable))

\* A mistake to compare with: a device that would become full is skipped.
best_device_never_full(a, size, pin) ==
    /\ alloc[a].pc = "idle"
    /\ next_region_id + Cardinality({b \in Allocs : alloc[b].pc \in {"load", "cas", "id"}})
         <= MaxRegions
    /\ IF pool_usable - used_bytes <= size \/ ~Suits(pin)
         THEN Refuse(a, size, pin)
         ELSE /\ alloc' = [alloc EXCEPT ![a] = [IdleAlloc EXCEPT !.pc = "load", !.size = size]]
              /\ UNCHANGED refused
    /\ UNCHANGED <<poolVars, tableVars, free, spans, freed, early>>

\* DeviceRegistry.best_device.
best_device(a, size, pin) ==
    /\ alloc[a].pc = "idle"
    /\ next_region_id + Cardinality({b \in Allocs : alloc[b].pc \in {"load", "cas", "id"}})
         <= MaxRegions
    /\ IF pool_usable - used_bytes < size \/ ~Suits(pin)
         THEN Refuse(a, size, pin)
         ELSE /\ alloc' = [alloc EXCEPT ![a] = [IdleAlloc EXCEPT !.pc = "load", !.size = size]]
              /\ UNCHANGED refused
    /\ UNCHANGED <<poolVars, tableVars, free, spans, freed, early>>

\* SubAllocator.alloc: the load and the size check; the pin was found to suit.
alloc_load(a) ==
    /\ alloc[a].pc = "load"
    /\ IF allocated + alloc[a].size > pool_usable
         THEN Refuse(a, alloc[a].size, "none")
         ELSE /\ alloc' = [alloc EXCEPT ![a] = [@ EXCEPT !.pc = "cas", !.current = allocated]]
              /\ UNCHANGED refused
    /\ UNCHANGED <<poolVars, tableVars, free, spans, freed, early>>

\* A mistake to compare with: a store in place of the compare_exchange.
alloc_store(a) ==
    /\ alloc[a].pc = "cas"
    /\ allocated' = alloc[a].current + alloc[a].size
    /\ alloc' = [alloc EXCEPT ![a] = [@ EXCEPT !.pc = "id", !.offset = alloc[a].current, !.current = 0]]
    /\ UNCHANGED <<used_bytes, next_region_id, tableVars, free, ghostVars>>

\* SubAllocator.alloc: compare_exchange, and round the loop when it fails.
alloc_cas(a) ==
    /\ alloc[a].pc = "cas"
    /\ IF allocated = alloc[a].current
         THEN /\ allocated' = allocated + alloc[a].size
              /\ alloc' = [alloc EXCEPT ![a] = [@ EXCEPT !.pc = "id", !.offset = allocated,
                                                        !.current = 0]]
         ELSE /\ alloc' = [alloc EXCEPT ![a] = [@ EXCEPT !.pc = "load", !.current = 0]]
              /\ UNCHANGED allocated
    /\ UNCHANGED <<used_bytes, next_region_id, tableVars, free, ghostVars>>

next_id(a) ==
    /\ alloc[a].pc = "id"
    /\ alloc' = [alloc EXCEPT ![a] = [@ EXCEPT !.pc = "record", !.id = next_region_id]]
    /\ next_region_id' = next_region_id + 1
    /\ UNCHANGED <<allocated, used_bytes, tableVars, free, ghostVars>>

\* The end of Placer.place, under the lock of regions: update_dynamic replaces
\* the device's used bytes by the size just placed.
place_record(a) ==
    LET placement == [id |-> alloc[a].id, offset |-> alloc[a].offset, len |-> alloc[a].size] IN
    /\ alloc[a].pc = "record"
    /\ regions' = regions \union {placement}
    /\ spans' = spans \union {placement}
    /\ used_bytes' = alloc[a].size
    /\ MoveTo(a, "handle")
    /\ UNCHANGED <<allocated, next_region_id, region_table, home_states, free, freed, early,
                   refused>>

\* RegionTable.insert (set_mr_handle before it finds the placement or does nothing).
table_insert(a) ==
    /\ alloc[a].pc = "handle"
    /\ region_table' = region_table \union {alloc[a].id}
    /\ MoveTo(a, "register")
    /\ UNCHANGED <<poolVars, regions, home_states, free, ghostVars>>

register_region(a) ==
    /\ alloc[a].pc = "register"
    /\ home_states' = home_states \union {alloc[a].id}
    /\ alloc' = [alloc EXCEPT ![a] = IdleAlloc]
    /\ UNCHANGED <<poolVars, regions, region_table, free, ghostVars>>

-----------------------------------------------------------------------------
(* region_free.                                                            *)

\* Placer.free: an id that is not placed is refused; the device's used bytes
\* are set to 0, and the bump allocator gets nothing back.
placer_free(f, p) ==
    /\ free[f].pc = "idle"
    /\ regions' = regions \ {p}
    /\ used_bytes' = 0
    /\ early' = IF \E a \in Allocs : alloc[a].pc \in {"handle", "register"} /\ alloc[a].id = p.id
                  THEN early \union {p.id} ELSE early
    /\ free' = [free EXCEPT ![f] = [pc |-> "table", id |-> p.id]]
    /\ UNCHANGED <<allocated, next_region_id, region_table, home_states, alloc, spans, freed,
                   refused>>

table_remove(f) ==
    /\ free[f].pc = "table"
    /\ region_table' = region_table \ {free[f].id}
    /\ free' = [free EXCEPT ![f] = [@ EXCEPT !.pc = "unregister"]]
    /\ UNCHANGED <<poolVars, regions, home_states, alloc, ghostVars>>

\* A mistake to compare with: the coherence manager keeps the region.
unregister_region_kept(f) ==
    /\ free[f].pc = "unregister"
    /\ freed' = freed \union {free[f].id}
    /\ free' = [free EXCEPT ![f] = IdleFree]
    /\ UNCHANGED <<poolVars, tableVars, alloc, spans, early, refused>>

unregister_region(f) ==
    /\ free[f].pc = "unregister"
    /\ home_states' = home_states \ {free[f].id}
    /\ freed' = freed \union {free[f].id}
    /\ free' = [free EXCEPT ![f] = IdleFree]
    /\ UNCHANGED <<poolVars, regions, region_table, alloc, spans, early, refused>>

-----------------------------------------------------------------------------
PoolNext ==
    \/ \E a \in Allocs :
         \/ \E size \in Sizes, pin \in Pins : best_device(a, size, pin)
         \/ alloc_load(a) \/ alloc_cas(a) \/ next_id(a) \/ place_record(a)
         \/ table_insert(a) \/ register_region(a)
    \/ \E f \in Frees :
         \/ \E p \in regions : placer_free(f, p)
         \/ table_remove(f) \/ unregister_region(f)

PoolSpec == PoolInit /\ [][PoolNext]_placementVars

-----------------------------------------------------------------------------
AllocState == [pc : {"idle", "load", "cas", "id", "record", "handle", "register"},
               size : Sizes \union {0}, current : Nat, offset : Nat, id : Nat]
FreeState == [pc : {"idle", "table", "unregister"}, id : Nat]

\* The shape of every variable.
PoolTypeOK ==
    /\ allocated \in 0..pool_usable /\ used_bytes \in Sizes \union {0}
    /\ next_region_id \in Nat
    /\ regions \subseteq spans
    /\ spans \subseteq [id : Nat, offset : Nat, len : Sizes]
    /\ region_table \subseteq Nat /\ home_states \subseteq Nat
    /\ alloc \in [Allocs -> AllocState] /\ free \in [Frees -> FreeState]
    /\ freed \subseteq Nat /\ early \subseteq Nat /\ refused \in BOOLEAN

Apart(p, q) == p.offset + p.len <= q.offset \/ q.offset + q.len <= p.offset

\* However requests interleave in the compare-and-swap loop, no two regions
\* ever placed, freed ones included, share an id or a byte, and all lie in the
\* pool (SubAllocator.alloc, Placer.place).  This is about regions homed here;
\* the copies of regions homed elsewhere lie in the same memory (RegionCache).
RegionsDisjoint ==
    /\ \A p, q \in spans : p # q => p.id # q.id /\ Apart(p, q)
    /\ \A p \in spans : p.offset + p.len <= pool_usable

\* A region that is not pinned to a kind of device other than the pool's is
\* refused only when the pool has no room for it, although the registry's used
\* bytes are overwritten by each placement and zeroed by each release
\* (best_device, update_dynamic, SubAllocator.alloc).
RefusedOnlyWhenFull == ~refused

\* When region_free has answered ok, the region is in none of the three
\* tables, except when it was freed while region_alloc was still entering it.
FreedIsGone ==
    \A id \in freed \ early :
      id \notin region_table /\ id \notin home_states /\ \A p \in regions : p.id # id
=============================================================================
