---------------------------- MODULE HwcBufferCache ----------------------------
(***************************************************************************)
(* The Tiler-1D map cache of hwc-moto/hwc_buffers.cpp: MAP_CACHE_MAX_SZ    *)
(* hwc_cached_buffer_t records in the static array g_map_cache, threaded   *)
(* into a singly linked list by l.next from g_head (most recently used     *)
(* first, least recently used last).  Slots are the array indexes, Nil is  *)
(* the NULL pointer.  A handle stands for the layer's IMG_native_handle_t  *)
(* (compared through vptr); the Tiler mapping MemMgr_Map makes of a handle *)
(* is named by that handle.  NV12 buffers bypass the cache and change no   *)
(* state, and use_cnt is written but never read, so neither is modelled.  *)
(*                                                                         *)
(* The build is 32-bit ARM: sizeof(cbuf), a pointer, is 4 bytes, so        *)
(* bzero(cbuf, sizeof(cbuf)) clears l.next, the first field, and nothing   *)
(* else.                                                                   *)
(***************************************************************************)
EXTENDS Integers, Sequences, FiniteSets
LOCAL INSTANCE SequencesExt

CONSTANTS
    Handles,        \* the layer buffers composed
    CacheSize,      \* MAP_CACHE_MAX_SZ
    MaxMapFailures, \* MemMgr_Map failures (Tiler-1D space exhausted)
    NoHandle,       \* layer_buffer == NULL
    NoMap           \* mapped_ptr == NULL

ASSUME CacheSize \in Nat \ {0}
ASSUME {NoHandle, NoMap} \cap Handles = {}

Slots == 1..CacheSize
Nil == 0
ENOENT == 2
EINVAL == 22

VARIABLES
    l_next,        \* g_map_cache[s].l.next
    g_head,
    layer_buffer,  \* g_map_cache[s].layer_buffer
    mapped_ptr,    \* g_map_cache[s].mapped_ptr
    tiler,         \* the Tiler-1D mappings MemMgr holds
    last,          \* the call just made and what it returned
    failures

vars == <<l_next, g_head, layer_buffer, mapped_ptr, tiler, last,
          failures>>

-----------------------------------------------------------------------------
(* The cache as one value c: c.next is l.next, c.head g_head, c.buf the    *)
(* layer_buffer and c.ptr the mapped_ptr of every slot, c.tiler MemMgr's   *)
(* mappings.  The functions of hwc_buffers.cpp are operators on it, so a   *)
(* caller can make several calls in one step.                              *)
CacheOf == [next |-> l_next, head |-> g_head, buf |-> layer_buffer,
            ptr |-> mapped_ptr, tiler |-> tiler]

(* The list as the code walks it from g_head.  The walk stops after one   *)
(* more step than there are slots, so a cycle shows as a walk that long.  *)
RECURSIVE WalkFrom(_, _, _)
WalkFrom(c, s, k) == IF s = Nil \/ k = 0 THEN <<>>
                     ELSE <<s>> \o WalkFrom(c, c.next[s], k - 1)

ChainOf(c) == WalkFrom(c, c.head, CacheSize + 1)
Chain == ChainOf(CacheOf)

\* Slip: the search starting after g_head, missing the most recent entry.
FindBufSkippingHead(c, h) ==
    LET ch == Tail(ChainOf(c))
        i == SelectInSeq(ch, LAMBDA s : c.buf[s] = h)
    IN  IF i = 0 THEN Nil ELSE ch[i]

(* find_buf (46-60): the first slot along the list whose layer_buffer is  *)
(* the layer's buffer, Nil when none is.                                   *)
find_buf(c, h) ==
    LET ch == ChainOf(c)
        i == SelectInSeq(ch, LAMBDA s : c.buf[s] = h)
    IN  IF i = 0 THEN Nil ELSE ch[i]

(* get_lru (65-71): the last slot of the list.                             *)
get_lru(c) == Last(ChainOf(c))

\* Slip: the new head linked in front without unlinking it from prev.
SwapHeadKeepingPrevLink(c, buf) ==
    IF buf = c.head THEN c
    ELSE [c EXCEPT !.next[buf] = c.head, !.head = buf]

(* swap_head (77-91): buf unlinked from its predecessor and put in front  *)
(* of the old head.                                                        *)
swap_head(c, buf) ==
    IF buf = c.head THEN c
    ELSE LET prev == CHOOSE p \in Slots : c.next[p] = buf /\ p \in Range(ChainOf(c))
         IN  [c EXCEPT !.next = [@ EXCEPT ![prev] = c.next[buf], ![buf] = c.head],
                       !.head = buf]

\* Slip: the loop running one slot too far, linking the tail past the array.
InitCachedBuffersPastEnd == [s \in Slots |-> s + 1]

(* init_cached_buffers (166-173): link the array in index order; g_head   *)
(* and the records are left as they are.                                  *)
init_cached_buffers == [s \in Slots |-> IF s < CacheSize THEN s + 1 ELSE Nil]

(* get_cached_buffer (93-112) for a non-NV12 layer: on a hit move the     *)
(* entry to the head and copy it out.  The new cache, the return value    *)
(* and the mapped_ptr copied into the caller's cbuf.                      *)
get_cached_buffer(c, h) ==
    LET found == find_buf(c, h)
    IN  IF found = Nil THEN [c |-> c, rv |-> -ENOENT, ptr |-> NoMap]
        ELSE [c |-> swap_head(c, found), rv |-> 0, ptr |-> c.ptr[found]]

\* Slip: the evicted entry overwritten without MemMgr_UnMap.
MapWithoutUnmap(c, h, ok) ==
    LET cbuf == get_lru(c)
    IN  [c |-> [c EXCEPT !.next[cbuf] = Nil,
                         !.ptr[cbuf] = IF ok THEN h ELSE NoMap,
                         !.buf = IF ok THEN [@ EXCEPT ![cbuf] = h] ELSE @,
                         !.tiler = IF ok THEN @ \cup {h} ELSE @],
         rv |-> IF ok THEN 0 ELSE -EINVAL]

(* map_cached_buffer (114-160) for a non-NV12 layer, ok telling whether   *)
(* MemMgr_Map succeeds: take the LRU slot; if it holds a buffer,          *)
(* MemMgr_UnMap it and bzero its first 4 bytes (l.next).  On success fill *)
(* the slot, which stays at the tail; on failure bzero the 4 bytes again  *)
(* and return -EINVAL, with mapped_ptr NULL and layer_buffer still the    *)
(* evicted buffer.                                                         *)
map_cached_buffer(c, h, ok) ==
    LET cbuf    == get_lru(c)
        evicted == IF c.buf[cbuf] # NoHandle THEN {c.ptr[cbuf]} ELSE {}
    IN  [c |-> [c EXCEPT !.next[cbuf] = Nil,
                         !.ptr[cbuf] = IF ok THEN h ELSE NoMap,
                         !.buf = IF ok THEN [@ EXCEPT ![cbuf] = h] ELSE @,
                         !.tiler = (@ \ evicted) \cup (IF ok THEN {h} ELSE {})],
         rv |-> IF ok THEN 0 ELSE -EINVAL]

-----------------------------------------------------------------------------
(* The static state (g_head = &g_map_cache[0], the array zeroed), then     *)
(* init_cached_buffers from hwc_device_open -> init_hwc_dss.              *)
Init ==
    /\ l_next = init_cached_buffers
    /\ g_head = 1
    /\ layer_buffer = [s \in Slots |-> NoHandle]
    /\ mapped_ptr = [s \in Slots |-> NoMap]
    /\ tiler = {}
    /\ last = [op |-> "none", h |-> NoHandle, rv |-> 0, ptr |-> NoMap]
    /\ failures = 0

StoreCache(c) ==
    /\ l_next' = c.next /\ g_head' = c.head /\ layer_buffer' = c.buf
    /\ mapped_ptr' = c.ptr /\ tiler' = c.tiler

(* A caller's get_cached_buffer (prepare_dss_layers 407, set_dss_layers   *)
(* 483) for a buffer h.                                                    *)
GetCachedBuffer(h) ==
    LET r == get_cached_buffer(CacheOf, h)
    IN  /\ StoreCache(r.c)
        /\ last' = [op |-> "get", h |-> h, rv |-> r.rv, ptr |-> r.ptr]
        /\ UNCHANGED failures

(* The caller (prepare_dss_layers 407-408) maps a buffer only after       *)
(* get_cached_buffer missed it.                                            *)
MapAfterMiss(h) ==
    /\ find_buf(CacheOf, h) = Nil
    /\ \E ok \in BOOLEAN :
          LET r == map_cached_buffer(CacheOf, h, ok)
          IN  /\ ok \/ failures < MaxMapFailures
              /\ StoreCache(r.c)
              /\ failures' = IF ok THEN failures ELSE failures + 1
              /\ last' = [op |-> "map", h |-> h, rv |-> r.rv,
                          ptr |-> IF ok THEN h ELSE NoMap]

Next ==
    \/ \E h \in Handles : GetCachedBuffer(h)
    \/ \E h \in Handles : MapAfterMiss(h)

Spec == Init /\ [][Next]_vars

-----------------------------------------------------------------------------
\* The buffers the cache holds a mapping for.
CachedSet == {mapped_ptr[s] : s \in Slots} \ {NoMap}

TypeOK ==
    /\ l_next \in [Slots -> Slots \cup {Nil}]
    /\ g_head \in Slots
    /\ layer_buffer \in [Slots -> Handles \cup {NoHandle}]
    /\ mapped_ptr \in [Slots -> Handles \cup {NoMap}]
    /\ tiler \subseteq Handles

(* swap_head's pointer surgery and map_cached_buffer's bzero keep the     *)
(* records one list: from g_head every slot is reached exactly once and   *)
(* the walk ends in NULL, so get_lru and find_buf see the whole cache.    *)
ListWellFormed ==
    /\ Len(Chain) = CacheSize
    /\ Range(Chain) = Slots

(* Every Tiler-1D mapping MemMgr holds is the mapped_ptr of exactly one    *)
(* slot, and every slot's mapped_ptr is a live mapping: eviction in        *)
(* map_cached_buffer unmaps what it overwrites, nothing is mapped twice.  *)
MappingsAccounted ==
    /\ tiler = CachedSet
    /\ \A s, t \in Slots :
          s # t /\ mapped_ptr[s] # NoMap => mapped_ptr[s] # mapped_ptr[t]
=============================================================================
