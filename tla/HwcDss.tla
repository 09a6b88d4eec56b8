------------------------------- MODULE HwcDss -------------------------------
(***************************************************************************)
(* The overlay path of hwc/hwc_dss.cpp composed with the Tiler-1D map      *)
(* cache of hwc-moto/hwc_buffers.cpp.  SurfaceFlinger's thread calls       *)
(* ti_hwc_prepare and then ti_hwc_set for every frame (hwc.cpp); no other *)
(* thread touches the pipelines or the cache, so each call is one step.    *)
(*                                                                         *)
(* g_pipelines[VID1..VID3] hold the index of their layer (pipeline.layer   *)
(* points into the current list) or NoLayer; flags, layer_no and z are     *)
(* written and only copied into the DSS staging data, so they are left    *)
(* out.  The GFX pipe is left out: its only write, at end_fb, tests        *)
(* flags & HWCIMPL_PIPE_UNUSED, which is 0, so it never changes.           *)
(* g_top_vid_pipe stays VID1 because HDMI_DEMO is not defined.  A layer   *)
(* is the record the code inspects: its handle (NULL or a buffer),         *)
(* HWC_SKIP_LAYER, the number of visible rectangles and the pixel format. *)
(* dss is the address the display subsystem scans out on each video       *)
(* pipeline, as OMAPDSS_HWC_SET leaves it.                                 *)
(***************************************************************************)
EXTENDS Integers, FiniteSets

CONSTANTS
    Handles, CacheSize, MaxMapFailures, NoHandle, NoMap,  \* the cache's
    NLayers,       \* hwc_layer_list_t.numHwLayers
    LayerKinds,    \* the layers SurfaceFlinger may hand over
    ForceRgbToFb,  \* g_force_rgb_to_fb
    NoList,        \* list == NULL
    NoOvl          \* a pipeline the DSS does not scan out

VARIABLES
    l_next, g_head, layer_buffer, mapped_ptr, tiler, failures,
    g_pipelines,
    list,             \* the layer list of the frame
    compositionType,  \* hwLayers[n].compositionType
    pc,               \* "idle" or "prepared": which call SurfaceFlinger makes next
    ovls,             \* setinfo.ovls[0..n_ovls-1] of the last set_dss_layers
    dss,
    overrun           \* set_dss_layers has read g_pipelines[HWCIMPL_PIPE_MAX]

cacheVars == <<l_next, g_head, layer_buffer, mapped_ptr, tiler, failures>>
vars == <<cacheVars, g_pipelines, list, compositionType, pc, ovls, dss, overrun>>

\* The cache's record of the last call is kept by its own model only.
Cache == INSTANCE HwcBufferCache
             WITH last <- [op |-> "none", h |-> NoHandle, rv |-> 0, ptr |-> NoMap]

HWCIMPL_PIPE_VID1 == 1
HWCIMPL_PIPE_MAX == 4
VidPipes == HWCIMPL_PIPE_VID1 .. HWCIMPL_PIPE_MAX - 1
g_top_vid_pipe == HWCIMPL_PIPE_VID1
Layers == 1..NLayers
NoLayer == 0

\* At most one restart after a failed map, so at most two passes of the
\* mapping loop over the video pipes.
MaxMapCalls == 2 * Cardinality(VidPipes)

-----------------------------------------------------------------------------
(* The tests of prepare_dss_layers' first loop (296-334) that skip layer   *)
(* k: NULL handle, HWC_SKIP_LAYER, no or several visible rectangles, and   *)
(* any RGB layer while RGB is ignored, any but RGB565 otherwise.           *)
Eligible(k, ignoreRgb) ==
    /\ k.handle # NoHandle
    /\ ~k.skip
    /\ k.rects = 1
    /\ k.fmt # "NV12" => (~ignoreRgb /\ k.fmt = "RGB565")

(* A frame without HWC_GEOMETRY_CHANGED has the layers of the last one,    *)
(* each with the same format and visibility and possibly a new buffer.     *)
SameGeometry(a, b) ==
    \A i \in Layers : /\ a[i].fmt = b[i].fmt /\ a[i].skip = b[i].skip
                      /\ a[i].rects = b[i].rects
                      /\ (a[i].handle = NoHandle) = (b[i].handle = NoHandle)

(* The DSS staging info update_buffer (127-231) fills for pipe p from the  *)
(* cached buffer: the pipe index and the mapped address; the colour, crop, *)
(* position and z order fields are left out.  Its -EINVAL (182) is for a  *)
(* format prepare never puts on a pipe, so it always succeeds here.        *)
update_buffer(p, ptr) == [ix |-> p, layer |-> g_pipelines[p], ptr |-> ptr]

-----------------------------------------------------------------------------
(* prepare_dss_layers runs on a record st: the pipes, next_pipe,           *)
(* state_ignore_rgb, the cache, the compositionTypes, and the map calls    *)
(* made and failed so far; oks[i] is whether the i-th MemMgr_Map succeeds. *)
RECURSIVE ParseFrom(_, _, _), ParseThenMap(_, _, _), MapFrom(_, _, _, _, _),
          ParseThenMapKeepingPipes(_, _, _)

(* The first loop (291-350) from layer i.  A layer that qualifies when the *)
(* pipes are used up makes it ignore RGB and parse again from layer 0      *)
(* (336-338, next_pipe left as it is), or break once RGB is ignored.      *)
ParseFrom(l, st, i) ==
    IF i > NLayers THEN st
    ELSE IF ~Eligible(l[i], st.ignore) THEN ParseFrom(l, st, i + 1)
    ELSE IF st.next >= HWCIMPL_PIPE_MAX
         THEN IF st.ignore THEN st
              ELSE ParseFrom(l, [st EXCEPT !.ignore = TRUE], 1)
    ELSE ParseFrom(l, [st EXCEPT !.pipes[st.next] = i, !.next = @ + 1], i + 1)

(* parse_layers_again: the first loop, the reset of the pipes from         *)
(* next_pipe on (352-358), and the mapping loop unless no pipe was used    *)
(* (397-399).                                                               *)
\* Slip: the "Reset state for the unused pipes" loop left out.
ParseThenMapKeepingPipes(l, st, oks) ==
    LET parsed == ParseFrom(l, st, 1)
    IN  IF parsed.next = g_top_vid_pipe THEN parsed
        ELSE MapFrom(l, parsed, g_top_vid_pipe, parsed.next - 1, oks)

ParseThenMap(l, st, oks) ==
    LET parsed == ParseFrom(l, st, 1)
        reset  == [parsed EXCEPT !.pipes = [p \in VidPipes |->
                      IF p >= parsed.next THEN NoLayer ELSE parsed.pipes[p]]]
    IN  IF reset.next = g_top_vid_pipe THEN reset
        ELSE MapFrom(l, reset, g_top_vid_pipe, reset.next - 1, oks)

(* The mapping loop (401-428) at pipe p: an NV12 layer or a cache hit is   *)
(* marked HWC_OVERLAY; after a miss map_cached_buffer is called, and a     *)
(* failure while RGB is still considered goes back to parse_layers_again   *)
(* with next_pipe = p; otherwise the layer is marked, mapped or not.       *)
MapFrom(l, st, p, lastPipe, oks) ==
    IF p > lastPipe \/ st.pipes[p] = NoLayer THEN st
    ELSE LET layer  == st.pipes[p]
             k      == l[layer]
             got    == Cache!get_cached_buffer(st.c, k.handle)
             ok     == oks[st.calls + 1]
             mapped == [st EXCEPT !.c = Cache!map_cached_buffer(st.c, k.handle, ok).c,
                                  !.calls = @ + 1,
                                  !.fails = @ + (IF ok THEN 0 ELSE 1)]
             Mark(s) == [s EXCEPT !.comp[layer] = "OVERLAY"]
         IN  IF k.fmt = "NV12" THEN MapFrom(l, Mark(st), p + 1, lastPipe, oks)
             ELSE IF got.rv = 0
             THEN MapFrom(l, Mark([st EXCEPT !.c = got.c]), p + 1, lastPipe, oks)
             ELSE IF ok \/ st.ignore THEN MapFrom(l, Mark(mapped), p + 1, lastPipe, oks)
             ELSE ParseThenMap(l, [mapped EXCEPT !.ignore = TRUE, !.next = p], oks)

(* The set_dss_layers loop (477-498) at pipe p: an NV12 layer goes to      *)
(* update_buffer with its own address, an RGB layer with the mapping a     *)
(* cache hit returns, and a miss is only logged.  At p = HWCIMPL_PIPE_MAX  *)
(* the loop test reads past g_pipelines; only the outcome in which that    *)
(* word is NULL is followed, and the read is recorded.                     *)
RECURSIVE SetFrom(_, _, _)
SetFrom(l, st, p) ==
    IF p = HWCIMPL_PIPE_MAX THEN [st EXCEPT !.overrun = TRUE]
    ELSE IF g_pipelines[p] = NoLayer THEN st
    ELSE LET k   == l[g_pipelines[p]]
             got == Cache!get_cached_buffer(st.c, k.handle)
         IN  IF k.fmt = "NV12"
             THEN SetFrom(l, [st EXCEPT !.ovls = @ \cup {update_buffer(p, k.handle)}], p + 1)
             ELSE SetFrom(l, [st EXCEPT !.c = got.c,
                                        !.ovls = IF got.rv = 0
                                                 THEN @ \cup {update_buffer(p, got.ptr)}
                                                 ELSE @], p + 1)

(* OMAPDSS_HWC_SET (500-509), issued when there is at least one overlay.   *)
(* Per ti_hwc_ioctl.h (199-212) it sets up each overlay of the             *)
(* composition; the pipelines not in it keep what they showed.             *)
OMAPDSS_HWC_SET(o) ==
    IF o = {} THEN dss
    ELSE [p \in VidPipes |-> IF \E x \in o : x.ix = p
                             THEN (CHOOSE x \in o : x.ix = p).ptr
                             ELSE dss[p]]

(* The outcomes of the MemMgr_Map calls one prepare may make, failing at  *)
(* most as often as MaxMapFailures still allows.                           *)
MapOutcomes ==
    {f \in [1..MaxMapCalls -> BOOLEAN] :
        Cardinality({i \in 1..MaxMapCalls : ~f[i]}) <= MaxMapFailures - failures}

-----------------------------------------------------------------------------
(* hwc_device_open -> init_hwc_dss succeeded: the framebuffer is open, the *)
(* cache list linked, the pipelines zeroed, nothing on the overlays.       *)
Init ==
    /\ Cache!Init
    /\ g_pipelines = [p \in VidPipes |-> NoLayer]
    /\ list = NoList
    /\ compositionType = [i \in Layers |-> "FB"]
    /\ pc = "idle"
    /\ ovls = {}
    /\ dss = [p \in VidPipes |-> NoOvl]
    /\ overrun = FALSE

(* ti_hwc_prepare(NULL): prepare_dss_layers returns 0 at once, leaving     *)
(* g_pipelines as the last frame left them.                                *)
PrepareNullList ==
    /\ pc = "idle"
    /\ list' = NoList
    /\ pc' = "prepared"
    /\ UNCHANGED <<cacheVars, g_pipelines, compositionType, ovls, dss, overrun>>

(* ti_hwc_prepare(l): SurfaceFlinger resets compositionType to            *)
(* HWC_FRAMEBUFFER when the geometry changed; unmap_cached_buffers is      *)
(* empty; then the parse and mapping loops, MemMgr_Map failing at most     *)
(* MaxMapFailures times in all; oks[i] tells whether the i-th MemMgr_Map  *)
(* call of this prepare succeeds.                                          *)
Prepare(l, geometryChanged, oks) ==
    /\ pc = "idle"
    /\ geometryChanged \/ (list # NoList /\ SameGeometry(l, list))
    /\ LET st0 == [pipes |-> g_pipelines, next |-> g_top_vid_pipe,
                   ignore |-> ForceRgbToFb, c |-> Cache!CacheOf,
                   comp |-> IF geometryChanged THEN [i \in Layers |-> "FB"]
                            ELSE compositionType,
                   calls |-> 0, fails |-> 0]
           st  == ParseThenMap(l, st0, oks)
       IN  /\ \A i \in 1..MaxMapCalls : oks[i] \/ i <= st.calls
           /\ g_pipelines' = st.pipes
           /\ compositionType' = st.comp
           /\ Cache!StoreCache(st.c)
           /\ failures' = failures + st.fails
    /\ list' = l
    /\ pc' = "prepared"
    /\ UNCHANGED <<ovls, dss, overrun>>

(* ti_hwc_set with a NULL list: set_dss_layers returns 0.                   *)
SetNullList ==
    /\ pc = "prepared" /\ list = NoList
    /\ ovls' = {}
    /\ pc' = "idle"
    /\ UNCHANGED <<cacheVars, g_pipelines, list, compositionType, dss, overrun>>

(* ti_hwc_set: set_dss_layers builds the composition from the pipes       *)
(* prepare left and hands it to the DSS.                                   *)
Set ==
    /\ pc = "prepared" /\ list # NoList
    /\ LET st == SetFrom(list, [c |-> Cache!CacheOf, ovls |-> {}, overrun |-> FALSE],
                         g_top_vid_pipe)
       IN  /\ Cache!StoreCache(st.c)
           /\ ovls' = st.ovls
           /\ dss' = OMAPDSS_HWC_SET(st.ovls)
           /\ overrun' = (overrun \/ st.overrun)
    /\ pc' = "idle"
    /\ UNCHANGED <<failures, g_pipelines, list, compositionType>>

Next ==
    \/ PrepareNullList
    \/ \E oks \in MapOutcomes :
          \E l \in [Layers -> LayerKinds], g \in BOOLEAN : Prepare(l, g, oks)
    \/ SetNullList
    \/ Set

Spec == Init /\ [][Next]_vars

-----------------------------------------------------------------------------
Addresses == Handles \cup {NoMap} \cup {k.handle : k \in LayerKinds}

TypeOK ==
    /\ Cache!TypeOK
    /\ g_pipelines \in [VidPipes -> Layers \cup {NoLayer}]
    /\ list \in [Layers -> LayerKinds] \cup {NoList}
    /\ compositionType \in [Layers -> {"FB", "OVERLAY"}]
    /\ pc \in {"idle", "prepared"}
    /\ ovls \subseteq [ix : VidPipes, layer : Layers, ptr : Addresses]
    /\ dss \in [VidPipes -> Addresses \cup {NoOvl}]

(* Every overlay set_dss_layers hands to the DSS is a layer of the list    *)
(* of this frame that this frame's prepare marked HWC_OVERLAY, shown from *)
(* that layer's own buffer, and for an RGB layer through a live Tiler-1D  *)
(* mapping: no pipe keeps a layer of an earlier list (the reset loop of    *)
(* 352-358, the NULL-list return of 250), and no evicted mapping is used.  *)
PresentsCurrentFrame ==
    pc = "idle" /\ list # NoList =>
        \A o \in ovls :
            /\ compositionType[o.layer] = "OVERLAY"
            /\ o.ptr = list[o.layer].handle
            /\ list[o.layer].fmt # "NV12" => o.ptr \in tiler

(* Every pipeline the DSS scans out once set_dss_layers has returned       *)
(* shows an overlay of the composition that set just made: a video layer  *)
(* that has left the list is not left on screen.                            *)
OverlaysShowCurrentFrame ==
    pc = "idle" =>
        \A p \in VidPipes : dss[p] # NoOvl => \E o \in ovls : o.ix = p /\ o.ptr = dss[p]

(* set_dss_layers never reads past g_pipelines.                            *)
NoReadPastPipelines == ~overrun
=============================================================================
