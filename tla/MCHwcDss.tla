------------------------------ MODULE MCHwcDss ------------------------------
(***************************************************************************)
(* Frames of SurfaceFlinger through prepare_dss_layers and set_dss_layers. *)
(* The layers are drawn from a few representatives: a NULL handle, a       *)
(* skipped, hidden or multi-rectangle layer, an RGBA layer, a video (NV12) *)
(* layer and an RGB565 layer of each cached buffer.                        *)
(***************************************************************************)
EXTENDS HwcDss, TLC

CONSTANTS
    VideoBuf,     \* the NV12 buffer of a video layer
    KindNames     \* which representatives the model draws layers from

ASSUME VideoBuf \notin Handles \cup {NoHandle}

Rgb565(h) == [handle |-> h, skip |-> FALSE, rects |-> 1, fmt |-> "RGB565"]

Kind ==
    [null    |-> [handle |-> NoHandle, skip |-> FALSE, rects |-> 1, fmt |-> "RGB565"],
     skipped |-> [Rgb565(CHOOSE h \in Handles : TRUE) EXCEPT !.skip = TRUE],
     hidden  |-> [Rgb565(CHOOSE h \in Handles : TRUE) EXCEPT !.rects = 0],
     multi   |-> [Rgb565(CHOOSE h \in Handles : TRUE) EXCEPT !.rects = 2],
     rgba    |-> [Rgb565(CHOOSE h \in Handles : TRUE) EXCEPT !.fmt = "RGBA"],
     video   |-> [handle |-> VideoBuf, skip |-> FALSE, rects |-> 1, fmt |-> "NV12"]]

MCLayerKinds ==
    {Kind[k] : k \in KindNames \ {"rgb565"}}
    \cup (IF "rgb565" \in KindNames THEN {Rgb565(h) : h \in Handles} ELSE {})

(* The cache compares buffers only for equality, and the RGB565 layers    *)
(* are drawn alike for every buffer.                                       *)
HandleSymmetry == Permutations(Handles)
=============================================================================
