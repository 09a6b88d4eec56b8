------------------------- MODULE MCOMXCameraAdapter -------------------------
(***************************************************************************)
(* OMXCameraAdapter instantiated for TLC.  The port numbers are those of   *)
(* OMXCameraAdapter.h: the component has video ports 1-5 (OMX_ALL reaches  *)
(* all of them) and the preview port is OMX_CAMERA_PORT_VIDEO_OUT_PREVIEW. *)
(* Every count the model carries is bounded by the cfg constants.          *)
(***************************************************************************)
EXTENDS OMXCameraAdapter

=============================================================================
