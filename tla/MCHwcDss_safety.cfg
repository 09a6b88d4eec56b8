CONSTANTS
    Handles = {h1, h2}
    CacheSize = 1
    MaxMapFailures = 0
    NoHandle = NoHandle
    NoMap = NoMap
    NLayers = 3
    ForceRgbToFb = FALSE
    NoList = NoList
    NoOvl = NoOvl
    VideoBuf = v1
    KindNames = {"null", "video", "rgb565"}
    LayerKinds <- MCLayerKinds
SPECIFICATION Spec
INVARIANT PresentsCurrentFrame
SYMMETRY HandleSymmetry
