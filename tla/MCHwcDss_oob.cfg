CONSTANTS
    Handles = {h1}
    CacheSize = 1
    MaxMapFailures = 0
    NoHandle = NoHandle
    NoMap = NoMap
    NLayers = 3
    ForceRgbToFb = TRUE
    NoList = NoList
    NoOvl = NoOvl
    VideoBuf = v1
    KindNames = {"null", "skipped", "hidden", "multi", "rgba", "rgb565", "video"}
    LayerKinds <- MCLayerKinds
SPECIFICATION Spec
INVARIANT NoReadPastPipelines
