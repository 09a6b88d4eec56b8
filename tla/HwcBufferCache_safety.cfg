CONSTANTS
    Handles = {h1, h2, h3, h4}
    CacheSize = 3
    MaxMapFailures = 1
    NoHandle = NoHandle
    NoMap = NoMap
SPECIFICATION Spec
INVARIANT TypeOK
INVARIANT ListWellFormed
INVARIANT MappingsAccounted
