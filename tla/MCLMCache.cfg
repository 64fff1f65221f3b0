SPECIFICATION Spec
CONSTANTS
    MaxEdits = 2
    Flags <- NamespaceFlags
INVARIANT LMCacheSingleSlice
