SPECIFICATION Spec
CONSTANTS
    MaxEdits = 2
    Flags <- NamespaceFlags
INVARIANTS NothingDropped RenderNeverPanics MergedRulesHold PodHoldsTogether EnvPrecedence
PROPERTIES EditReachesPod HashTracksPod
