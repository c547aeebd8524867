SPECIFICATION Spec
CONSTANT MaxFrames = 3
INVARIANTS TypeOK SummaryMatchesFile ZeroIffSummary OutputsInStep DispositionRestored ReplayedFileIntact
PROPERTY SigtermLosesOnlyAtTheEnd
