CONSTANTS
    MaxGen <- MCMaxGen
    EmptyWriteApplied <- MCEmptyWriteApplied
SPECIFICATION Spec
INVARIANT
    MaptOnlyInMaptMode
