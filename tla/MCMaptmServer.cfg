CONSTANTS
    MaxGen <- MCMaxGen
    EmptyWriteApplied <- MCEmptyWriteApplied
SPECIFICATION Spec
PROPERTY
    ServerGainsLiveOptions
